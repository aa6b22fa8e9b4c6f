-------------------------- MODULE FormScripts_proofs --------------------------
(***************************************************************************)
(* The submit button of a page with a form, for any passwords, any policy  *)
(* and any number of submissions: no second submission while one is under  *)
(* way but where the scripts let it, no password that the policy refuses,  *)
(* and a login page that can be used.                                      *)
(*                                                                         *)
(* The button is what several scripts share.  The invariant says, for each *)
(* kind of page, what an enabled button means while a submission is under  *)
(* way: on the login page that the own handlers came late or that the page *)
(* finished loading, which it does once; on the password page an edit.     *)
(***************************************************************************)
EXTENDS FormScripts, SequenceTheorems, TLAPS

-----------------------------------------------------------------------------
(* The login page can be used: the pageshow handler runs at each way into  *)
(* the state in which the page is shown, and the others lead to a          *)
(* submission under way or to one that was stopped.                        *)
LEMMA UsableStep == LoginUsable /\ [FormNext]_formVars => LoginUsable'
<1> SUFFICES ASSUME LoginUsable, [FormNext]_formVars PROVE LoginUsable'
  OBVIOUS
<1> USE DEF LoginUsable, formVars, location, fields
<1>1. CASE OwnReady BY <1>1, Zenon DEF OwnReady
<1>2. CASE CasReady BY <1>2, Zenon DEF CasReady
<1>3. CASE Load BY <1>3, Zenon DEF Load, Pageshow
<1>4. ASSUME NEW p \in Passwords, NEW c \in Passwords, Type(p, c) PROVE LoginUsable'
  <2>1. page' # "login" BY <1>4 DEF Type
  <2>2. QED BY <2>1
<1>5. ASSUME NEW m \in Messages, Close(m) PROVE LoginUsable'
  BY <1>5, Zenon DEF Close
<1>6. CASE Submit
  <2>1. underWay' = TRUE BY <1>6 DEF Submit
  <2>2. QED BY <2>1
<1>7. CASE AnswerArrives
  <2>1. shown' # "loaded" BY <1>7 DEF AnswerArrives
  <2>2. QED BY <2>1
<1>8. CASE Stop BY <1>8, Zenon DEF Stop
<1>9. CASE Back BY <1>9, Zenon DEF Back, Pageshow
<1>10. CASE Reload
  <2>1. shown' # "loaded" BY <1>10 DEF Reload
  <2>2. QED BY <2>1
<1>11. CASE UNCHANGED formVars BY <1>11, Zenon
<1>12. QED
  BY <1>1, <1>2, <1>3, <1>4, <1>5, <1>6, <1>7, <1>8, <1>9, <1>10, <1>11 DEF FormNext

(* Whenever the login page is shown, nothing is under way and the user did *)
(* not stop the last submission, it can be submitted (loginform.html).     *)
THEOREM LoginCanBeUsed == FormSpec => []LoginUsable
<1>1. FormInit => LoginUsable
  BY DEF FormInit, LoginUsable
<1>2. QED BY <1>1, UsableStep, PTL DEF FormSpec

-----------------------------------------------------------------------------

(* What the submissions of a document hold.                                *)
Parts == {"path", "query", "hash", "route"}
Submissions == [to : Seq(Parts), pw : Passwords, cnf : Passwords, ready : 0..2,
                over : BOOLEAN, edited : BOOLEAN]
Flags == underWay \in BOOLEAN /\ edited \in BOOLEAN
History ==
  /\ sent \in Seq(Submissions)
  /\ action \in Seq(Parts)
  /\ ready \in 0..2 /\ pw \in Passwords /\ cnf \in Passwords
  /\ Flags
  /\ underWay => Len(sent) > 0
  /\ underWay => shown # "away"

(* What Submit adds to them.                                               *)
Added == [to |-> action', pw |-> pw, cnf |-> cnf, ready |-> ready,
          over |-> underWay, edited |-> edited]

LEMMA SentActionType == SentAction \in Seq(Parts)
<1>1. <<"path">> \in Seq(Parts) /\ <<>> \in Seq(Parts)
  BY DEF Parts
<1>2. SentAction = <<"path">> \/ SentAction = <<>>
  BY Zenon DEF SentAction
<1>3. QED BY <1>1, <1>2

LEMMA PreservedType ==
  ASSUME action \in Seq(Parts)
  PROVE  Preserved \in Seq(Parts)
<1>1. <<"path">> \in Seq(Parts) /\ <<"query">> \in Seq(Parts) /\ <<"hash">> \in Seq(Parts)
      /\ <<"route">> \in Seq(Parts) /\ <<>> \in Seq(Parts)
  BY DEF Parts
<1>2. Fragment \in Seq(Parts)
  BY <1>1 DEF Fragment
<1>3. \A a, b \in Seq(Parts) : a \o b \in Seq(Parts)
  BY ConcatProperties
<1>4. FromQuestion \in Seq(Parts) /\ Href \in Seq(Parts)
  BY <1>1, <1>2, <1>3 DEF FromQuestion, Href
<1>5. QED BY <1>2, <1>3, <1>4 DEF Preserved

(* A submission adds its record behind the others.                         *)
LEMMA Appended ==
  ASSUME NEW S, NEW s \in Seq(S), NEW e \in S
  PROVE  /\ Append(s, e) \in Seq(S)
         /\ Len(Append(s, e)) = Len(s) + 1 /\ Len(s) \in Nat
         /\ DOMAIN Append(s, e) = 1..(Len(s) + 1) /\ DOMAIN s = 1..Len(s)
         /\ Append(s, e)[Len(s) + 1] = e
         /\ \A i \in 1..Len(s) : Append(s, e)[i] = s[i]
         /\ \A i \in 1..(Len(s) + 1) : i \in 1..Len(s) \/ i = Len(s) + 1
OBVIOUS

LEMMA Submitted ==
  ASSUME History, Submit
  PROVE  /\ action' \in Seq(Parts) /\ Added \in Submissions
         /\ sent' = Append(sent, Added) /\ sent' \in Seq(Submissions)
         /\ Len(sent') = Len(sent) + 1 /\ Len(sent) \in Nat
         /\ DOMAIN sent' = 1..(Len(sent) + 1) /\ DOMAIN sent = 1..Len(sent)
         /\ sent'[Len(sent) + 1] = Added
         /\ \A i \in 1..Len(sent) : sent'[i] = sent[i]
         /\ \A i \in 1..(Len(sent) + 1) : i \in 1..Len(sent) \/ i = Len(sent) + 1
<1>1. action' \in Seq(Parts)
  <2>1. CASE ready = 2 /\ page # "password" /\ ~Throws
    BY <2>1, PreservedType DEF History, Submit
  <2>2. CASE ~(ready = 2 /\ page # "password" /\ ~Throws)
    BY <2>2 DEF History, Submit
  <2>3. QED BY <2>1, <2>2
<1>2. Added \in Submissions
  <2>1. underWay \in BOOLEAN /\ edited \in BOOLEAN BY DEF History, Flags
  <2>2. ready \in 0..2 /\ pw \in Passwords /\ cnf \in Passwords BY DEF History
  <2>3. QED BY <1>1, <2>1, <2>2 DEF Added, Submissions
<1>3. sent' = Append(sent, Added)
  BY Zenon DEF Submit, Added
<1>4. sent \in Seq(Submissions) BY DEF History
<1>5. QED BY <1>1, <1>2, <1>3, <1>4, Appended

LEMMA InitHistory == FormInit => History
<1> SUFFICES ASSUME FormInit PROVE History
  OBVIOUS
<1>1. sent \in Seq(Submissions) BY DEF FormInit
<1>2. action \in Seq(Parts) BY SentActionType, Zenon DEF FormInit
<1>3. ready \in 0..2 BY DEF FormInit
<1>4. pw \in Passwords /\ cnf \in Passwords BY FormAssumption DEF FormInit
<1>5. underWay = FALSE /\ edited = FALSE BY DEF FormInit
<1>6. Flags BY <1>5 DEF Flags
<1>7. QED BY <1>1, <1>2, <1>3, <1>4, <1>5, <1>6 DEF History

LEMMA HistoryStep == History /\ [FormNext]_formVars => History'
<1> SUFFICES ASSUME History, [FormNext]_formVars PROVE History'
  OBVIOUS
<1> USE DEF formVars, location, fields
<1>1. CASE OwnReady
  <2>1. ready' \in 0..2 BY <1>1 DEF OwnReady
  <2>2. QED BY <1>1, <2>1, Zenon DEF OwnReady, History, Flags
<1>2. CASE CasReady
  <2>1. ready' \in 0..2 BY <1>2 DEF CasReady
  <2>2. QED BY <1>2, <2>1, Zenon DEF CasReady, History, Flags
<1>3. CASE Load
  <2>1. shown' # "away" BY <1>3 DEF Load
  <2>2. QED BY <1>3, <2>1, Zenon DEF Load, History, Flags
<1>4. ASSUME NEW p \in Passwords, NEW c \in Passwords, Type(p, c) PROVE History'
  <2>1. edited' \in BOOLEAN
    <3>1. CASE ready = 2
      <4>1. edited' = TRUE BY <1>4, <3>1 DEF Type, Validate
      <4>2. QED BY <4>1
    <3>2. CASE ready # 2 BY <1>4, <3>2, Zenon DEF Type, History, Flags
    <3>3. QED BY <3>1, <3>2
  <2>2. QED BY <1>4, <2>1, Zenon DEF Type, History, Flags
<1>5. ASSUME NEW m \in Messages, Close(m) PROVE History'
  BY <1>5, Zenon DEF Close, History, Flags
<1>6. CASE Submit
  <2>1. /\ action' \in Seq(Parts) /\ sent' \in Seq(Submissions)
        /\ Len(sent') = Len(sent) + 1 /\ Len(sent) \in Nat
    BY <1>6, Submitted
  <2>2. Len(sent') > 0 BY <2>1
  <2>3. underWay' = TRUE /\ edited' = FALSE /\ shown' # "away" BY <1>6 DEF Submit
  <2>4. ready' = ready /\ pw' = pw /\ cnf' = cnf BY <1>6, Zenon DEF Submit
  <2>5. QED BY <2>1, <2>2, <2>3, <2>4, Zenon DEF History, Flags
<1>7. CASE AnswerArrives
  <2>1. underWay' = FALSE BY <1>7 DEF AnswerArrives
  <2>2. QED BY <1>7, <2>1, Zenon DEF AnswerArrives, History, Flags
<1>8. CASE Stop
  <2>1. underWay' = FALSE BY <1>8 DEF Stop
  <2>2. QED BY <1>8, <2>1, Zenon DEF Stop, History, Flags
<1>9. CASE Back
  <2>1. shown' # "away" BY <1>9 DEF Back
  <2>2. QED BY <1>9, <2>1, Zenon DEF Back, History, Flags
<1>10. CASE Reload
  <2>1. sent' \in Seq(Submissions) BY <1>10 DEF Reload
  <2>2. action' \in Seq(Parts)
    BY <1>10, SentActionType, Zenon DEF Reload
  <2>3. ready' \in 0..2 BY <1>10 DEF Reload
  <2>4. pw' \in Passwords /\ cnf' \in Passwords BY <1>10, FormAssumption DEF Reload
  <2>5. underWay' = FALSE /\ edited' = FALSE BY <1>10 DEF Reload
  <2>6. QED BY <2>1, <2>2, <2>3, <2>4, <2>5, Zenon DEF History, Flags
<1>11. CASE UNCHANGED formVars BY <1>11, Zenon DEF History, Flags
<1>12. QED
  BY <1>1, <1>2, <1>3, <1>4, <1>5, <1>6, <1>7, <1>8, <1>9, <1>10, <1>11 DEF FormNext

-----------------------------------------------------------------------------
(* The password page: only validate enables the button, for an accepted    *)
(* password that was typed twice, and any later change of a field          *)
(* validates again.                                                        *)
ButtonMeansAccepted ==
  page = "password" => (enabled => ready = 2 /\ pw \in Accepted /\ cnf = pw)
SentInv == History /\ ButtonMeansAccepted /\ OnlyAcceptedSent

(* A document stays of its kind.                                           *)
LEMMA SamePage == [FormNext]_formVars => page' = page /\ hash' = hash
<1> SUFFICES ASSUME [FormNext]_formVars PROVE location' = location
  BY DEF location
<1>1. ASSUME NEW p \in Passwords, NEW c \in Passwords, Type(p, c)
      PROVE  location' = location
  BY <1>1 DEF Type
<1>2. ASSUME NEW m \in Messages, Close(m) PROVE location' = location
  BY <1>2 DEF Close
<1>3. CASE Submit BY <1>3 DEF Submit
<1>4. CASE OwnReady \/ CasReady BY <1>4 DEF OwnReady, CasReady
<1>5. CASE Load \/ Back BY <1>5 DEF Load, Back
<1>6. CASE AnswerArrives \/ Stop BY <1>6 DEF AnswerArrives, Stop
<1>7. CASE Reload BY <1>7 DEF Reload
<1>8. CASE UNCHANGED formVars BY <1>8 DEF formVars
<1>9. QED BY <1>1, <1>2, <1>3, <1>4, <1>5, <1>6, <1>7, <1>8 DEF FormNext

LEMMA SentStep == SentInv /\ [FormNext]_formVars => SentInv'
<1> SUFFICES ASSUME SentInv, [FormNext]_formVars PROVE SentInv'
  OBVIOUS
<1> SUFFICES ASSUME page' = page, page = "password"
             PROVE  /\ (enabled => ready = 2 /\ pw \in Accepted /\ cnf = pw)'
                    /\ (\A i \in DOMAIN sent :
                          sent[i].pw \in Accepted /\ sent[i].cnf = sent[i].pw)'
  <2>1. page' = page BY SamePage
  <2>2. History' BY HistoryStep DEF SentInv
  <2>3. CASE page = "password"
    <3>1. (ButtonMeansAccepted /\ OnlyAcceptedSent)'
      BY <2>1, <2>3, Zenon DEF ButtonMeansAccepted, OnlyAcceptedSent
    <3>2. QED BY <2>2, <3>1 DEF SentInv
  <2>4. CASE page # "password"
    <3>1. page' # "password" BY <2>1, <2>4
    <3>2. ButtonMeansAccepted' /\ OnlyAcceptedSent'
      BY <3>1, Zenon DEF ButtonMeansAccepted, OnlyAcceptedSent
    <3>3. QED BY <2>2, <3>2 DEF SentInv
  <2>5. QED BY <2>3, <2>4
<1>0. /\ enabled => ready = 2 /\ pw \in Accepted /\ cnf = pw
      /\ \A i \in DOMAIN sent : sent[i].pw \in Accepted /\ sent[i].cnf = sent[i].pw
  BY Zenon DEF SentInv, ButtonMeansAccepted, OnlyAcceptedSent
<1> DEFINE Good == /\ (enabled => ready = 2 /\ pw \in Accepted /\ cnf = pw)'
                   /\ (\A i \in DOMAIN sent :
                         sent[i].pw \in Accepted /\ sent[i].cnf = sent[i].pw)'
<1> USE DEF formVars, location, fields
<1>1. CASE OwnReady
  <2>1. ready # 2 BY <1>1 DEF OwnReady
  <2>2. QED BY <1>0, <1>1, <2>1, Zenon DEF OwnReady
<1>2. CASE CasReady
  <2>1. ready # 2 BY <1>2 DEF CasReady
  <2>2. QED BY <1>0, <1>2, <2>1, Zenon DEF CasReady
<1>3. CASE Load
  <2>1. page # "login" OBVIOUS
  <2>2. QED BY <1>0, <1>3, <2>1, Zenon DEF Load, Pageshow
<1>4. ASSUME NEW p \in Passwords, NEW c \in Passwords, Type(p, c) PROVE Good
  <2>1. CASE ready = 2
    <3>1. enabled' = ~(Violates(p) \/ Mismatch(p, c))
      BY <1>4, <2>1, Zenon DEF Type, Validate
    <3>2. enabled' => p \in Accepted /\ c = p
      BY <3>1, Zenon DEF Violates, Mismatch
    <3>3. sent' = sent /\ ready' = ready /\ pw' = p /\ cnf' = c
      BY <1>4, Zenon DEF Type
    <3>4. QED BY <1>0, <2>1, <3>2, <3>3, Zenon
  <2>2. CASE ready # 2
    <3>1. ~enabled BY <1>0, <2>2
    <3>2. enabled' = enabled /\ sent' = sent BY <1>4, <2>2, Zenon DEF Type
    <3>3. QED BY <1>0, <3>1, <3>2, Zenon
  <2>3. QED BY <2>1, <2>2
<1>5. ASSUME NEW m \in Messages, Close(m) PROVE Good
  BY <1>0, <1>5, Zenon DEF Close
<1>6. CASE Submit
  <2> DEFINE n == Len(sent) + 1
  <2>1. History BY DEF SentInv
  <2>2. /\ DOMAIN sent' = 1..n /\ DOMAIN sent = 1..Len(sent)
        /\ sent'[n] = Added
        /\ \A i \in 1..Len(sent) : sent'[i] = sent[i]
        /\ \A i \in 1..n : i \in 1..Len(sent) \/ i = n
    BY <1>6, <2>1, Submitted
  <2>3. enabled BY <1>6, Zenon DEF Submit
  <2>6. ready' = ready /\ pw' = pw /\ cnf' = cnf BY <1>6, Zenon DEF Submit
  <2>4. Added.pw = pw /\ Added.cnf = cnf BY DEF Added
  <2> HIDE DEF n
  <2>5. \A i \in 1..n : sent'[i].pw \in Accepted /\ sent'[i].cnf = sent'[i].pw
    BY <1>0, <2>2, <2>3, <2>4, Zenon
  <2>7. enabled' => ready' = 2 /\ pw' \in Accepted /\ cnf' = pw'
    BY <1>0, <2>3, <2>6, Zenon
  <2>8. QED BY <2>2, <2>5, <2>7, Zenon
<1>7. CASE AnswerArrives BY <1>0, <1>7, Zenon DEF AnswerArrives
<1>8. CASE Stop BY <1>0, <1>8, Zenon DEF Stop
<1>9. CASE Back
  <2>1. page # "login" OBVIOUS
  <2>2. QED BY <1>0, <1>9, <2>1, Zenon DEF Back, Pageshow
<1>10. CASE Reload
  <2>1. DOMAIN sent' = {} BY <1>10 DEF Reload
  <2>2. ~enabled' BY <1>10, Zenon DEF Reload
  <2>3. QED BY <2>1, <2>2, Zenon
<1>11. CASE UNCHANGED formVars BY <1>0, <1>11, Zenon
<1>12. QED
  BY <1>1, <1>2, <1>3, <1>4, <1>5, <1>6, <1>7, <1>8, <1>9, <1>10, <1>11, Zenon
     DEF FormNext

(* The password page submits a password only if it matches the policy and  *)
(* was typed twice, whenever the scripts get ready and whatever is edited  *)
(* while a submission is under way (the markup's disabled, validate).      *)
THEOREM SubmitsOnlyAccepted == FormSpec => []OnlyAcceptedSent
<1>1. FormInit => SentInv
  <2> SUFFICES ASSUME FormInit PROVE ButtonMeansAccepted /\ OnlyAcceptedSent
    BY InitHistory DEF SentInv
  <2>1. DOMAIN sent = {} BY DEF FormInit
  <2>2. page = "password" => ~enabled BY Zenon DEF FormInit
  <2>3. QED BY <2>1, <2>2, Zenon DEF ButtonMeansAccepted, OnlyAcceptedSent
<1>2. SentInv => OnlyAcceptedSent
  BY DEF SentInv
<1>3. QED BY <1>1, <1>2, SentStep, PTL DEF FormSpec

-----------------------------------------------------------------------------
(* What an enabled button means while a submission is under way.           *)
NoneTwice == \A j \in 1..Len(sent) : sent[j].over => sent[j - 1].ready = 0
LoginButton ==
  page = "login" =>
    /\ shown = "loading" => NoneTwice
    /\ (shown = "loading" /\ underWay /\ enabled) => sent[Len(sent)].ready = 0
    /\ (underWay /\ enabled /\ sent[Len(sent)].ready # 0) => NoneTwice
PasswordButton ==
  page = "password" =>
    /\ enabled => ready = 2
    /\ (enabled /\ underWay) => edited
OtherButton ==
  page \in {"mfa", "plain"} =>
    ((underWay /\ enabled) => sent[Len(sent)].ready < 2 \/ hash = "malformed")
ButtonInv ==
  /\ page \in Pages
  /\ LoginButton /\ PasswordButton /\ OtherButton
  /\ \A i \in 1..Len(sent) : sent[i].over => i > 1
OneInv == History /\ ButtonInv /\ OneAtATime

(* What does not submit and leaves the button and the page as they are, or *)
(* what is under way ends, disturbs none of it.                            *)
LEMMA Undisturbed ==
  ASSUME ButtonInv, OneAtATime, UNCHANGED <<page, hash, sent>>,
         shown' = "loading" => shown = "loading",
         enabled' => enabled,
         underWay' => underWay,
         page = "password" => (ready = 2 => ready' = 2) /\ (edited => edited')
  PROVE  ButtonInv' /\ OneAtATime'
<1>1. OneAtATime' BY DEF OneAtATime
<1>2. NoneTwice' <=> NoneTwice BY DEF NoneTwice
<1>3. LoginButton' BY <1>2, Zenon DEF ButtonInv, LoginButton
<1>4. PasswordButton' BY Zenon DEF ButtonInv, PasswordButton
<1>5. OtherButton' BY Zenon DEF ButtonInv, OtherButton
<1>6. QED BY <1>1, <1>3, <1>4, <1>5, Zenon DEF ButtonInv

(* A document with no submissions.                                         *)
LEMMA Fresh ==
  ASSUME sent = <<>>, underWay = FALSE, page \in Pages, page = "password" => ~enabled
  PROVE  ButtonInv /\ OneAtATime
<1>1. Len(sent) = 0 /\ DOMAIN sent = {} OBVIOUS
<1>2. 1..Len(sent) = {} BY <1>1
<1>3. NoneTwice BY <1>2 DEF NoneTwice
<1>4. LoginButton /\ PasswordButton /\ OtherButton
  BY <1>3, Zenon DEF LoginButton, PasswordButton, OtherButton
<1>5. OneAtATime BY <1>1 DEF OneAtATime
<1>6. QED BY <1>2, <1>4, <1>5 DEF ButtonInv

(* A submission: if one is under way already, the meaning of the enabled   *)
(* button is what OneAtATime asks for.                                     *)
LEMMA SubmitStep ==
  ASSUME History, ButtonInv, OneAtATime, Submit
  PROVE  ButtonInv' /\ OneAtATime'
<1> DEFINE n == Len(sent)
<1>1. /\ Len(sent') = n + 1 /\ n \in Nat
      /\ DOMAIN sent' = 1..(n + 1) /\ DOMAIN sent = 1..n
      /\ sent'[n + 1] = Added
      /\ \A i \in 1..n : sent'[i] = sent[i]
      /\ \A i \in 1..(n + 1) : i \in 1..n \/ i = n + 1
  BY Submitted
<1>2. Added.over = underWay /\ Added.ready = ready /\ Added.edited = edited
  BY DEF Added
<1>3. enabled BY Zenon DEF Submit
<1>4. page' = page /\ hash' = hash /\ ready' = ready /\ shown' = shown
  BY Zenon DEF Submit, location
<1>5. enabled' => ~Disables BY Zenon DEF Submit
<1>6. underWay => n > 0 BY DEF History
<1>7. ready \in 0..2 BY DEF History
<1>8. page \in Pages /\ \A i \in 1..n : sent[i].over => i > 1 BY DEF ButtonInv
<1>9. (\A i \in 1..Len(sent) : sent[i].over => i > 1)'
  BY <1>1, <1>2, <1>6, <1>8
<1>10. CASE page = "login"
  <2>1. enabled' => ready = 0
    BY <1>5, <1>7, <1>10 DEF Disables
  <2>2. NoneTwice => \A j \in 1..n : sent'[j].over => sent'[j - 1].ready = 0
    BY <1>1, <1>8 DEF NoneTwice
  <2>3. underWay => sent[n].ready = 0 \/ NoneTwice
    BY <1>3, <1>10, Zenon DEF ButtonInv, LoginButton
  <2>4. (shown = "loading" => NoneTwice) /\ (shown = "loading" /\ underWay => sent[n].ready = 0)
    BY <1>3, <1>10, Zenon DEF ButtonInv, LoginButton
  <2>5. underWay => sent'[n] = sent[n]
    BY <1>1, <1>6
  <2>6. shown = "loading" => NoneTwice'
    BY <1>1, <1>2, <2>2, <2>4, <2>5 DEF NoneTwice
  <2>7. LoginButton'
    BY <1>1, <1>2, <1>4, <2>1, <2>6 DEF LoginButton
  <2>8. OneAtATime'
    <3> SUFFICES ASSUME NEW i \in 1..(n + 1), sent'[i].over
                 PROVE  \/ sent'[i - 1].ready = 0
                        \/ \A j \in 1..(i - 1) : sent'[j].over => sent'[j - 1].ready = 0
      BY <1>1, <1>4, <1>10 DEF OneAtATime
    <3>1. CASE i = n + 1
      BY <1>1, <1>2, <2>2, <2>3, <2>5, <3>1
    <3>2. CASE i \in 1..n
      <4>1. sent[i].over /\ i > 1 BY <1>1, <1>8, <3>2
      <4>2. \/ sent[i - 1].ready = 0
            \/ \A j \in 1..(i - 1) : sent[j].over => sent[j - 1].ready = 0
        BY <1>1, <1>10, <3>2, <4>1 DEF OneAtATime
      <4>3. sent'[i - 1] = sent[i - 1] BY <1>1, <3>2, <4>1
      <4>4. \A j \in 1..(i - 1) : sent'[j] = sent[j] /\ j \in 1..n BY <1>1, <3>2
      <4>5. \A j \in 1..(i - 1) : sent[j].over => sent'[j - 1] = sent[j - 1]
        BY <1>1, <1>8, <4>4
      <4>6. QED BY <4>2, <4>3, <4>4, <4>5
    <3>3. QED BY <1>1, <3>1, <3>2
  <2>9. PasswordButton' /\ OtherButton'
    BY <1>4, <1>10 DEF PasswordButton, OtherButton
  <2>10. QED BY <1>4, <1>8, <1>9, <2>7, <2>8, <2>9 DEF ButtonInv
<1>11. CASE page = "password"
  <2>1. ready = 2 /\ (underWay => edited)
    BY <1>3, <1>11, Zenon DEF ButtonInv, PasswordButton
  <2>2. Disables BY <1>11, <2>1 DEF Disables, Throws
  <2>3. PasswordButton' BY <1>5, <2>2 DEF PasswordButton
  <2>4. OneAtATime'
    <3> SUFFICES ASSUME NEW i \in 1..(n + 1), sent'[i].over PROVE sent'[i].edited
      BY <1>1, <1>4, <1>11 DEF OneAtATime
    <3>1. CASE i = n + 1
      BY <1>1, <1>2, <2>1, <3>1
    <3>2. CASE i \in 1..n
      BY <1>1, <1>11, <3>2 DEF OneAtATime
    <3>3. QED BY <1>1, <3>1, <3>2
  <2>5. LoginButton' /\ OtherButton'
    BY <1>4, <1>11 DEF LoginButton, OtherButton
  <2>6. QED BY <1>4, <1>8, <1>9, <2>3, <2>4, <2>5 DEF ButtonInv
<1>12. CASE page \in {"mfa", "plain"}
  <2>1. underWay => sent[n].ready < 2 \/ hash = "malformed"
    BY <1>3, <1>12, Zenon DEF ButtonInv, OtherButton
  <2>2. enabled' => ready < 2 \/ hash = "malformed"
    BY <1>5, <1>7, <1>12 DEF Disables, Throws
  <2>3. OtherButton' BY <1>1, <1>2, <1>4, <2>2 DEF OtherButton
  <2>4. OneAtATime'
    <3> SUFFICES ASSUME NEW i \in 1..(n + 1), sent'[i].over
                 PROVE  sent'[i - 1].ready < 2 \/ hash = "malformed"
      BY <1>1, <1>4, <1>12 DEF OneAtATime
    <3>1. CASE i = n + 1
      BY <1>1, <1>2, <1>6, <2>1, <3>1
    <3>2. CASE i \in 1..n
      <4>1. sent[i].over /\ i > 1 BY <1>1, <1>8, <3>2
      <4>2. sent[i - 1].ready < 2 \/ hash = "malformed"
        BY <1>1, <1>12, <3>2, <4>1 DEF OneAtATime
      <4>3. sent'[i - 1] = sent[i - 1] BY <1>1, <3>2, <4>1
      <4>4. QED BY <4>2, <4>3
    <3>3. QED BY <1>1, <3>1, <3>2
  <2>5. LoginButton' /\ PasswordButton'
    BY <1>4, <1>12 DEF LoginButton, PasswordButton
  <2>6. QED BY <1>4, <1>8, <1>9, <2>3, <2>4, <2>5 DEF ButtonInv
<1>13. QED BY <1>8, <1>10, <1>11, <1>12 DEF Pages

LEMMA OneStep == OneInv /\ [FormNext]_formVars => OneInv'
<1> SUFFICES ASSUME History, ButtonInv, OneAtATime, [FormNext]_formVars
             PROVE  ButtonInv' /\ OneAtATime'
  BY HistoryStep DEF OneInv
<1>0. page \in Pages BY DEF ButtonInv
<1> USE DEF formVars, location, fields
<1>1. CASE OwnReady
  <2>1. ready # 2 BY <1>1 DEF OwnReady
  <2>2. UNCHANGED <<page, hash, sent, shown, enabled, underWay, edited>>
    BY <1>1 DEF OwnReady
  <2>3. QED BY <2>1, <2>2, Undisturbed
<1>2. CASE CasReady
  <2>1. ready # 2 BY <1>2 DEF CasReady
  <2>2. UNCHANGED <<page, hash, sent, shown, enabled, underWay, edited>>
    BY <1>2 DEF CasReady
  <2>3. QED BY <2>1, <2>2, Undisturbed
<1>3. CASE Load
  <2>1. UNCHANGED <<page, hash, sent, ready, underWay, edited>> /\ shown = "loading"
        /\ shown' = "loaded"
    BY <1>3 DEF Load
  <2>2. CASE page = "login"
    <3>1. NoneTwice BY <2>1, <2>2, Zenon DEF ButtonInv, LoginButton
    <3>2. LoginButton' BY <2>1, <3>1 DEF LoginButton, NoneTwice
    <3>3. PasswordButton' /\ OtherButton'
      BY <2>1, <2>2 DEF PasswordButton, OtherButton
    <3>4. QED BY <2>1, <3>2, <3>3 DEF ButtonInv, OneAtATime
  <2>3. CASE page # "login"
    <3>1. enabled' => enabled BY <1>3, <2>3, Zenon DEF Load, Pageshow
    <3>2. QED BY <2>1, <3>1, Undisturbed
  <2>4. QED BY <2>2, <2>3
<1>4. ASSUME NEW p \in Passwords, NEW c \in Passwords, Type(p, c)
      PROVE  ButtonInv' /\ OneAtATime'
  <2>1. UNCHANGED <<page, hash, sent, ready, shown, underWay>> /\ page = "password"
    BY <1>4 DEF Type
  <2>2. CASE ready = 2
    <3>1. edited' = TRUE BY <1>4, <2>2 DEF Type, Validate
    <3>2. PasswordButton' BY <2>1, <2>2, <3>1 DEF PasswordButton
    <3>3. LoginButton' /\ OtherButton'
      BY <2>1 DEF LoginButton, OtherButton
    <3>4. QED BY <2>1, <3>2, <3>3 DEF ButtonInv, OneAtATime
  <2>3. CASE ready # 2
    <3>1. UNCHANGED <<enabled, edited>> BY <1>4, <2>3 DEF Type
    <3>2. QED BY <2>1, <3>1, Undisturbed
  <2>4. QED BY <2>2, <2>3
<1>5. ASSUME NEW m \in Messages, Close(m) PROVE ButtonInv' /\ OneAtATime'
  <2>1. UNCHANGED <<page, hash, sent, ready, shown, enabled, underWay, edited>>
    BY <1>5 DEF Close
  <2>2. QED BY <2>1, Undisturbed
<1>6. CASE Submit BY <1>6, SubmitStep
<1>7. CASE AnswerArrives
  <2>1. UNCHANGED <<page, hash, sent, ready, enabled, edited>> /\ underWay' = FALSE
        /\ shown' = "away"
    BY <1>7 DEF AnswerArrives
  <2>2. QED BY <2>1, Undisturbed
<1>8. CASE Stop
  <2>1. UNCHANGED <<page, hash, sent, ready, shown, enabled, edited>> /\ underWay' = FALSE
    BY <1>8 DEF Stop
  <2>2. QED BY <2>1, Undisturbed
<1>9. CASE Back
  <2>1. UNCHANGED <<page, hash, sent, ready, underWay, edited>> /\ shown = "away"
        /\ shown' = "loaded"
    BY <1>9 DEF Back
  <2>2. CASE page = "login"
    <3>1. ~underWay BY <2>1 DEF History
    <3>2. LoginButton' BY <2>1, <3>1 DEF LoginButton
    <3>3. PasswordButton' /\ OtherButton'
      BY <2>1, <2>2 DEF PasswordButton, OtherButton
    <3>4. QED BY <2>1, <3>2, <3>3 DEF ButtonInv, OneAtATime
  <2>3. CASE page # "login"
    <3>1. enabled' => enabled BY <1>9, <2>3, Zenon DEF Back, Pageshow
    <3>2. QED BY <2>1, <3>1, Undisturbed
  <2>4. QED BY <2>2, <2>3
<1>10. CASE Reload
  <2>1. sent' = <<>> /\ underWay' = FALSE /\ page' = page BY <1>10 DEF Reload
  <2>2. page = "password" => ~enabled' BY <1>10, Zenon DEF Reload
  <2>3. (sent = <<>> /\ underWay = FALSE /\ page \in Pages
         /\ (page = "password" => ~enabled))'
    BY <1>0, <2>1, <2>2
  <2>4. ((sent = <<>> /\ underWay = FALSE /\ page \in Pages
          /\ (page = "password" => ~enabled)) => ButtonInv /\ OneAtATime)'
    BY Fresh, PTL
  <2>5. QED BY <2>3, <2>4
<1>11. CASE UNCHANGED formVars
  <2>1. UNCHANGED <<page, hash, sent, ready, shown, enabled, underWay, edited>>
    BY <1>11
  <2>2. QED BY <2>1, Undisturbed
<1>12. QED
  BY <1>1, <1>2, <1>3, <1>4, <1>5, <1>6, <1>7, <1>8, <1>9, <1>10, <1>11, Zenon
     DEF FormNext

(* No page submits again while its submission is under way, but where its  *)
(* scripts are late, cannot decode the fragment, or an edit of the         *)
(* password page enabled the button; the login page at most once more      *)
(* (preventFormResubmission, loginform.html's handlers, validate).         *)
THEOREM OneSubmission == FormSpec => []OneAtATime
<1>1. FormInit => OneInv
  <2> SUFFICES ASSUME FormInit PROVE ButtonInv /\ OneAtATime
    BY InitHistory DEF OneInv
  <2>1. sent = <<>> /\ underWay = FALSE /\ page \in Pages BY DEF FormInit
  <2>2. page = "password" => ~enabled BY Zenon DEF FormInit
  <2>3. QED BY <2>1, <2>2, Fresh
<1>2. OneInv => OneAtATime
  BY DEF OneInv
<1>3. QED BY <1>1, <1>2, OneStep, PTL DEF FormSpec
-----------------------------------------------------------------------------
(***************************************************************************)
(* The types of all variables, and what the password page shows.           *)
(***************************************************************************)
(* After an edit the button, the messages and the bar are those of the     *)
(* fields, but for the messages that were closed; only the scripts that    *)
(* are ready note an edit.                                                 *)
Validated ==
  edited =>
    /\ page = "password" /\ ready = 2
    /\ bar = pw /\ msgs = MessagesOf(pw, cnf)
    /\ enabled <=> ~(Violates(pw) \/ Mismatch(pw, cnf))

PageInv == History /\ FormTypeOK /\ Validated

LEMMA MessagesType ==
  ASSUME NEW p, NEW c
  PROVE  MessagesOf(p, c) \subseteq Messages \ closed
BY DEF MessagesOf

(* What the user, the scripts and the browser do to the rest of the page   *)
(* while the types of what a submission takes along are known.             *)
LEMMA PageTypes ==
  ASSUME FormTypeOK, History', UNCHANGED location,
         shown' \in {"loading", "loaded", "away"}, enabled' \in BOOLEAN,
         bar' \in Passwords, closed' \subseteq Messages, msgs' \subseteq Messages \ closed',
         stopped' \in BOOLEAN, Len(sent') <= MaxSent
  PROVE  FormTypeOK'
<1>1. /\ ready' \in 0..2 /\ action' \in Seq({"path", "query", "hash", "route"})
      /\ pw' \in Passwords /\ cnf' \in Passwords
      /\ underWay' \in BOOLEAN /\ edited' \in BOOLEAN
  BY DEF History, Flags, Parts
<1>2. /\ page' \in Pages /\ themed' \in BOOLEAN /\ query' \in BOOLEAN /\ hash' \in Hashes
  BY DEF FormTypeOK, location
<1>3. QED BY <1>1, <1>2 DEF FormTypeOK

LEMMA InitPage == FormInit => PageInv
<1> SUFFICES ASSUME FormInit PROVE FormTypeOK /\ Validated
  BY InitHistory DEF PageInv
<1>1. History BY InitHistory
<1>2. /\ page \in Pages /\ themed \in BOOLEAN /\ query \in BOOLEAN /\ hash \in Hashes
      /\ shown = "loading" /\ enabled \in BOOLEAN /\ bar = Empty
      /\ msgs = {} /\ closed = {} /\ stopped = FALSE /\ edited = FALSE
  BY DEF FormInit
<1>3. Len(sent) <= MaxSent BY FormAssumption DEF FormInit
<1>4. /\ ready \in 0..2 /\ action \in Seq({"path", "query", "hash", "route"})
      /\ pw \in Passwords /\ cnf \in Passwords
      /\ underWay \in BOOLEAN /\ edited \in BOOLEAN
  BY <1>1 DEF History, Flags, Parts
<1>5. FormTypeOK BY <1>2, <1>3, <1>4, FormAssumption DEF FormTypeOK
<1>6. QED BY <1>2, <1>5 DEF Validated

LEMMA PageInvStep == PageInv /\ [FormNext]_formVars => PageInv'
<1> SUFFICES ASSUME PageInv, [FormNext]_formVars PROVE FormTypeOK' /\ Validated'
  BY HistoryStep DEF PageInv
<1>0. /\ History /\ FormTypeOK /\ Validated /\ History'
      /\ shown \in {"loading", "loaded", "away"} /\ enabled \in BOOLEAN
      /\ bar \in Passwords /\ closed \subseteq Messages /\ msgs \subseteq Messages \ closed
      /\ stopped \in BOOLEAN /\ Len(sent) <= MaxSent
  BY HistoryStep DEF PageInv, FormTypeOK
<1>a. ASSUME UNCHANGED <<location, fields, edited>>, enabled' = enabled,
             edited => ready' = ready
      PROVE  Validated'
  BY <1>0, <1>a DEF Validated, location, fields, MessagesOf, Violates, Mismatch, Advised
<1>1. CASE OwnReady
  <2>1. edited => ready # 0 BY <1>0 DEF Validated
  <2>2. /\ UNCHANGED <<location, fields, edited, enabled, shown, stopped, sent>>
        /\ ready = 0
    BY <1>1 DEF OwnReady
  <2>3. FormTypeOK' BY <1>0, <2>2, PageTypes DEF fields
  <2>4. QED BY <1>a, <2>1, <2>2, <2>3
<1>2. CASE CasReady
  <2>1. edited => ready # 1 BY <1>0 DEF Validated
  <2>2. /\ UNCHANGED <<location, fields, edited, enabled, shown, stopped, sent>>
        /\ ready = 1
    BY <1>2 DEF CasReady
  <2>3. FormTypeOK' BY <1>0, <2>2, PageTypes DEF fields
  <2>4. QED BY <1>a, <2>1, <2>2, <2>3
<1>3. CASE Load \/ Back
  <2>1. /\ UNCHANGED <<location, fields, edited, ready, sent>>
        /\ enabled' = (page = "login" \/ enabled)
        /\ shown' = "loaded" /\ stopped' \in BOOLEAN
    BY <1>0, <1>3 DEF Load, Back, Pageshow
  <2>2. enabled' \in BOOLEAN BY <2>1
  <2>3. FormTypeOK' BY <1>0, <2>1, <2>2, PageTypes DEF fields
  <2>4. CASE page = "password"
    <3>1. enabled' = enabled BY <1>0, <2>1, <2>4
    <3>2. QED BY <1>a, <2>1, <2>3, <3>1
  <2>5. CASE page # "password"
    <3>1. ~edited' BY <1>0, <2>1, <2>5 DEF Validated
    <3>2. QED BY <2>3, <3>1 DEF Validated
  <2>6. QED BY <2>4, <2>5
<1>4. ASSUME NEW p \in Passwords, NEW c \in Passwords, Type(p, c)
      PROVE  FormTypeOK' /\ Validated'
  <2>1. /\ UNCHANGED <<location, ready, shown, action, closed, underWay, stopped, sent>>
        /\ page = "password" /\ pw' = p /\ cnf' = c
    BY <1>4 DEF Type
  <2>2. CASE ready = 2
    <3>1. /\ enabled' = ~(Violates(p) \/ Mismatch(p, c))
          /\ bar' = p /\ msgs' = MessagesOf(p, c)
      BY <1>4, <2>2 DEF Type, Validate, UpdateProgressBar
    <3>2. enabled' \in BOOLEAN BY <3>1
    <3>3. msgs' \subseteq Messages \ closed' BY <2>1, <3>1, MessagesType
    <3>4. FormTypeOK' BY <1>0, <2>1, <3>1, <3>2, <3>3, PageTypes
    <3>5. msgs' = MessagesOf(pw, cnf)' BY <2>1, <3>1 DEF MessagesOf, Violates, Mismatch, Advised
    <3>6. enabled' <=> ~(Violates(pw) \/ Mismatch(pw, cnf))'
      BY <2>1, <3>1 DEF Violates, Mismatch
    <3>7. QED BY <2>1, <2>2, <3>1, <3>4, <3>5, <3>6 DEF Validated, location
  <2>3. CASE ready # 2
    <3>1. UNCHANGED <<enabled, edited, bar, msgs>> BY <1>4, <2>3 DEF Type
    <3>2. ~edited' BY <1>0, <2>3, <3>1 DEF Validated
    <3>3. FormTypeOK' BY <1>0, <2>1, <3>1, PageTypes
    <3>4. QED BY <3>2, <3>3 DEF Validated
  <2>4. QED BY <2>2, <2>3
<1>5. ASSUME NEW m \in Messages, Close(m)
      PROVE  FormTypeOK' /\ Validated'
  <2>1. /\ UNCHANGED <<location, ready, shown, enabled, pw, cnf, bar, edited, stopped, sent>>
        /\ msgs' = msgs \ {m} /\ closed' = closed \cup {m}
    BY <1>5 DEF Close
  <2>2. closed' \subseteq Messages /\ msgs' \subseteq Messages \ closed'
    BY <1>0, <2>1
  <2>3. FormTypeOK' BY <1>0, <2>1, <2>2, PageTypes
  <2>4. msgs = MessagesOf(pw, cnf) => msgs' = MessagesOf(pw, cnf)'
    BY <2>1 DEF MessagesOf, Violates, Mismatch, Advised
  <2>5. Validated'
    BY <1>0, <2>1, <2>4 DEF Validated, location, Violates, Mismatch
  <2>6. QED BY <2>3, <2>5
<1>6. CASE Submit
  <2>1. /\ UNCHANGED <<location, ready, shown, fields>>
        /\ enabled' = ~Disables /\ edited' = FALSE /\ stopped' = FALSE
        /\ Len(sent) < MaxSent
    BY <1>6 DEF Submit
  <2>2. enabled' \in BOOLEAN BY <2>1
  <2>3. Len(sent') = Len(sent) + 1 /\ Len(sent) \in Nat BY <1>0, <1>6, Submitted
  <2>4. Len(sent') <= MaxSent BY <2>1, <2>3, FormAssumption
  <2>5. FormTypeOK' BY <1>0, <2>1, <2>2, <2>4, PageTypes DEF fields
  <2>6. QED BY <2>1, <2>5 DEF Validated
<1>7. CASE AnswerArrives \/ Stop
  <2>1. /\ UNCHANGED <<location, ready, enabled, fields, edited, sent>>
        /\ shown' \in {"loading", "loaded", "away"} /\ stopped' \in BOOLEAN
    BY <1>0, <1>7 DEF AnswerArrives, Stop
  <2>2. FormTypeOK' BY <1>0, <2>1, PageTypes DEF fields
  <2>3. QED BY <1>a, <2>1, <2>2
<1>8. CASE Reload
  <2>1. /\ UNCHANGED location /\ edited' = FALSE /\ shown' = "loading" /\ bar' = Empty
        /\ msgs' = {} /\ closed' = {} /\ stopped' = FALSE /\ sent' = <<>>
        /\ enabled' = (page # "password")
    BY <1>8 DEF Reload
  <2>2. Len(sent') <= MaxSent BY <2>1, FormAssumption
  <2>3. enabled' \in BOOLEAN BY <2>1
  <2>4. FormTypeOK' BY <1>0, <2>1, <2>2, <2>3, FormAssumption, PageTypes
  <2>5. QED BY <2>1, <2>4 DEF Validated
<1>9. CASE UNCHANGED formVars
  <2>1. UNCHANGED <<location, ready, shown, enabled, fields, edited, stopped, sent>>
    BY <1>9 DEF formVars
  <2>2. FormTypeOK' BY <1>0, <2>1, PageTypes DEF fields
  <2>3. QED BY <1>a, <2>1, <2>2
<1>10. QED
  BY <1>1, <1>2, <1>3, <1>4, <1>5, <1>6, <1>7, <1>8, <1>9 DEF FormNext

(* The variables of a page with a form keep their types, and no message is *)
(* shown again that the user closed.                                       *)
THEOREM FormTypeCorrect == FormSpec => []FormTypeOK
<1>1. PageInv => FormTypeOK BY DEF PageInv
<1>2. QED BY <1>1, InitPage, PageInvStep, PTL DEF FormSpec

(* After an edit the password page shows what is true of its fields: why   *)
(* the button is disabled, but for that very message closed and for a      *)
(* second field still empty, and beside an enabled button no more than the *)
(* advice for a stronger password.                                         *)
THEOREM ButtonExplained == FormSpec => []Explained
<1>1. PageInv => Explained
  <2> DEFINE reason == IF pw # Empty /\ pw \in Accepted THEN "mismatch" ELSE "policy"
  <2> SUFFICES ASSUME PageInv, edited
               PROVE  /\ bar = pw
                      /\ "policy" \in msgs => reason = "policy"
                      /\ "mismatch" \in msgs => pw # cnf /\ cnf # Empty
                      /\ "strength" \in msgs => pw \in Suggested
                      /\ enabled => msgs \subseteq {"strength"}
                      /\ ~enabled => \/ reason \in msgs \cup closed
                                     \/ reason = "mismatch" /\ cnf = Empty
                      /\ pw # Empty /\ pw \in Suggested => "strength" \in msgs \cup closed
    BY DEF Explained
  <2>1. /\ bar = pw /\ msgs = MessagesOf(pw, cnf)
        /\ enabled <=> ~(Violates(pw) \/ Mismatch(pw, cnf))
    BY DEF PageInv, Validated
  <2>2. \A m : m \in msgs <=>
          /\ m \in Messages /\ m \notin closed
          /\ \/ m = "strength" /\ Advised(pw)
             \/ m = "policy" /\ Violates(pw)
             \/ m = "mismatch" /\ Mismatch(pw, cnf) /\ cnf # Empty
    BY <2>1 DEF MessagesOf
  <2>3. "strength" \in Messages /\ "policy" \in Messages /\ "mismatch" \in Messages
    BY DEF Messages
  <2>4. /\ "strength" \in msgs => pw \in Suggested
        /\ pw # Empty /\ pw \in Suggested => "strength" \in msgs \cup closed
    BY <2>2, <2>3 DEF Advised
  <2>5. /\ "policy" \in msgs => reason = "policy"
        /\ "mismatch" \in msgs => pw # cnf /\ cnf # Empty
    BY <2>2 DEF Violates, Mismatch
  <2>6. enabled => msgs \subseteq {"strength"}
    BY <2>1, <2>2
  <2>7. ~enabled => \/ reason \in msgs \cup closed
                    \/ reason = "mismatch" /\ cnf = Empty
    <3>1. CASE Violates(pw)
      BY <2>2, <2>3, <3>1 DEF Violates
    <3>2. CASE ~Violates(pw)
      BY <2>1, <2>2, <2>3, <3>2 DEF Violates, Mismatch
    <3>3. QED
      BY <3>1, <3>2
  <2>8. QED BY <2>1, <2>4, <2>5, <2>6, <2>7
<1>2. QED BY <1>1, InitPage, PageInvStep, PTL DEF FormSpec

-----------------------------------------------------------------------------
(***************************************************************************)
(* The query of the address a form is sent to.  preserveAnchorTagOnForm    *)
(* adds to what it added before; but the first fragment cuts off the rest. *)
(***************************************************************************)
(* Pages and addresses for which the query is kept.                        *)
Scripted == page # "password" /\ hash # "malformed" /\ (query \/ hash # "routed")

(* An address that begins as the page's own, up to the fragment.           *)
Marked(a) ==
  /\ a[1] = "path"
  /\ IF query THEN Len(a) >= 3 /\ a[2] = "query" /\ a[3] = "hash"
              ELSE Len(a) >= 2 /\ a[2] = "hash"

Untouched == \A i \in 1..Len(sent) : sent[i].ready < 2
QueryInv ==
  /\ History /\ page \in Pages /\ query \in BOOLEAN /\ hash \in Hashes
  /\ Scripted => /\ Untouched => action = SentAction
                 /\ hash # "none" => action = SentAction \/ Marked(action)
  /\ QueryKept

(* The first fragment of an address ends its query.                        *)
LEMMA QueryOfHash ==
  ASSUME NEW a \in Seq(Parts), NEW n \in 1..Len(a), a[n] = "hash",
         \A k \in 1..(n - 1) : a[k] # "hash"
  PROVE  QueryOf(a) = SubSeq(a, 2, n - 1)
<1> DEFINE I == {i \in 1..Len(a) : IsHash(a[i])}
<1>1. I # {} /\ n \in I
  BY DEF IsHash
<1>2. SelectInSeq(a, IsHash) = IF I # {} THEN Min(I) ELSE 0
  BY DEF SelectInSeq
<1>3. Min(I) = n
  <2>1. \A x \in I : n <= x
    BY DEF IsHash
  <2>2. \A x \in I : (\A y \in I : x <= y) => x = n
    BY <1>1, <2>1
  <2> HIDE DEF I
  <2>3. QED
    BY <1>1, <2>1, <2>2 DEF Min
<1>4. n # 0
  OBVIOUS
<1> HIDE DEF I
<1>5. SelectInSeq(a, IsHash) = n
  BY <1>1, <1>2, <1>3
<1>6. QED
  BY <1>4, <1>5 DEF QueryOf

LEMMA QueryOfNone ==
  ASSUME NEW a \in Seq(Parts), \A k \in 1..Len(a) : a[k] # "hash"
  PROVE  QueryOf(a) = SubSeq(a, 2, Len(a))
<1> DEFINE I == {i \in 1..Len(a) : IsHash(a[i])}
<1>1. I = {}
  BY DEF IsHash
<1>2. SelectInSeq(a, IsHash) = IF I # {} THEN Min(I) ELSE 0
  BY DEF SelectInSeq
<1> HIDE DEF I
<1>3. SelectInSeq(a, IsHash) = 0
  BY <1>1, <1>2
<1>4. QED
  BY <1>3 DEF QueryOf

(* Small addresses, put together part by part.                             *)
LEMMA TwoParts ==
  ASSUME NEW x \in Parts, NEW y \in Parts
  PROVE  <<x>> \o <<y>> = <<x, y>>
<1> DEFINE s == <<x>> \o <<y>>
<1>1. /\ s \in Seq(Parts) /\ Len(s) = 2 /\ s[1] = x /\ s[2] = y
  OBVIOUS
<1> HIDE DEF s
<1>2. s = <<s[1], s[2]>>
  BY <1>1
<1>3. QED
  BY <1>1, <1>2 DEF s

LEMMA SecondPart ==
  ASSUME NEW a \in Seq(Parts), Len(a) >= 2
  PROVE  SubSeq(a, 2, 2) = <<a[2]>>
<1> DEFINE s == SubSeq(a, 2, 2)
<1>1. Len(a) \in Nat
  OBVIOUS
<1>2. s \in Seq(Parts) /\ Len(s) = 1 /\ s[1] = a[2]
  BY <1>1
<1> HIDE DEF s
<1>3. s = <<s[1]>>
  BY <1>2
<1>4. QED
  BY <1>2, <1>3 DEF s

TheQuery == IF query THEN <<"query">> ELSE <<>>

LEMMA QueryOfMarked ==
  ASSUME NEW a \in Seq(Parts), Marked(a)
  PROVE  QueryOf(a) = TheQuery
<1>1. Len(a) \in Nat
  OBVIOUS
<1>2. CASE query
  <2>1. Len(a) >= 3 /\ a[1] = "path" /\ a[2] = "query" /\ a[3] = "hash"
    BY <1>2 DEF Marked
  <2>2. 3 \in 1..Len(a) /\ \A k \in 1..(3 - 1) : a[k] # "hash"
    BY <1>1, <2>1
  <2>3. QueryOf(a) = SubSeq(a, 2, 3 - 1)
    BY <2>1, <2>2, QueryOfHash
  <2>4. SubSeq(a, 2, 2) = <<"query">>
    BY <1>1, <2>1, SecondPart
  <2>5. QED
    BY <1>2, <2>3, <2>4 DEF TheQuery
<1>3. CASE ~query
  <2>1. Len(a) >= 2 /\ a[1] = "path" /\ a[2] = "hash"
    BY <1>3 DEF Marked
  <2>2. 2 \in 1..Len(a) /\ \A k \in 1..(2 - 1) : a[k] # "hash"
    BY <1>1, <2>1
  <2>3. QueryOf(a) = SubSeq(a, 2, 2 - 1)
    BY <2>1, <2>2, QueryOfHash
  <2>4. SubSeq(a, 2, 1) = <<>>
    BY <1>1
  <2>5. QED
    BY <1>3, <2>3, <2>4 DEF TheQuery
<1>4. QED
  BY <1>2, <1>3

(* What is added behind an address leaves its beginning alone.             *)
LEMMA StaysMarked ==
  ASSUME NEW a \in Seq(Parts), NEW b \in Seq(Parts), Marked(a)
  PROVE  Marked(a \o b)
<1>1. /\ Len(a \o b) = Len(a) + Len(b) /\ Len(a) \in Nat /\ Len(b) \in Nat
      /\ \A k \in 1..Len(a) : (a \o b)[k] = a[k]
  OBVIOUS
<1>2. QED
  BY <1>1 DEF Marked

(* What a page's own address begins with, and a fragment after it.         *)
LEMMA MarkedBase ==
  /\ query => Marked(<<"path", "query">> \o <<"hash">>)
             /\ Marked(<<"path">> \o <<"query", "hash">>)
  /\ ~query => Marked(<<"path">> \o <<"hash">>)
<1>1. CASE query
  <2>1. LET s == <<"path", "query">> \o <<"hash">>
        IN  Len(s) = 3 /\ s[1] = "path" /\ s[2] = "query" /\ s[3] = "hash"
    OBVIOUS
  <2>2. LET s == <<"path">> \o <<"query", "hash">>
        IN  Len(s) = 3 /\ s[1] = "path" /\ s[2] = "query" /\ s[3] = "hash"
    OBVIOUS
  <2>3. QED
    BY <1>1, <2>1, <2>2 DEF Marked
<1>2. CASE ~query
  <2>1. LET s == <<"path">> \o <<"hash">>
        IN  Len(s) = 2 /\ s[1] = "path" /\ s[2] = "hash"
    OBVIOUS
  <2>2. QED
    BY <1>2, <2>1 DEF Marked
<1>3. QED
  BY <1>1, <1>2

(* The action of a form that is scripted for the first time.               *)
LEMMA FirstPreserved ==
  ASSUME Scripted, page \in Pages, query \in BOOLEAN, hash \in Hashes,
         action = SentAction
  PROVE  /\ hash # "none" => Marked(Preserved)
         /\ hash = "none" => QueryOf(Preserved) = TheQuery
<1>1. /\ "path" \in Parts /\ "query" \in Parts /\ "hash" \in Parts
      /\ <<"path">> \in Seq(Parts) /\ <<"query">> \in Seq(Parts)
      /\ <<"hash">> \in Seq(Parts) /\ <<"path", "query">> \in Seq(Parts)
      /\ <<"query", "hash">> \in Seq(Parts)
  BY DEF Parts
<1>2. /\ <<"path">> \o <<"query">> = <<"path", "query">>
      /\ <<"query">> \o <<"hash">> = <<"query", "hash">>
  BY <1>1, TwoParts
<1>3. \/ action = <<>> \/ action = <<"path">>
  BY DEF SentAction
<1>4. <<"path">> # <<>>
  OBVIOUS
<1>5. /\ <<"path">> \o <<>> = <<"path">>
      /\ <<"path", "query">> \o <<>> = <<"path", "query">>
      /\ <<"query">> \o <<>> = <<"query">>
  OBVIOUS
<1>6. CASE hash # "none"
  <2>1. Fragment = <<"hash">>
    BY <1>6 DEF Fragment
  <2>2. CASE query
    <3>1. CASE action = <<>>
      <4>1. Preserved = (<<"path", "query">> \o <<"hash">>) \o <<"hash">>
        BY <1>2, <2>1, <2>2, <3>1 DEF Preserved, Href
      <4>2. <<"path", "query">> \o <<"hash">> \in Seq(Parts)
        BY <1>1, ConcatProperties
      <4>3. QED
        BY <1>1, <1>6, <2>2, <4>1, <4>2, MarkedBase, StaysMarked
    <3>2. CASE action = <<"path">>
      <4>1. Preserved = (<<"path">> \o <<"query", "hash">>) \o <<"hash">>
        BY <1>2, <1>4, <2>1, <2>2, <3>2 DEF Preserved, FromQuestion
      <4>2. <<"path">> \o <<"query", "hash">> \in Seq(Parts)
        BY <1>1, ConcatProperties
      <4>3. QED
        BY <1>1, <1>6, <2>2, <4>1, <4>2, MarkedBase, StaysMarked
    <3>3. QED
      BY <1>3, <1>6, <3>1, <3>2
  <2>3. CASE ~query
    <3>0. <<"path">> \o <<"hash">> \in Seq(Parts)
      BY <1>1, ConcatProperties
    <3>1. CASE action = <<>>
      <4>1. Preserved = (<<"path">> \o <<"hash">>) \o <<"hash">>
        BY <1>5, <2>1, <2>3, <3>1 DEF Preserved, Href
      <4>2. QED
        BY <1>1, <1>6, <2>3, <3>0, <4>1, MarkedBase, StaysMarked
    <3>2. CASE action = <<"path">>
      <4>1. FromQuestion = <<>>
        BY <2>3 DEF Scripted, FromQuestion
      <4>2. Preserved = <<"path">> \o <<"hash">>
        BY <1>4, <1>5, <2>1, <3>2, <4>1 DEF Preserved
      <4>3. QED
        BY <1>6, <2>3, <4>2, MarkedBase
    <3>3. QED
      BY <1>3, <1>6, <3>1, <3>2
  <2>4. QED
    BY <1>6, <2>2, <2>3
<1>7. CASE hash = "none"
  <2>1. Fragment = <<>>
    BY <1>7 DEF Fragment
  <2>2. CASE query
    <3>3. Preserved = <<"path", "query">>
      <4>1. action = <<>> => Preserved = <<"path", "query">>
        BY <1>2, <1>5, <2>1, <2>2 DEF Preserved, Href
      <4>2. action = <<"path">> => Preserved = <<"path", "query">>
        BY <1>2, <1>4, <1>5, <2>1, <2>2 DEF Preserved, FromQuestion
      <4>3. QED
        BY <1>3, <4>1, <4>2
    <3> DEFINE a == <<"path", "query">>
    <3>4. a \in Seq(Parts) /\ Len(a) = 2 /\ a[1] = "path" /\ a[2] = "query"
      BY <1>1
    <3> HIDE DEF a
    <3>5. \A k \in 1..Len(a) : a[k] # "hash"
      BY <3>4
    <3>6. QueryOf(a) = SubSeq(a, 2, 2)
      BY <3>4, <3>5, QueryOfNone
    <3>7. SubSeq(a, 2, 2) = <<"query">>
      BY <3>4, SecondPart
    <3>8. QED
      BY <1>7, <2>2, <3>3, <3>6, <3>7 DEF TheQuery, a
  <2>3. CASE ~query
    <3>1. FromQuestion = <<>>
      BY <1>7, <2>3 DEF FromQuestion
    <3>2. Preserved = <<"path">>
      <4>1. action = <<>> => Preserved = <<"path">>
        BY <1>5, <2>1, <2>3 DEF Preserved, Href
      <4>2. action = <<"path">> => Preserved = <<"path">>
        BY <1>4, <1>5, <2>1, <3>1 DEF Preserved
      <4>3. QED
        BY <1>3, <4>1, <4>2
    <3> DEFINE a == <<"path">>
    <3>3. a \in Seq(Parts) /\ Len(a) = 1 /\ a[1] = "path"
      BY <1>1
    <3> HIDE DEF a
    <3>4. \A k \in 1..Len(a) : a[k] # "hash"
      BY <3>3
    <3>5. QueryOf(a) = SubSeq(a, 2, 1)
      BY <3>3, <3>4, QueryOfNone
    <3>6. SubSeq(a, 2, 1) = <<>>
      BY <3>3
    <3>7. QED
      BY <1>7, <2>3, <3>2, <3>5, <3>6 DEF TheQuery, a
  <2>4. QED
    BY <2>2, <2>3
<1>8. QED
  BY <1>6, <1>7

(* The action of a form that was scripted before.                          *)
LEMMA AgainPreserved ==
  ASSUME action \in Seq(Parts), Marked(action)
  PROVE  Marked(Preserved)
<1>1. <<"path">> \in Seq(Parts) /\ <<"query">> \in Seq(Parts) /\ <<"hash">> \in Seq(Parts)
      /\ <<"route">> \in Seq(Parts) /\ <<>> \in Seq(Parts)
  BY DEF Parts
<1>2. Fragment \in Seq(Parts)
  BY <1>1 DEF Fragment
<1>3. FromQuestion \in Seq(Parts)
  BY <1>1, <1>2, ConcatProperties DEF FromQuestion
<1>4. action # <<>>
  BY DEF Marked
<1>5. Preserved = (action \o FromQuestion) \o Fragment
  BY <1>4 DEF Preserved
<1>6. action \o FromQuestion \in Seq(Parts)
  BY <1>3, ConcatProperties
<1>7. QED
  BY <1>2, <1>3, <1>5, <1>6, StaysMarked

(* The address does not change.                                            *)
LEMMA SameAddress == [FormNext]_formVars => UNCHANGED location
<1> SUFFICES ASSUME [FormNext]_formVars PROVE UNCHANGED location
  OBVIOUS
<1>1. FormNext => UNCHANGED location
  BY DEF FormNext, OwnReady, CasReady, Load, Type, Close, Submit, AnswerArrives,
         Stop, Back, Reload
<1>2. UNCHANGED formVars => UNCHANGED location
  BY DEF formVars
<1>3. QED
  BY <1>1, <1>2

(* A step that leaves the submissions and the action alone.                *)
LEMMA QueryUntouched ==
  ASSUME QueryInv, History', UNCHANGED <<location, action, sent>>
  PROVE  QueryInv'
<1>1. UNCHANGED <<page, query, hash, action, sent>>
  BY DEF location
<1>2. QueryKept'
  <2>1. QueryKept
    BY DEF QueryInv
  <2>2. \A a : QueryOf(a)' = QueryOf(a)
    BY Zenon DEF QueryOf, IsHash, SelectInSeq, Min
  <2>3. QED
    BY <1>1, <2>1, <2>2 DEF QueryKept
<1>3. (Marked(action))' <=> Marked(action)
  BY <1>1 DEF Marked
<1>4. QED
  BY <1>1, <1>2, <1>3 DEF QueryInv, Scripted, Untouched, SentAction

(* A submission.                                                           *)
LEMMA QuerySubmit ==
  ASSUME QueryInv, History', Submit
  PROVE  QueryInv'
<1> DEFINE n == Len(sent)
<1>1. /\ History /\ page \in Pages /\ query \in BOOLEAN /\ hash \in Hashes
      /\ Scripted => /\ Untouched => action = SentAction
                     /\ hash # "none" => action = SentAction \/ Marked(action)
      /\ QueryKept
  BY DEF QueryInv
<1>2. UNCHANGED <<page, query, hash, ready>>
  BY DEF Submit, location
<1>3. action \in Seq(Parts)
  BY <1>1 DEF History
<1>4. /\ Added.to = action' /\ Added.ready = ready
      /\ ready \in 0..2
  BY <1>1 DEF Added, History
<1>5. /\ n \in Nat /\ DOMAIN sent = 1..n /\ DOMAIN sent' = 1..(n + 1) /\ Len(sent') = n + 1
      /\ sent'[n + 1] = Added
      /\ \A i \in 1..n : sent'[i] = sent[i]
      /\ \A i \in 1..(n + 1) : i \in 1..n \/ i = n + 1
  BY <1>1, Submitted
<1> HIDE DEF n
<1>6. Scripted' <=> Scripted
  BY <1>2 DEF Scripted
<1>7. \A a : QueryOf(a)' = QueryOf(a) /\ (Marked(a)' <=> Marked(a))
  <2>1. \A a : QueryOf(a)' = QueryOf(a)
    BY Zenon DEF QueryOf, IsHash, SelectInSeq, Min
  <2>2. \A a : Marked(a)' <=> Marked(a)
    BY <1>2 DEF Marked
  <2>3. QED
    BY <2>1, <2>2, Zenon
<1>8. SentAction' = SentAction
  BY <1>2 DEF SentAction
<1>9. Untouched' => Untouched /\ ready < 2
  <2>1. Len(sent) = n
    BY DEF n
  <2>2. ASSUME Untouched' PROVE Untouched /\ ready < 2
    <3>1. \A i \in 1..(n + 1) : sent'[i].ready < 2
      BY <1>5, <2>2 DEF Untouched
    <3>2. (n + 1) \in 1..(n + 1) /\ \A i \in 1..n : i \in 1..(n + 1)
      BY <1>5
    <3>3. \A i \in 1..n : sent[i].ready < 2
      BY <1>5, <3>1, <3>2
    <3>4. ready < 2
      BY <1>4, <1>5, <3>1, <3>2
    <3>5. QED
      BY <2>1, <3>3, <3>4 DEF Untouched
  <2>3. QED
    BY <2>2
<1>10. Scripted /\ ready # 2 => action' = action
  BY DEF Submit
<1>11. Scripted /\ ready = 2 => action' = Preserved
  BY DEF Submit, Scripted, Throws
<1>12. ASSUME Scripted, hash # "none" PROVE (action = SentAction \/ Marked(action)) /\
               (action' = SentAction \/ Marked(action')) /\ (ready = 2 => Marked(action'))
  <2>1. action = SentAction \/ Marked(action)
    BY <1>1, <1>12
  <2>2. Marked(Preserved)
    BY <1>1, <1>3, <1>12, <2>1, FirstPreserved, AgainPreserved
  <2>3. QED
    BY <1>4, <1>10, <1>11, <1>12, <2>1, <2>2
<1>13. (Scripted => /\ Untouched => action = SentAction
                    /\ hash # "none" => action = SentAction \/ Marked(action))'
  <2> SUFFICES ASSUME Scripted
               PROVE  /\ Untouched' => action' = SentAction
                      /\ hash # "none" => action' = SentAction \/ Marked(action')
    BY <1>2, <1>6, <1>7, <1>8
  <2>1. Untouched' => action' = SentAction
    BY <1>1, <1>4, <1>9, <1>10
  <2>2. QED
    BY <1>12, <2>1
<1>14. ASSUME Scripted, ready = 2, hash # "none" \/ Untouched
       PROVE  QueryOf(action') = TheQuery
  <2>1. CASE hash # "none"
    <3>1. Marked(action')
      BY <1>12, <1>14, <2>1
    <3>2. action' \in Seq(Parts)
      BY DEF History
    <3>3. QED
      BY <3>1, <3>2, QueryOfMarked
  <2>2. CASE hash = "none"
    <3>1. action = SentAction
      BY <1>1, <1>14, <2>2
    <3>2. QED
      BY <1>1, <1>11, <1>14, <2>2, <3>1, FirstPreserved
  <2>3. QED
    BY <2>1, <2>2
<1>15. QueryKept'
  <2> SUFFICES ASSUME NEW i \in 1..(n + 1), Scripted, sent'[i].ready = 2,
                      hash # "none" \/ \A j \in 1..(i - 1) : sent'[j].ready < 2
               PROVE  QueryOf(sent'[i].to) = TheQuery
    BY <1>2, <1>5, <1>7 DEF QueryKept, Scripted, TheQuery
  <2>1. CASE i \in 1..n
    <3>1. \A j \in 1..(i - 1) : j \in 1..n
      BY <1>5, <2>1
    <3>2. hash # "none" \/ \A j \in 1..(i - 1) : sent[j].ready < 2
      BY <1>5, <3>1
    <3>3. QED
      BY <1>1, <1>5, <2>1, <3>2 DEF QueryKept, Scripted, TheQuery
  <2>2. CASE i = n + 1
    <3>1. sent'[i] = Added
      BY <1>5, <2>2
    <3>2. ready = 2 /\ sent'[i].to = action'
      BY <1>4, <3>1
    <3>3. i - 1 = n
      BY <1>5, <2>2
    <3>4. hash # "none" \/ Untouched
      BY <1>5, <3>3 DEF Untouched, n
    <3>5. QED
      BY <1>14, <3>2, <3>4
  <2>3. QED
    BY <1>5, <2>1, <2>2
<1>16. QED
  BY <1>1, <1>2, <1>13, <1>15 DEF QueryInv

LEMMA QueryStep == QueryInv /\ [FormNext]_formVars => QueryInv'
<1> SUFFICES ASSUME QueryInv, [FormNext]_formVars PROVE QueryInv'
  OBVIOUS
<1>1. History' /\ UNCHANGED location
  BY HistoryStep, SameAddress DEF QueryInv
<1>2. CASE UNCHANGED <<action, sent>>
  BY <1>1, <1>2, QueryUntouched
<1>3. CASE Submit
  BY <1>1, <1>3, QuerySubmit
<1>4. CASE Reload
  <2>1. UNCHANGED <<page, query, hash>>
    BY <1>1 DEF location
  <2>2. action' = SentAction /\ sent' = <<>>
    BY <1>4 DEF Reload
  <2>3. SentAction' = SentAction
    BY <2>1 DEF SentAction
  <2>4. QueryKept'
    BY <2>2 DEF QueryKept
  <2>5. QED
    BY <1>1, <2>1, <2>2, <2>3, <2>4 DEF QueryInv
<1>5. FormNext => Submit \/ Reload \/ UNCHANGED <<action, sent>>
  BY DEF FormNext, OwnReady, CasReady, Load, Type, Close, AnswerArrives, Stop, Back
<1>6. UNCHANGED formVars => UNCHANGED <<action, sent>>
  BY DEF formVars
<1>7. QED
  BY <1>2, <1>3, <1>4, <1>5, <1>6

(* A form that is scripted goes out with the query of its page: at each    *)
(* submission if the page has a fragment, at the first if it has none      *)
(* (preserveAnchorTagOnForm).                                              *)
THEOREM QueryIsKept == FormSpec => []QueryKept
<1>1. FormInit => QueryInv
  <2> SUFFICES ASSUME FormInit PROVE QueryInv
    OBVIOUS
  <2>1. sent = <<>> /\ action = SentAction
    BY DEF FormInit
  <2>2. QueryKept
    BY <2>1 DEF QueryKept
  <2>3. page \in Pages /\ query \in BOOLEAN /\ hash \in Hashes
    BY DEF FormInit
  <2>4. QED
    BY <2>1, <2>2, <2>3, InitHistory DEF QueryInv
<1>2. QueryInv => QueryKept
  BY DEF QueryInv
<1>3. QED
  BY <1>1, <1>2, QueryStep, PTL DEF FormSpec
=============================================================================
