---------------------------- MODULE PropagateLogout ----------------------------
(***************************************************************************)
(* casPropagateLogoutView.html: the page that tells the services of a      *)
(* session that the user has logged out, one JSONP request for each, and   *)
(* shows by an icon what came of it.                                       *)
(*                                                                         *)
(* The page is parsed while it runs: the script of an entry sends the      *)
(* request, the icon of the entry follows it in the text.  The browser may *)
(* pause the parser anywhere, and run what has arrived.                    *)
(***************************************************************************)
EXTENDS Integers

CONSTANT Count    \* the number of entries of logoutUrls

ASSUME LogoutAssumption == Count \in Nat

\* iterStat.index
Entries == 0..(Count - 1)

VARIABLES
  scripts,      \* how many of the entries' scripts have run
  icons,        \* how many of the entries' icons are in the document
  request,      \* of each entry: what became of its request
  icon,         \* of each entry: the class of its icon
  missed        \* the entries whose answer came before their icon

logoutVars == <<scripts, icons, request, icon, missed>>

\* What a service does with its request: a script that calls the callback, one
\* that does not or is no script at all, an error of the server or the network.
Outcomes == {"called", "notCalled", "failed"}

LogoutInit ==
  /\ scripts = 0 /\ icons = 0
  /\ request = [i \in Entries |-> "none"]
  /\ icon = [i \in Entries |-> "absent"]
  /\ missed = {}

\* A script of an entry runs.
ParseScript ==
  /\ scripts < Count /\ icons = scripts
  /\ scripts' = scripts + 1
  /\ request' = [request EXCEPT ![scripts] = "sent"]
  /\ UNCHANGED <<icons, icon, missed>>

\* Whether a request holds up the parser: none does, they are asynchronous.
\* Slip: it does until it is answered.
HoldsUntilAnswer(i) == request[i] = "sent"
Holds(i) == FALSE

ParseIcon ==
  /\ icons < scripts /\ ~Holds(icons)
  /\ icons' = icons + 1
  /\ icon' = [icon EXCEPT ![icons] = "pending"]
  /\ UNCHANGED <<scripts, request, missed>>

\* The status jQuery hands on: the script was loaded, whether or not it called
\* the callback, which is a parsererror with the status of the load.
\* Slip: only success counts as 200.
StatusStrict(outcome) == IF outcome = "called" THEN 200 ELSE 404
Status(outcome) == IF outcome = "failed" THEN 404 ELSE 200

\* handleCallback: nothing happens to an icon that is not there.
HandleCallback(i, status) ==
  icon' = [j \in Entries |->
             IF j = i /\ icon[j] # "absent"
             THEN IF status = 200 THEN "received" ELSE "notSent"
             ELSE icon[j]]

ServiceAnswers(i, outcome) ==
  /\ request[i] = "sent"
  /\ request' = [request EXCEPT ![i] = outcome]
  /\ HandleCallback(i, Status(outcome))
  /\ missed' = IF icon[i] = "absent" THEN missed \cup {i} ELSE missed
  /\ UNCHANGED <<scripts, icons>>

\* The page is there and all requests are answered.
AllAnswered ==
  /\ icons = Count /\ \A i \in Entries : request[i] \in Outcomes
  /\ UNCHANGED logoutVars

LogoutNext ==
  \/ ParseScript \/ ParseIcon \/ AllAnswered
  \/ \E i \in Entries, o \in Outcomes : ServiceAnswers(i, o)

\* The browser parses the page to its end; no service has to answer.
LogoutSpec == LogoutInit /\ [][LogoutNext]_logoutVars /\ WF_logoutVars(ParseScript \/ ParseIcon)

(***************************************************************************)
(* Properties.                                                             *)
(***************************************************************************)
\* The types of the variables; what was missed is never told.
LogoutTypeOK ==
  /\ scripts \in 0..Count /\ icons \in 0..scripts /\ scripts - icons \in 0..1
  /\ request \in [Entries -> {"none", "sent"} \cup Outcomes]
  /\ icon \in [Entries -> {"absent", "pending", "received", "notSent"}]
  /\ \A i \in Entries : icon[i] = "absent" <=> i >= icons
  /\ \A i \in missed : request[i] \in Outcomes /\ icon[i] \in {"absent", "pending"}

\* An icon tells what became of the request of its own service, in whatever
\* order the answers come and whatever is parsed meanwhile: a service that
\* answers without the callback has received the notification, and an icon
\* stays pending only while there is no answer, or if that came before the
\* icon (the closures of the entries, handleCallback).
IconTellsOutcome ==
  \A i \in Entries :
    /\ icon[i] = "received" => request[i] \in {"called", "notCalled"}
    /\ icon[i] = "notSent" => request[i] = "failed"
    /\ icon[i] = "pending" => request[i] = "sent" \/ i \in missed

\* Every service is notified and listed in the end, even if one of them, or
\* all, never answer (the asynchronous requests).
AllNotified == <>(icons = Count /\ \A i \in Entries : request[i] # "none")
================================================================================
