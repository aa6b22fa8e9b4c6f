---------------------------- MODULE LoginVerdict ----------------------------
(***************************************************************************)
(* What a login of this server promises: the credential of an attempt is   *)
(* judged against the accounts of one instant between its submission and   *)
(* its verdict.  Nothing is said here of handlers, their order, encoders   *)
(* or exceptions: Login implements this module.                            *)
(***************************************************************************)
CONSTANTS
  Attempts,         \* the browsers that log in, one attempt at a time
  AccountTables,    \* the contents the account table may have
  Credentials,      \* what may be submitted
  EmptyForm,        \* the credential of a form nobody has filled in
  Nobody,           \* the principal of an attempt that has none
  Judge(_, _)       \* the principal that accounts and credential determine

VARIABLES
  accounts,         \* the account table
  submitted,        \* submitted[a]: the credential under judgement
  phase,            \* phase[a] \in {"form", "submitted", "judged"}
  principal         \* principal[a]: who the verdict says it is

loginVars == <<accounts, submitted, phase, principal>>

Init ==
  /\ accounts \in AccountTables
  /\ submitted = [a \in Attempts |-> EmptyForm]
  /\ phase = [a \in Attempts |-> "form"]
  /\ principal = [a \in Attempts |-> Nobody]

(* Somebody fills in the form, for the first time or after a refusal.      *)
Submit(a) ==
  /\ phase[a] # "submitted" /\ principal[a] = Nobody
  /\ \E c \in Credentials : submitted' = [submitted EXCEPT ![a] = c]
  /\ phase' = [phase EXCEPT ![a] = "submitted"]
  /\ UNCHANGED <<accounts, principal>>

(* The verdict, on the accounts as they are.  When they cannot be read the *)
(* table counts as empty.                                                  *)
Decide(a) ==
  /\ phase[a] = "submitted"
  /\ \E p \in {Judge(accounts, submitted[a]), Judge({}, submitted[a])} :
       principal' = [principal EXCEPT ![a] = p]
  /\ phase' = [phase EXCEPT ![a] = "judged"]
  /\ UNCHANGED <<accounts, submitted>>

(* Whoever maintains the accounts changes them.                            *)
ChangeAccounts ==
  /\ accounts' \in AccountTables
  /\ UNCHANGED <<submitted, phase, principal>>

Next == ChangeAccounts \/ \E a \in Attempts : Submit(a) \/ Decide(a)

Spec == Init /\ [][Next]_loginVars
=============================================================================
