------------------------------ MODULE U2fCalls ------------------------------
(***************************************************************************)
(* What u2f-api.js promises to a page: each call of u2f.sign, u2f.register *)
(* or u2f.getApiVersion is made once, and its callback runs at most once,  *)
(* with the answer to that very call.  Nothing is said here of ports,      *)
(* request numbers or version negotiation: U2fApi implements this module.  *)
(***************************************************************************)
CONSTANTS
  Calls,          \* the calls the page makes
  AnswersTo(_)    \* the answers that may reach the callback of a call

VARIABLES
  phase,          \* phase[c] \in {"new", "pending", "answered"}
  answer          \* answer[c]: the answers the callback of c was given

callVars == <<phase, answer>>

Init ==
  /\ phase = [c \in Calls |-> "new"]
  /\ answer = [c \in Calls |-> <<>>]

(* The page calls the library.                                             *)
Call(c) ==
  /\ phase[c] = "new"
  /\ phase' = [phase EXCEPT ![c] = "pending"]
  /\ UNCHANGED answer

(* The callback of a pending call runs.                                    *)
Answer(c) ==
  /\ phase[c] = "pending"
  /\ phase' = [phase EXCEPT ![c] = "answered"]
  /\ \E a \in AnswersTo(c) : answer' = [answer EXCEPT ![c] = <<a>>]

(* A library that knows its port and needs no round trip answers before    *)
(* the call returns.                                                       *)
CallAndAnswer(c) ==
  /\ phase[c] = "new"
  /\ phase' = [phase EXCEPT ![c] = "answered"]
  /\ \E a \in AnswersTo(c) : answer' = [answer EXCEPT ![c] = <<a>>]

Next == \E c \in Calls : Call(c) \/ Answer(c) \/ CallAndAnswer(c)

Spec == Init /\ [][Next]_callVars
=============================================================================
