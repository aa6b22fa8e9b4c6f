------------------------------ MODULE MCServer ------------------------------
(***************************************************************************)
(* The parts of the server that this repository adds to CAS, for TLC: how  *)
(* its beans are assembled, the login flow they build, the handler the     *)
(* flow ends in, and the ticket ids.  Each behaviour is that of one part,  *)
(* chosen at the start, while the others rest in an initial state.         *)
(***************************************************************************)
EXTENDS MCLogin, BeanAssembly, LoginWebflow, TicketIds

VARIABLE part

\* The resting states.
LoginRests  == table = {} /\ Init
BeansRest   == overriding = TRUE /\ BeanInit
FlowRests   == rememberMe = FALSE /\ FlowInit
TicketsRest == TicketInit

ServerInit ==
  \/ part = "login"   /\ Init       /\ BeansRest /\ FlowRests /\ TicketsRest
  \/ part = "beans"   /\ LoginRests /\ BeanInit  /\ FlowRests /\ TicketsRest
  \/ part = "flow"    /\ LoginRests /\ BeansRest /\ FlowInit  /\ TicketsRest
  \/ part = "tickets" /\ LoginRests /\ BeansRest /\ FlowRests /\ TicketInit

ServerNext ==
  /\ UNCHANGED part
  /\ \/ part = "login" /\ Next /\ UNCHANGED <<beanVars, flowVars, ticketVars>>
     \/ part = "beans" /\ BeanNext /\ UNCHANGED <<vars, flowVars, ticketVars>>
     \/ part = "flow" /\ FlowNext /\ UNCHANGED <<vars, beanVars, ticketVars>>
     \/ part = "tickets" /\ TicketNext /\ UNCHANGED <<vars, beanVars, flowVars>>

ServerSpec ==
  ServerInit /\ [][ServerNext]_<<part, vars, beanVars, flowVars, ticketVars>>

\* The type invariants of the parts.
ServerTypeOK == TypeOK /\ BeanTypeOK /\ FlowTypeOK /\ TicketTypeOK
=============================================================================
