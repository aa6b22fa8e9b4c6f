------------------------------ MODULE LoginWebflow ------------------------------
(***************************************************************************)
(* The login flow as CustomWebflowConfigurer builds it, and what the flow  *)
(* makes of a submitted form.                                              *)
(*                                                                         *)
(* The configurer is initialised when its bean is made, and again by the   *)
(* execution plan, where this repository and CAS both register it.  Every  *)
(* initialisation works on the same flow: CAS's helpers keep a variable    *)
(* and a state that are there, and add render actions and transitions.     *)
(***************************************************************************)
EXTENDS Naturals, Sequences, SequencesExt

CONSTANTS
  CustomFields,   \* cas.view.custom-login-form-fields
  Required,       \* those of them that are required
  Times           \* how often the configurer is initialised

ASSUME WebflowAssumption ==
  /\ Times \in Nat \ {0} /\ Required \subseteq CustomFields
  /\ CustomFields \cap {"username", "password", "source", "email", "telephone",
                        "rememberMe", "other"} = {}

VARIABLES
  rememberMe,     \* cas.ticket.tgt.remember-me.enabled
  done,           \* how often the configurer was initialised
  variable,       \* the class of the flow variable "credential"
  view,           \* the view state: its bindings, the class its model expects
                  \* and its render actions
  transitions,    \* its transitions on "submit"
  posted,         \* the last form: of each field "absent", "empty" or "text"
  errors,         \* the fields that were refused
  credential      \* the fields bound to the credential, and their values

flow == <<variable, view, transitions>>
flowVars == <<rememberMe, done, flow, posted, errors, credential>>

Undefined == "undefined"
NoView == [bindings |-> {}, model |-> Undefined, renders |-> 0]
Fields == CustomFields \cup {"username", "password", "source", "email",
                             "telephone", "rememberMe", "other"}

FlowInit ==
  /\ rememberMe \in BOOLEAN /\ done = 0
  /\ variable = Undefined /\ view = NoView /\ transitions = <<>>
  /\ posted = [f \in Fields |-> "absent"]
  /\ errors = {} /\ credential = [f \in Fields |-> "absent"]

\* createStateBinderConfiguration: all properties are required.
Binder(properties) ==
  [field : properties \cup {"email", "telephone"}, required : {TRUE}]

\* createLoginFormView: the bindings of a view that is made now, or was before.
FormBindings ==
  IF view # NoView THEN view.bindings
  ELSE Binder({"username", "password", "source"})
         \cup {[field |-> f, required |-> f \in Required] : f \in CustomFields}

\* createRememberMeAuthnWebflowConfig.
\* Slip: its field is added like the others.
BindingsOfBinder ==
  FormBindings \cup (IF rememberMe THEN Binder({"rememberMe"}) ELSE {})
Bindings ==
  FormBindings \cup
  (IF rememberMe THEN {[field |-> "rememberMe", required |-> FALSE]} ELSE {})

\* The class of the variable is the one that is asked for first, which is
\* createRememberMeAuthnWebflowConfig's; doInitialize's own comes after it.
ClassAskedFirst ==
  IF rememberMe THEN "RememberMeUsernamePasswordCredential" ELSE "CustomCredential"

SubmitTransition == [bind |-> TRUE, validate |-> TRUE, history |-> "invalidate"]

\* doInitialize.
Initialise ==
  /\ done < Times
  /\ done' = done + 1
  /\ variable' = IF variable = Undefined THEN ClassAskedFirst ELSE variable
  /\ view' = [bindings |-> Bindings, model |-> "CustomCredential",
              renders |-> view.renders + 1]
  /\ transitions' = Append(transitions, SubmitTransition)
  /\ UNCHANGED <<rememberMe, posted, errors, credential>>

\* The flow starts: a new credential; the view is rendered.
StartFlow ==
  /\ done = Times
  /\ posted' = [f \in Fields |-> "absent"] /\ errors' = {}
  /\ credential' = [f \in Fields |-> "absent"]
  /\ UNCHANGED <<rememberMe, done, flow>>

\* A form comes in: of the bindings, those the form has a field for are bound,
\* and a required one that is empty is refused.  Fields without a binding are
\* not looked at.
Bound(form) == {b.field : b \in {c \in view.bindings : form[c.field] # "absent"}}
Refused(form) ==
  {b.field : b \in {c \in view.bindings : c.required /\ form[c.field] = "empty"}}

PostForm ==
  /\ done = Times /\ \A f \in Fields : posted[f] = "absent"
  /\ Head(transitions).bind
  /\ \E form \in [Fields -> {"absent", "empty", "text"}] :
       /\ posted' = form
       /\ errors' = Refused(form)
       /\ credential' = [f \in Fields |-> IF f \in Bound(form) \ Refused(form)
                                          THEN form[f] ELSE credential[f]]
  /\ UNCHANGED <<rememberMe, done, flow>>

FlowNext == Initialise \/ StartFlow \/ PostForm

FlowSpec == FlowInit /\ [][FlowNext]_flowVars

(***************************************************************************)
(* Properties.                                                             *)
(***************************************************************************)
\* The types of the variables; a view has at most one binding of a field.
FlowTypeOK ==
  /\ rememberMe \in BOOLEAN /\ done \in 0..Times
  /\ view.renders = done /\ Len(transitions) = done
  /\ \A b, c \in view.bindings : b.field = c.field => b = c
  /\ errors \subseteq Fields
  /\ credential \in [Fields -> {"absent", "empty", "text"}]
  /\ {"email", "telephone"} \subseteq {b.field : b \in view.bindings} \/ done = 0

\* However often the flow was initialised, a form hands exactly the fields of
\* the custom login form to the credential, and one of them that is there but
\* empty is refused; no other field gets to the credential, remember-me only if
\* it is enabled.  Without remember-me, the class the data is put into is the
\* one the view expects and the handler of this repository supports, although
\* it is asked for after CAS's methods have run (createStateBinderConfiguration,
\* createLoginFormView, doInitialize).
HandsOverTheForm ==
  LET required == Required \cup {"username", "password", "source", "email", "telephone"}
      wanted == CustomFields \cup required
                   \cup (IF rememberMe THEN {"rememberMe"} ELSE {})
  IN  /\ errors = {f \in required : posted[f] = "empty"}
      /\ \A f \in Fields :
           credential[f] = IF f \in wanted /\ f \notin errors THEN posted[f] ELSE "absent"
      /\ done > 0 /\ ~rememberMe => variable = "CustomCredential" /\ variable = view.model
================================================================================
