---------------------------- MODULE Server_proofs ----------------------------
(***************************************************************************)
(* Proofs about the parts of the server that MCServer puts side by side:   *)
(* which beans the context ends up with, what the login flow hands to the  *)
(* credential, and the suffixes of ticket ids.  The login is proved in     *)
(* Login_proofs; that all parts keep their types follows at the end.       *)
(***************************************************************************)
EXTENDS MCServer, Login_proofs, SequenceTheorems

(***************************************************************************)
(* The assembly of the beans.                                              *)
(***************************************************************************)
\* The configurations of this repository whose beans no other configuration
\* takes again once they are loaded.
Prevailing == {Tickets, ServiceIds, Webflow, Authn}

\* Every bean of a loaded configuration is there, and those of a prevailing
\* one are its own; service ticket identifiers are CAS's before.
BeanInv ==
  /\ BeanTypeOK
  /\ owner \in [AllBeans -> Configs \cup {NoOwner}]
  /\ failed => ~overriding
  /\ ~failed =>
       /\ \A c \in loaded : \A b \in Beans(c) : owner[b] # NoOwner
       /\ \A c \in loaded \cap Prevailing : \A b \in Beans(c) : owner[b] = c
       /\ ServiceIds \in loaded => overriding

\* All the configurations, one by one.
LEMMA ConfigNames ==
  /\ \A c \in Configs :
       c \in {Tickets, ServiceIds, Webflow, Logout, Authn,
              CasTickets, CasServiceIds, CasWebflow, CasLogout, CasAuthn}
  /\ NoOwner \notin Configs
  /\ Prevailing \subseteq OwnConfigs /\ OwnConfigs \subseteq Configs
  /\ CasServiceIds \in Configs /\ CasConfigs \subseteq Configs
BY DEF Configs, OwnConfigs, CasConfigs, Tickets, ServiceIds, Webflow, Logout, Authn,
       CasTickets, CasServiceIds, CasWebflow, CasLogout, CasAuthn, NoOwner, Prevailing

\* What each configuration defines.
LEMMA BeansOf ==
  /\ Beans(Tickets) = TicketBeans /\ Beans(CasTickets) = TicketBeans
  /\ Beans(ServiceIds) = ServiceIdBeans /\ Beans(CasServiceIds) = ServiceIdBeans
  /\ Beans(Webflow) = WebflowBeans /\ Beans(CasWebflow) = WebflowBeans
  /\ Beans(Logout) = LogoutBeans /\ Beans(CasLogout) = LogoutBeans
  /\ Beans(Authn) = AuthnBeans /\ Beans(CasAuthn) = {}
BY DEF Beans, Tickets, ServiceIds, Webflow, Logout, Authn,
       CasTickets, CasServiceIds, CasWebflow, CasLogout, CasAuthn

\* No bean is of two of these kinds, and there is one of service ids.
LEMMA BeanNames ==
  /\ TicketBeans \cap (ServiceIdBeans \cup WebflowBeans \cup LogoutBeans \cup AuthnBeans) = {}
  /\ ServiceIdBeans \cap (WebflowBeans \cup LogoutBeans \cup AuthnBeans) = {}
  /\ WebflowBeans \cap (LogoutBeans \cup AuthnBeans) = {}
  /\ LogoutBeans \cap AuthnBeans = {}
  /\ ServiceIdBeans # {}
BY DEF TicketBeans, ServiceIdBeans, WebflowBeans, LogoutBeans, AuthnBeans

LEMMA AllBeansAre ==
  /\ AllBeans = TicketBeans \cup ServiceIdBeans \cup WebflowBeans \cup LogoutBeans
                  \cup AuthnBeans
  /\ \A c \in Configs : Beans(c) \subseteq AllBeans
<1>1. \A c \in Configs : Beans(c) \subseteq AllBeans
  BY DEF AllBeans
<1>2. \A c \in Configs :
        Beans(c) \subseteq TicketBeans \cup ServiceIdBeans \cup WebflowBeans
                             \cup LogoutBeans \cup AuthnBeans
  BY ConfigNames, BeansOf
<1>3. {Tickets, ServiceIds, Webflow, Logout, Authn} \subseteq Configs
  BY DEF Configs, OwnConfigs
<1>4. TicketBeans \cup ServiceIdBeans \cup WebflowBeans \cup LogoutBeans \cup AuthnBeans
        \subseteq AllBeans
  BY <1>1, <1>3, BeansOf
<1>5. AllBeans \subseteq TicketBeans \cup ServiceIdBeans \cup WebflowBeans
                           \cup LogoutBeans \cup AuthnBeans
  BY <1>2 DEF AllBeans
<1>6. QED
  BY <1>1, <1>4, <1>5

\* Who else defines a bean of a prevailing configuration is CAS: with a
\* condition, or it has to be loaded before.
LEMMA Rivals ==
  ASSUME NEW c \in Prevailing, NEW d \in Configs, d # c, NEW b \in Beans(c) \cap Beans(d)
  PROVE  Conditional(d) \/ (c = ServiceIds /\ d = CasServiceIds)
<1>1. /\ c = Tickets => d = CasTickets
      /\ c = ServiceIds => d = CasServiceIds
      /\ c = Webflow => d = CasWebflow
      /\ c # Authn
  BY ConfigNames, BeansOf, BeanNames DEF Prevailing
<1>2. QED
  BY <1>1 DEF Prevailing, Conditional

LEMMA BeanInitInv == BeanInit => BeanInv
<1>1. SUFFICES ASSUME BeanInit PROVE BeanInv
  OBVIOUS
<1>2. owner \in [AllBeans -> Configs \cup {NoOwner}] /\ \A b \in AllBeans : owner[b] = NoOwner
  BY <1>1 DEF BeanInit
<1>3. QED
  BY <1>1, <1>2 DEF BeanInit, BeanInv, BeanTypeOK

LEMMA LoadKeeps ==
  ASSUME BeanInv, NEW c \in Configs, LoadConfiguration(c)
  PROVE  BeanInv'
<1>1. /\ ~failed /\ c \notin loaded /\ loaded \subseteq Configs
      /\ \A p \in Order : p[2] = c => p[1] \in loaded
      /\ failed' \in BOOLEAN
      /\ failed' <=> (~overriding /\ Registers(c) \cap Taken # {})
      /\ loaded' = loaded \cup {c} /\ loaded' \subseteq Configs
      /\ overriding' = overriding /\ overriding \in BOOLEAN
      /\ owner' = [b \in AllBeans |-> IF b \in Registers(c) /\ ~failed' THEN c ELSE owner[b]]
  BY DEF BeanInv, BeanTypeOK, LoadConfiguration
<1>2. /\ owner \in [AllBeans -> Configs \cup {NoOwner}]
      /\ \A b \in AllBeans : owner[b] # NoOwner => b \in Beans(owner[b]) /\ owner[b] \in loaded
      /\ \A d \in loaded : \A b \in Beans(d) : owner[b] # NoOwner
      /\ \A d \in loaded \cap Prevailing : \A b \in Beans(d) : owner[b] = d
      /\ ServiceIds \in loaded => CasServiceIds \in loaded /\ overriding
  BY <1>1 DEF BeanInv, BeanTypeOK
<1>3. /\ Registers(c) \subseteq Beans(c) /\ Beans(c) \subseteq AllBeans
      /\ Beans(c) \subseteq Registers(c) \cup Taken
      /\ Conditional(c) => Registers(c) \cap Taken = {}
  BY AllBeansAre DEF Registers
<1>4. \A b \in AllBeans : owner'[b] = IF b \in Registers(c) /\ ~failed' THEN c ELSE owner[b]
  BY <1>1
<1>5. owner' \in [AllBeans -> Configs \cup {NoOwner}]
  BY <1>1, <1>2
<1>6. \A b \in AllBeans : owner'[b] # NoOwner => b \in Beans(owner'[b]) /\ owner'[b] \in loaded'
  BY <1>1, <1>2, <1>3, <1>4
<1>7. c = ServiceIds => CasServiceIds \in loaded
  <2>1. <<CasServiceIds, ServiceIds>> \in Order
    BY DEF Order
  <2>2. QED
    BY <1>1, <2>1
<1>8. BeanTypeOK'
  BY <1>1, <1>2, <1>6, <1>7 DEF BeanTypeOK
<1>9. failed' => ~overriding'
  BY <1>1
<1>10. ASSUME ~failed'
       PROVE  /\ \A d \in loaded' : \A b \in Beans(d) : owner'[b] # NoOwner
              /\ \A d \in loaded' \cap Prevailing : \A b \in Beans(d) : owner'[b] = d
              /\ ServiceIds \in loaded' => overriding'
  <2>1. \A d \in loaded' : \A b \in Beans(d) : owner'[b] # NoOwner
    <3>1. ASSUME NEW d \in loaded', NEW b \in Beans(d)
          PROVE  owner'[b] # NoOwner
      <4>1. b \in AllBeans /\ c # NoOwner
        BY <1>1, <3>1, AllBeansAre, ConfigNames
      <4>2. CASE d = c
        <5>1. b \in Registers(c) \/ owner[b] # NoOwner
          BY <1>3, <4>2 DEF Taken
        <5>2. QED
          BY <1>4, <1>10, <4>1, <5>1
      <4>3. CASE d \in loaded
        BY <1>2, <1>4, <1>10, <4>1, <4>3
      <4>4. QED
        BY <1>1, <4>2, <4>3
    <3>2. QED
      BY <3>1
  <2>2. ASSUME NEW d \in loaded' \cap Prevailing, NEW b \in Beans(d)
        PROVE  owner'[b] = d
    <3>1. b \in AllBeans /\ d \in Configs
      BY <1>1, <2>2, AllBeansAre
    <3>2. CASE d = c
      <4>1. ~Conditional(c)
        BY <2>2, <3>2 DEF Prevailing, Conditional, Tickets, ServiceIds, Webflow, Authn,
                          CasTickets, CasWebflow
      <4>2. b \in Registers(c)
        BY <3>2, <4>1 DEF Registers
      <4>3. QED
        BY <1>4, <1>10, <3>1, <3>2, <4>2
    <3>3. CASE d \in loaded /\ d # c
      <4>1. owner[b] = d
        BY <1>2, <2>2, <3>3
      <4>2. b \notin Registers(c)
        <5>1. SUFFICES ASSUME b \in Registers(c) PROVE FALSE
          OBVIOUS
        <5>2. b \in Beans(d) \cap Beans(c)
          BY <1>3, <5>1
        <5>3. b \in Taken
          BY <3>1, <3>3, <4>1, ConfigNames DEF Taken
        <5>4. ~Conditional(c)
          BY <1>3, <5>1, <5>3
        <5>5. d = ServiceIds /\ c = CasServiceIds
          BY <2>2, <3>3, <5>2, <5>4, Rivals
        <5>6. QED
          BY <1>1, <1>2, <3>3, <5>5
      <4>3. QED
        BY <1>4, <3>1, <4>1, <4>2
    <3>4. QED
      BY <1>1, <2>2, <3>2, <3>3
  <2>3. ServiceIds \in loaded' => overriding'
    <3>1. CASE c = ServiceIds
      <4>1. Beans(ServiceIds) = Beans(CasServiceIds) /\ Beans(ServiceIds) # {}
        BY BeansOf, BeanNames
      <4>2. PICK b : b \in Beans(ServiceIds)
        BY <4>1
      <4>3. b \in Taken
        BY <1>2, <1>3, <1>7, <3>1, <4>1, <4>2 DEF Taken
      <4>4. ~Conditional(c)
        BY <3>1 DEF Conditional, ServiceIds, CasTickets, CasWebflow
      <4>5. b \in Registers(c)
        BY <3>1, <4>2, <4>4 DEF Registers
      <4>6. QED
        BY <1>1, <1>10, <4>3, <4>5
    <3>2. CASE c # ServiceIds
      BY <1>1, <1>2, <3>2
    <3>3. QED
      BY <3>1, <3>2
  <2>4. QED
    BY <2>1, <2>2, <2>3
<1>11. QED
  BY <1>5, <1>8, <1>9, <1>10 DEF BeanInv

LEMMA BeanStepInv == BeanInv /\ [BeanNext]_beanVars => BeanInv'
<1>1. SUFFICES ASSUME BeanInv, [BeanNext]_beanVars PROVE BeanInv'
  OBVIOUS
<1>2. CASE UNCHANGED beanVars
  BY <1>1, <1>2 DEF beanVars, BeanInv, BeanTypeOK, Taken
<1>3. CASE \E c \in Configs : LoadConfiguration(c)
  BY <1>1, <1>3, LoadKeeps
<1>4. QED
  BY <1>1, <1>2, <1>3 DEF BeanNext, AllLoaded

LEMMA BeansAssembled == BeanInv => OwnBeansUsed
<1>1. SUFFICES ASSUME BeanInv, Assembled
               PROVE  overriding /\ \A b \in AllBeans \ LogoutBeans : owner[b] \in OwnConfigs
  BY DEF BeanInv, OwnBeansUsed
<1>2. /\ \A c \in Prevailing : \A b \in Beans(c) : owner[b] = c
      /\ overriding
  BY <1>1, ConfigNames DEF BeanInv, Assembled, Prevailing
<1>3. ASSUME NEW b \in AllBeans \ LogoutBeans
      PROVE  \E c \in Prevailing : b \in Beans(c)
  BY AllBeansAre, BeansOf DEF Prevailing
<1>4. QED
  BY <1>2, <1>3, ConfigNames

\* In every order of loading, the server starts only with overriding allowed,
\* and then with the beans of this repository, but for those of the logout.
THEOREM BeansOfThisRepository == BeanSpec => []OwnBeansUsed
<1>1. QED
  BY BeanInitInv, BeanStepInv, BeansAssembled, PTL DEF BeanSpec

(***************************************************************************)
(* The suffixes of ticket ids.                                             *)
(***************************************************************************)
\* A generator is of the last refresh or, during one, of what is bound already;
\* that of proxy tickets, and their ids, are those of the start.
TicketInv ==
  /\ TicketTypeOK
  /\ generator \in [TicketKinds -> Nat] /\ issued \in [TicketKinds -> Nat]
  /\ \A k \in TicketKinds \ {"pt"} : generator[k] \in {NotMade, settled, boundVersion}
  /\ issued["pt"] \in {NotMade, generator["pt"]}

LEMMA Versions ==
  ASSUME TicketInv
  PROVE  /\ MaxRefresh \in Nat /\ NotMade \in Nat
         /\ environment \in Nat /\ environment < NotMade
         /\ boundVersion \in Nat /\ boundVersion <= environment
         /\ settled \in Nat /\ settled <= boundVersion
         /\ boundVersion # NotMade /\ settled # NotMade
BY TicketAssumption DEF TicketInv, TicketTypeOK, NotMade

LEMMA TicketInitInv == TicketInit => TicketInv
<1>1. SUFFICES ASSUME TicketInit PROVE TicketInv
  OBVIOUS
<1>2. MaxRefresh \in Nat /\ NotMade \in Nat /\ NotMade # 0
  BY TicketAssumption DEF NotMade
<1>3. /\ environment = 0 /\ boundVersion = 0 /\ settled = 0 /\ refreshing = FALSE
      /\ generator = [k \in TicketKinds |-> IF Scoped(k) THEN NotMade ELSE 0]
      /\ issued = [k \in TicketKinds |-> NotMade]
  BY <1>1 DEF TicketInit
<1>4. "pt" \in TicketKinds /\ \A k \in TicketKinds : Scoped(k) <=> k # "pt"
  BY DEF TicketKinds, Scoped
<1>5. /\ \A k \in TicketKinds \ {"pt"} : generator[k] = NotMade
      /\ generator["pt"] = 0 /\ \A k \in TicketKinds : issued[k] = NotMade
      /\ generator \in [TicketKinds -> Nat] /\ issued \in [TicketKinds -> Nat]
  BY <1>2, <1>3, <1>4
<1>6. \A k \in TicketKinds : generator[k] \in {0, NotMade}
  BY <1>5
<1>7. 0 \in 0..MaxRefresh /\ 0 \in 0..0
  BY <1>2
<1>8. TicketTypeOK
  BY <1>2, <1>3, <1>5, <1>6, <1>7 DEF TicketTypeOK
<1>9. QED
  BY <1>4, <1>5, <1>8 DEF TicketInv

LEMMA IssueFacts ==
  ASSUME TicketInv, NEW k \in TicketKinds, Issue(k)
  PROVE  /\ MadeWith(k) \in 0..boundVersion /\ MadeWith(k) # NotMade
         /\ k # "pt" => MadeWith(k) \in {settled, boundVersion}
         /\ k = "pt" => MadeWith(k) = generator["pt"]
         /\ generator' = [generator EXCEPT ![k] = MadeWith(k)]
         /\ issued' = [issued EXCEPT ![k] = MadeWith(k)]
<1>1. /\ generator[k] \in (0..boundVersion) \cup {NotMade}
      /\ k # "pt" => generator[k] \in {NotMade, settled, boundVersion}
      /\ k = "pt" => generator[k] # NotMade
  BY DEF TicketInv, TicketTypeOK
<1>2. MadeWith(k) = IF generator[k] = NotMade THEN boundVersion ELSE generator[k]
  BY DEF MadeWith
<1>3. QED
  BY <1>1, <1>2, Versions DEF Issue

LEMMA IssueKeeps ==
  ASSUME TicketInv, NEW k \in TicketKinds, Issue(k)
  PROVE  TicketInv'
<1>1. /\ UNCHANGED <<environment, boundVersion, refreshing, settled>>
      /\ UNCHANGED <<MaxRefresh, NotMade>>
  BY DEF Issue, NotMade
<1>2. \A j \in TicketKinds :
        /\ generator'[j] = IF j = k THEN MadeWith(k) ELSE generator[j]
        /\ issued'[j] = IF j = k THEN MadeWith(k) ELSE issued[j]
  BY IssueFacts DEF TicketInv
<1>3. MadeWith(k) \in Nat
  BY IssueFacts, Versions
<1>4. generator' \in [TicketKinds -> Nat] /\ issued' \in [TicketKinds -> Nat]
  BY <1>3, IssueFacts DEF TicketInv
<1>5. "pt" \in TicketKinds
  BY DEF TicketKinds
<1>6. TicketTypeOK'
  BY <1>1, <1>2, <1>5, IssueFacts DEF TicketInv, TicketTypeOK
<1>7. \A j \in TicketKinds \ {"pt"} : generator'[j] \in {NotMade, settled, boundVersion}
  BY <1>2, IssueFacts DEF TicketInv
<1>8. issued'["pt"] \in {NotMade, generator'["pt"]}
  BY <1>2, <1>5 DEF TicketInv
<1>9. QED
  BY <1>1, <1>4, <1>6, <1>7, <1>8 DEF TicketInv

LEMMA TicketStepInv == TicketInv /\ [TicketNext]_ticketVars => TicketInv'
<1>1. SUFFICES ASSUME TicketInv, [TicketNext]_ticketVars PROVE TicketInv'
  OBVIOUS
<1>2. /\ MaxRefresh \in Nat /\ NotMade \in Nat
      /\ environment \in Nat /\ environment < NotMade
      /\ boundVersion \in Nat /\ boundVersion <= environment
      /\ settled \in Nat /\ settled <= boundVersion
  BY <1>1, Versions
<1>3. "pt" \in TicketKinds /\ ~Scoped("pt") /\ \A k \in TicketKinds : ~Scoped(k) => k = "pt"
  BY DEF TicketKinds, Scoped
<1>4. CASE Configure
  BY <1>1, <1>2, <1>4, TicketAssumption DEF Configure, TicketInv, TicketTypeOK, NotMade
<1>5. CASE Rebind
  <2>1. /\ settled = boundVersion /\ boundVersion' = environment /\ refreshing' = TRUE
        /\ UNCHANGED <<environment, settled, generator, issued, NotMade>>
    BY <1>1, <1>5 DEF Rebind, TicketInv, TicketTypeOK, NotMade
  <2>2. TicketTypeOK'
    BY <1>1, <1>2, <2>1 DEF TicketInv, TicketTypeOK
  <2>3. QED
    BY <1>1, <2>1, <2>2 DEF TicketInv
<1>6. CASE RefreshAll
  <2>1. /\ refreshing' = FALSE /\ settled' = boundVersion
        /\ UNCHANGED <<environment, boundVersion, issued, NotMade>>
        /\ generator' = [k \in TicketKinds |-> IF Scoped(k) THEN NotMade ELSE generator[k]]
    BY <1>6 DEF RefreshAll, NotMade
  <2>2. /\ \A k \in TicketKinds \ {"pt"} : generator'[k] = NotMade
        /\ generator'["pt"] = generator["pt"]
        /\ generator' \in [TicketKinds -> Nat]
    BY <1>1, <1>2, <1>3, <2>1 DEF TicketInv
  <2>3. TicketTypeOK'
    <3>1. \A k \in TicketKinds : generator'[k] \in (0..boundVersion) \cup {NotMade}
      BY <1>1, <1>3, <2>2 DEF TicketInv, TicketTypeOK
    <3>2. /\ environment \in 0..MaxRefresh /\ boundVersion \in 0..environment
          /\ boundVersion \in 0..boundVersion
      BY <1>1, <1>2 DEF TicketInv, TicketTypeOK
    <3>3. /\ \A k \in TicketKinds : issued[k] \in (0..boundVersion) \cup {NotMade}
          /\ generator'["pt"] # NotMade
      BY <1>1, <2>2 DEF TicketInv, TicketTypeOK
    <3>4. QED
      BY <2>1, <3>1, <3>2, <3>3 DEF TicketTypeOK
  <2>4. QED
    BY <1>1, <2>1, <2>2, <2>3 DEF TicketInv
<1>7. CASE RestartServer
  <2>1. /\ refreshing' = FALSE /\ settled' = environment /\ boundVersion' = environment
        /\ UNCHANGED <<environment, NotMade>>
        /\ generator' = [k \in TicketKinds |-> IF Scoped(k) THEN NotMade ELSE environment]
        /\ issued' = [k \in TicketKinds |-> NotMade]
    BY <1>7 DEF RestartServer, NotMade
  <2>2. /\ \A k \in TicketKinds \ {"pt"} : generator'[k] = NotMade
        /\ generator'["pt"] = environment
        /\ generator' \in [TicketKinds -> Nat]
    BY <1>2, <1>3, <2>1
  <2>3. TicketTypeOK'
    <3>1. environment \in 0..environment /\ environment # NotMade
      BY <1>2
    <3>2. \A k \in TicketKinds : generator'[k] \in (0..environment) \cup {NotMade}
      BY <2>2, <3>1
    <3>3. \A k \in TicketKinds : issued'[k] = NotMade
      BY <2>1
    <3>4. QED
      BY <1>1, <2>1, <2>2, <3>1, <3>2, <3>3 DEF TicketInv, TicketTypeOK
  <2>4. QED
    BY <1>1, <1>2, <1>3, <2>1, <2>2, <2>3 DEF TicketInv
<1>8. CASE \E k \in TicketKinds : Issue(k)
  BY <1>1, <1>8, IssueKeeps
<1>9. CASE UNCHANGED ticketVars
  BY <1>1, <1>9 DEF ticketVars, TicketInv, TicketTypeOK, NotMade
<1>10. QED
  BY <1>1, <1>4, <1>5, <1>6, <1>7, <1>8, <1>9 DEF TicketNext

\* A ticket has the suffix of the last refresh, or during one of what is bound
\* already; proxy tickets that of the start.
THEOREM SuffixOfRefresh == TicketSpec => SuffixOfLastRefresh
<1>1. ASSUME TicketInv, NEW k \in TicketKinds, Issue(k)
      PROVE  /\ k # "pt" => issued'[k] \in {settled, boundVersion}
             /\ k = "pt" /\ issued[k] # NotMade => issued'[k] = issued[k]
  BY <1>1, IssueFacts DEF TicketInv
<1>2. TicketInv /\ [TicketNext]_ticketVars =>
        [\A k \in TicketKinds : Issue(k) =>
           /\ k # "pt" => issued'[k] \in {settled, boundVersion}
           /\ k = "pt" /\ issued[k] # NotMade => issued'[k] = issued[k]]_ticketVars
  BY <1>1
<1>3. QED
  BY <1>2, TicketInitInv, TicketStepInv, PTL DEF TicketSpec, SuffixOfLastRefresh

(***************************************************************************)
(* The login flow.                                                         *)
(***************************************************************************)
Inputs == {"absent", "empty", "text"}

\* The fields that must not be empty, and all that the view binds.
RequiredFields == Required \cup {"username", "password", "source", "email", "telephone"}
BoundFields ==
  CustomFields \cup RequiredFields \cup (IF rememberMe THEN {"rememberMe"} ELSE {})

\* The bindings of the view, however often it was built.
FormOfThisRepository ==
  Binder({"username", "password", "source"})
    \cup {[field |-> f, required |-> f \in Required] : f \in CustomFields}
FlowBindings ==
  FormOfThisRepository \cup
  (IF rememberMe THEN {[field |-> "rememberMe", required |-> FALSE]} ELSE {})

\* The flow is undefined or complete, and complete before a form comes in.
FlowBuilt ==
  IF done = 0
  THEN variable = Undefined /\ view = NoView
  ELSE /\ variable = ClassAskedFirst
       /\ view = [bindings |-> FlowBindings, model |-> "CustomCredential", renders |-> done]

FlowInv ==
  /\ rememberMe \in BOOLEAN /\ done \in 0..Times
  /\ FlowBuilt
  /\ transitions \in Seq({SubmitTransition}) /\ Len(transitions) = done
  /\ posted \in [Fields -> Inputs] /\ credential \in [Fields -> Inputs]
  /\ errors = {f \in RequiredFields : posted[f] = "empty"}
  /\ \A f \in Fields :
       credential[f] = IF f \in BoundFields /\ f \notin errors THEN posted[f] ELSE "absent"

LEMMA FieldsAre ==
  ASSUME rememberMe \in BOOLEAN
  PROVE  BoundFields \subseteq Fields /\ RequiredFields \subseteq BoundFields
BY WebflowAssumption DEF BoundFields, RequiredFields, Fields

\* The view binds each of these fields once.
LEMMA BindingsAre ==
  ASSUME rememberMe \in BOOLEAN
  PROVE  /\ \A b \in FlowBindings :
              /\ b.field \in BoundFields
              /\ b = [field |-> b.field, required |-> b.field \in RequiredFields]
         /\ \A f \in BoundFields : \E b \in FlowBindings : b.field = f
<1> DEFINE base == Binder({"username", "password", "source"})
           custom == {[field |-> f, required |-> f \in Required] : f \in CustomFields}
           stock == {"username", "password", "source", "email", "telephone"}
<1>1. base = {[field |-> f, required |-> TRUE] : f \in stock}
  <2>1. base = [field : stock, required : {TRUE}]
    <3>1. {"username", "password", "source"} \cup {"email", "telephone"} = stock
      OBVIOUS
    <3>2. QED
      BY <3>1 DEF Binder
  <2>2. ASSUME NEW b \in [field : stock, required : {TRUE}]
        PROVE  b \in {[field |-> f, required |-> TRUE] : f \in stock}
    <3>1. b = [field |-> b.field, required |-> TRUE] /\ b.field \in stock
      OBVIOUS
    <3>2. QED
      BY <3>1
  <2>3. ASSUME NEW f \in stock
        PROVE  [field |-> f, required |-> TRUE] \in [field : stock, required : {TRUE}]
    OBVIOUS
  <2>4. QED
    BY <2>1, <2>2, <2>3
<1>2. /\ stock \cap CustomFields = {} /\ "rememberMe" \notin CustomFields \cup stock
      /\ Required \subseteq CustomFields /\ RequiredFields = Required \cup stock
  BY WebflowAssumption DEF RequiredFields
<1>3. \A b \in base :
        /\ b.field \in stock
        /\ b = [field |-> b.field, required |-> b.field \in RequiredFields]
  <2> HIDE DEF base
  <2>1. \A f \in stock : (f \in RequiredFields) = TRUE
    BY <1>2
  <2>2. TAKE b \in base
  <2>3. PICK f \in stock : b = [field |-> f, required |-> TRUE]
    BY <1>1
  <2>4. b.field = f
    BY <2>3
  <2>5. QED
    BY <2>1, <2>3, <2>4
<1>4. \A b \in custom :
        /\ b.field \in CustomFields
        /\ b = [field |-> b.field, required |-> b.field \in RequiredFields]
  <2>1. \A f \in CustomFields : (f \in RequiredFields) = (f \in Required)
    BY <1>2
  <2>2. QED
    BY <2>1
<1>5. LET b == [field |-> "rememberMe", required |-> FALSE] IN
        b.field = "rememberMe" /\ b = [field |-> b.field, required |-> b.field \in RequiredFields]
  <2>1. ("rememberMe" \in RequiredFields) = FALSE
    BY <1>2
  <2>2. QED
    BY <2>1
<1>6. FlowBindings = base \cup custom \cup
        (IF rememberMe THEN {[field |-> "rememberMe", required |-> FALSE]} ELSE {})
  BY DEF FlowBindings, FormOfThisRepository
<1>7. BoundFields = CustomFields \cup stock \cup (IF rememberMe THEN {"rememberMe"} ELSE {})
  BY <1>2 DEF BoundFields
<1>8. /\ \A f \in stock : \E b \in base : b.field = f
      /\ \A f \in CustomFields : \E b \in custom : b.field = f
  <2>1. \A f \in stock : \E b \in base : b.field = f
    <3>1. TAKE f \in stock
    <3>2. [field |-> f, required |-> TRUE] \in base
      BY <1>1
    <3>3. QED
      BY <3>2
  <2>2. \A f \in CustomFields : \E b \in custom : b.field = f
    <3>1. TAKE f \in CustomFields
    <3>2. [field |-> f, required |-> f \in Required] \in custom
      OBVIOUS
    <3>3. QED
      BY <3>2
  <2>3. QED
    BY <2>1, <2>2
<1> HIDE DEF base, custom, stock
<1>9. \A b \in FlowBindings :
        /\ b.field \in BoundFields
        /\ b = [field |-> b.field, required |-> b.field \in RequiredFields]
  BY <1>3, <1>4, <1>5, <1>6, <1>7
<1>10. \A f \in BoundFields : \E b \in FlowBindings : b.field = f
  BY <1>5, <1>6, <1>7, <1>8
<1>11. QED
  BY <1>9, <1>10

LEMMA FlowInitInv == FlowInit => FlowInv
<1>1. SUFFICES ASSUME FlowInit PROVE FlowInv
  OBVIOUS
<1>2. /\ done = 0 /\ rememberMe \in BOOLEAN /\ transitions = <<>>
      /\ variable = Undefined /\ view = NoView /\ errors = {}
      /\ \A f \in Fields : posted[f] = "absent" /\ credential[f] = "absent"
      /\ posted \in [Fields -> Inputs] /\ credential \in [Fields -> Inputs]
  BY <1>1 DEF FlowInit, Inputs
<1>3. 0 \in 0..Times /\ Len(<<>>) = 0 /\ <<>> \in Seq({SubmitTransition})
  BY WebflowAssumption
<1>4. {f \in RequiredFields : posted[f] = "empty"} = {}
  BY <1>2, FieldsAre
<1>5. QED
  BY <1>2, <1>3, <1>4 DEF FlowInv, FlowBuilt

LEMMA InitialiseKeeps ==
  ASSUME FlowInv, Initialise
  PROVE  FlowInv'
<1>1. /\ done < Times /\ done \in 0..Times /\ Times \in Nat /\ done' = done + 1
      /\ rememberMe' = rememberMe
      /\ UNCHANGED <<posted, errors, credential>>
      /\ variable' = IF variable = Undefined THEN ClassAskedFirst ELSE variable
      /\ view' = [bindings |-> Bindings, model |-> "CustomCredential",
                  renders |-> view.renders + 1]
      /\ transitions' = Append(transitions, SubmitTransition)
  BY WebflowAssumption DEF FlowInv, Initialise
<1>2. Bindings = FlowBindings /\ view.renders = done /\ variable' = ClassAskedFirst
  <2>1. CASE done = 0
    <3>1. view = NoView /\ variable = Undefined
      BY <2>1 DEF FlowInv, FlowBuilt
    <3>2. FormBindings = FormOfThisRepository /\ view.renders = 0
      BY <3>1 DEF FormBindings, FormOfThisRepository, NoView
    <3>3. QED
      BY <1>1, <2>1, <3>1, <3>2 DEF Bindings, FlowBindings
  <2>2. CASE done # 0
    <3>1. /\ variable = ClassAskedFirst
          /\ view = [bindings |-> FlowBindings, model |-> "CustomCredential",
                     renders |-> done]
      BY <2>2 DEF FlowInv, FlowBuilt
    <3>2. view.model # NoView.model
      BY <3>1 DEF NoView, Undefined
    <3>3. FormBindings = FlowBindings /\ view.renders = done
      BY <3>1, <3>2 DEF FormBindings
    <3>4. QED
      BY <1>1, <3>1, <3>3 DEF Bindings, FlowBindings
  <2>3. QED
    BY <2>1, <2>2
<1>3. done' \in 0..Times /\ done' # 0
  BY <1>1
<1>4. FlowBindings' = FlowBindings /\ ClassAskedFirst' = ClassAskedFirst
      /\ BoundFields' = BoundFields
  BY <1>1 DEF FlowBindings, ClassAskedFirst, BoundFields
<1>5. FlowBuilt'
  BY <1>1, <1>2, <1>3, <1>4 DEF FlowBuilt
<1>6. transitions' \in Seq({SubmitTransition}) /\ Len(transitions') = done'
  <2>1. transitions \in Seq({SubmitTransition}) /\ Len(transitions) = done
    BY DEF FlowInv
  <2> HIDE DEF SubmitTransition
  <2>2. QED
    BY <1>1, <2>1
<1>7. QED
  BY <1>1, <1>3, <1>4, <1>5, <1>6 DEF FlowInv

LEMMA StartKeeps ==
  ASSUME FlowInv, StartFlow
  PROVE  FlowInv'
<1>1. /\ UNCHANGED <<rememberMe, done, variable, view, transitions>> /\ errors' = {}
      /\ \A f \in Fields : posted'[f] = "absent" /\ credential'[f] = "absent"
      /\ posted' \in [Fields -> Inputs] /\ credential' \in [Fields -> Inputs]
  BY DEF StartFlow, flow, Inputs
<1>2. /\ FlowBuilt' /\ BoundFields' = BoundFields
  BY <1>1 DEF FlowInv, FlowBuilt, FlowBindings, ClassAskedFirst, BoundFields
<1>3. {f \in RequiredFields : posted'[f] = "empty"} = {}
  BY <1>1, FieldsAre DEF FlowInv
<1>4. QED
  BY <1>1, <1>2, <1>3 DEF FlowInv

LEMMA PostKeeps ==
  ASSUME FlowInv, PostForm
  PROVE  FlowInv'
<1>1. PICK form \in [Fields -> Inputs] :
        /\ posted' = form
        /\ errors' = Refused(form)
        /\ credential' = [f \in Fields |-> IF f \in Bound(form) \ Refused(form)
                                           THEN form[f] ELSE credential[f]]
  BY DEF PostForm, Inputs
<1>2. /\ UNCHANGED <<rememberMe, done, variable, view, transitions>>
      /\ \A f \in Fields : credential[f] = "absent"
      /\ view.bindings = FlowBindings /\ rememberMe \in BOOLEAN
  <2>1. done # 0 /\ \A f \in Fields : posted[f] = "absent"
    BY WebflowAssumption DEF PostForm, FlowInv
  <2>2. QED
    BY <2>1 DEF PostForm, flow, FlowInv, FlowBuilt
<1>3. Refused(form) = {f \in RequiredFields : form[f] = "empty"}
  <2>1. ASSUME NEW b \in FlowBindings, b.required, form[b.field] = "empty"
        PROVE  b.field \in RequiredFields
    <3>1. b = [field |-> b.field, required |-> b.field \in RequiredFields]
      BY <1>2, BindingsAre
    <3>2. b.required = (b.field \in RequiredFields)
      BY <3>1
    <3>3. QED
      BY <2>1, <3>2
  <2>2. ASSUME NEW f \in RequiredFields, form[f] = "empty"
        PROVE  \E b \in FlowBindings : b.required /\ b.field = f
    <3>1. PICK b \in FlowBindings : b.field = f
      BY <1>2, <2>2, FieldsAre, BindingsAre
    <3>2. b = [field |-> b.field, required |-> b.field \in RequiredFields]
      BY <1>2, BindingsAre
    <3>3. b.required = (b.field \in RequiredFields)
      BY <3>2
    <3>4. QED
      BY <2>2, <3>1, <3>3
  <2>3. Refused(form) \subseteq {f \in RequiredFields : form[f] = "empty"}
    BY <1>2, <2>1 DEF Refused
  <2>4. {f \in RequiredFields : form[f] = "empty"} \subseteq Refused(form)
    BY <1>2, <2>2 DEF Refused
  <2>5. QED
    BY <2>3, <2>4
<1>4. Bound(form) = {f \in BoundFields : form[f] # "absent"}
  <2>1. Bound(form) \subseteq {f \in BoundFields : form[f] # "absent"}
    BY <1>2, BindingsAre DEF Bound
  <2>2. ASSUME NEW f \in BoundFields, form[f] # "absent"
        PROVE  f \in Bound(form)
    <3>1. PICK b \in FlowBindings : b.field = f
      BY <1>2, BindingsAre
    <3>2. QED
      BY <1>2, <2>2, <3>1 DEF Bound
  <2>3. QED
    BY <2>1, <2>2
<1>5. \A f \in Fields :
        credential'[f] = IF f \in BoundFields /\ f \notin errors' THEN form[f] ELSE "absent"
  BY <1>1, <1>2, <1>4
<1>6. credential' \in [Fields -> Inputs]
  BY <1>1 DEF FlowInv
<1>7. FlowBuilt' /\ BoundFields' = BoundFields
  BY <1>2 DEF FlowInv, FlowBuilt, FlowBindings, ClassAskedFirst, BoundFields
<1>8. QED
  BY <1>1, <1>2, <1>3, <1>5, <1>6, <1>7 DEF FlowInv

LEMMA FlowStepInv == FlowInv /\ [FlowNext]_flowVars => FlowInv'
<1>1. SUFFICES ASSUME FlowInv, [FlowNext]_flowVars PROVE FlowInv'
  OBVIOUS
<1>2. CASE UNCHANGED flowVars
  BY <1>1, <1>2 DEF flowVars, flow, FlowInv, FlowBuilt, FlowBindings, ClassAskedFirst,
                    BoundFields
<1>3. QED
  BY <1>1, <1>2, InitialiseKeeps, StartKeeps, PostKeeps DEF FlowNext

LEMMA FlowHandsOver == FlowInv => HandsOverTheForm
<1>1. SUFFICES ASSUME FlowInv PROVE HandsOverTheForm
  OBVIOUS
<1>2. done > 0 /\ ~rememberMe => variable = "CustomCredential" /\ variable = view.model
  BY <1>1 DEF FlowInv, FlowBuilt, ClassAskedFirst
<1>3. QED
  BY <1>1, <1>2 DEF FlowInv, HandsOverTheForm, BoundFields, RequiredFields

\* The credential has exactly the fields of the custom form that were filled
\* in, whatever the configured fields are and however often the flow was built.
THEOREM FormHandedOver == FlowSpec => []HandsOverTheForm
<1>1. QED
  BY FlowInitInv, FlowStepInv, FlowHandsOver, PTL DEF FlowSpec

(***************************************************************************)
(* The parts side by side.                                                 *)
(***************************************************************************)
ServerInv == IInv /\ BeanInv /\ FlowInv /\ TicketInv

LEMMA ServerStarts == ServerInit => ServerInv
<1>1. ServerInit => Init /\ BeanInit /\ FlowInit /\ TicketInit
  BY DEF ServerInit, LoginRests, BeansRest, FlowRests, TicketsRest
<1>2. QED
  BY <1>1, InitInv, BeanInitInv, FlowInitInv, TicketInitInv DEF ServerInv

\* What moves one part leaves the others as they are.
LEMMA OnePartMoves ==
  ASSUME [ServerNext]_<<part, vars, beanVars, flowVars, ticketVars>>
  PROVE  [Next]_vars /\ [BeanNext]_beanVars /\ [FlowNext]_flowVars /\ [TicketNext]_ticketVars
BY DEF ServerNext

LEMMA ServerSteps ==
  ServerInv /\ [ServerNext]_<<part, vars, beanVars, flowVars, ticketVars>> => ServerInv'
BY OnePartMoves, NextInv, BeanStepInv, FlowStepInv, TicketStepInv DEF ServerInv

LEMMA FlowTypes == FlowInv => FlowTypeOK
<1>1. SUFFICES ASSUME FlowInv PROVE FlowTypeOK
  OBVIOUS
<1>2. /\ rememberMe \in BOOLEAN /\ done \in 0..Times
      /\ view.renders = done /\ Len(transitions) = done
      /\ view.bindings = IF done = 0 THEN {} ELSE FlowBindings
  <2>1. CASE done = 0
    <3>1. view = NoView /\ NoView.renders = 0 /\ NoView.bindings = {}
      BY <1>1, <2>1 DEF FlowInv, FlowBuilt, NoView
    <3>2. QED
      BY <1>1, <2>1, <3>1 DEF FlowInv
  <2>2. CASE done # 0
    BY <1>1, <2>2 DEF FlowInv, FlowBuilt
  <2>3. QED
    BY <2>1, <2>2
<1>3. \A b, c \in FlowBindings : b.field = c.field => b = c
  BY <1>2, BindingsAre
<1>4. {"email", "telephone"} \subseteq {b.field : b \in FlowBindings}
  <2>1. {"email", "telephone"} \subseteq BoundFields
    BY DEF BoundFields, RequiredFields
  <2>2. \A f \in BoundFields : \E b \in FlowBindings : b.field = f
    BY <1>2, BindingsAre
  <2>3. QED
    BY <2>1, <2>2
<1>5. errors \subseteq Fields /\ credential \in [Fields -> {"absent", "empty", "text"}]
  BY <1>1, FieldsAre DEF FlowInv, Inputs
<1>6. QED
  BY <1>2, <1>3, <1>4, <1>5 DEF FlowTypeOK

\* Every part of the server keeps its types, whatever the others do.
THEOREM ServerTypeCorrect == ServerSpec => []ServerTypeOK
<1>1. ServerInv => ServerTypeOK
  BY FlowTypes DEF ServerInv, ServerTypeOK, IInv, BeanInv, TicketInv
<1>2. QED
  BY <1>1, ServerStarts, ServerSteps, PTL DEF ServerSpec

==============================================================================
