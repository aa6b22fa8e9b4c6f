----------------------------- MODULE BeanAssembly -----------------------------
(***************************************************************************)
(* How the server's context is put together: the auto-configurations of    *)
(* this repository (META-INF/spring.factories) and those of CAS they want  *)
(* to be loaded before or after, one at a time and in any order these      *)
(* wishes allow.  A bean method of CAS may be conditional on the name not  *)
(* being taken; a plain one takes the name, if overriding is allowed.      *)
(***************************************************************************)
EXTENDS Naturals

VARIABLES
  overriding,   \* spring.main.allow-bean-definition-overriding
  loaded,       \* the configurations whose definitions are registered
  owner,        \* of each bean name: the configuration that defined it last
  failed        \* the context could not be started

beanVars == <<overriding, loaded, owner, failed>>

(***************************************************************************)
(* The configurations and their beans.                                     *)
(***************************************************************************)
Tickets == "TicketsConfiguration"
ServiceIds == "CasServiceTicketIdGeneratorsConfiguration"
Webflow == "CustomAuthenticationWebflowConfiguration"
Logout == "CustomLogoutExecutionPlanConfiguration"
Authn == "CustomAuthenticationEventExecutionPlanConfiguration"
OwnConfigs == {Tickets, ServiceIds, Webflow, Logout, Authn}

CasTickets == "CasCoreTicketsConfiguration"
CasServiceIds == "CasDefaultServiceTicketIdGeneratorsConfiguration"
CasWebflow == "CasWebflowContextConfiguration"
CasLogout == "CasCoreLogoutConfiguration"
CasAuthn == "CasCoreAuthenticationHandlersConfiguration"
CasConfigs == {CasTickets, CasServiceIds, CasWebflow, CasLogout, CasAuthn}

Configs == OwnConfigs \cup CasConfigs

TicketBeans == {"proxyGrantingTicketUniqueIdGenerator",
                "ticketGrantingTicketUniqueIdGenerator",
                "proxy20TicketUniqueIdGenerator"}
ServiceIdBeans == {"serviceTicketUniqueIdGenerator",
                   "casDefaultServiceTicketUniqueTicketIdGeneratorConfigurer"}
WebflowBeans == {"defaultWebflowConfigurer"}
LogoutBeans == {"casCoreLogoutExecutionPlanConfigurer"}
AuthnBeans == {"customAuthenticationHandler"}

\* The beans a configuration defines.
Beans(c) ==
  CASE c \in {Tickets, CasTickets}       -> TicketBeans
    [] c \in {ServiceIds, CasServiceIds} -> ServiceIdBeans
    [] c \in {Webflow, CasWebflow}       -> WebflowBeans
    [] c \in {Logout, CasLogout}         -> LogoutBeans
    [] c = Authn                         -> AuthnBeans
    [] OTHER                             -> {}
AllBeans == UNION {Beans(c) : c \in Configs}

\* CAS's bean methods that are @ConditionalOnMissingBean.
Conditional(c) == c \in {CasTickets, CasWebflow}

\* Which configuration has to be loaded before which (@AutoConfigureBefore,
\* @AutoConfigureAfter of this repository's).
\* Slips: service ticket identifiers without their @AutoConfigureAfter, and
\* ahead of CAS's.
OrderForgotten ==
  { <<Tickets, CasTickets>>, <<Webflow, CasWebflow>>, <<Logout, CasLogout>>,
    <<CasAuthn, Authn>> }
OrderReversed == OrderForgotten \cup {<<ServiceIds, CasServiceIds>>}
Order ==
  { <<Tickets, CasTickets>>, <<CasServiceIds, ServiceIds>>,
    <<Webflow, CasWebflow>>, <<Logout, CasLogout>>, <<CasAuthn, Authn>> }

NoOwner == "nobody"

BeanInit ==
  /\ overriding \in BOOLEAN
  /\ loaded = {} /\ failed = FALSE
  /\ owner = [b \in AllBeans |-> NoOwner]

\* The beans of c whose definitions are registered: a condition that is not
\* met skips the method.
Taken == {b \in AllBeans : owner[b] # NoOwner}
Registers(c) == IF Conditional(c) THEN Beans(c) \ Taken ELSE Beans(c)

\* A configuration is loaded; a second definition of a name fails the start
\* where overriding is not allowed.
LoadConfiguration(c) ==
  /\ ~failed /\ c \in Configs \ loaded
  /\ \A p \in Order : p[2] = c => p[1] \in loaded
  /\ failed' = (~overriding /\ Registers(c) \cap Taken # {})
  /\ loaded' = loaded \cup {c}
  /\ owner' = [b \in AllBeans |-> IF b \in Registers(c) /\ ~failed' THEN c ELSE owner[b]]
  /\ UNCHANGED overriding

\* All definitions are there, or the server has stopped.
AllLoaded == (failed \/ loaded = Configs) /\ UNCHANGED beanVars

BeanNext == AllLoaded \/ \E c \in Configs : LoadConfiguration(c)

BeanSpec == BeanInit /\ [][BeanNext]_beanVars

(***************************************************************************)
(* Properties.                                                             *)
(***************************************************************************)
Assembled == loaded = Configs /\ ~failed

\* The types of the variables; a name is taken only by a loaded configuration
\* that defines it, and where CAS defines it without a condition, CAS's
\* definition of service ticket identifiers came first.
BeanTypeOK ==
  /\ overriding \in BOOLEAN /\ failed \in BOOLEAN
  /\ loaded \subseteq Configs
  /\ \A b \in AllBeans : owner[b] # NoOwner => b \in Beans(owner[b]) /\ owner[b] \in loaded
  /\ ServiceIds \in loaded => CasServiceIds \in loaded

\* In whatever order the configurations are loaded, the server starts if and
\* only if overriding is allowed, and this repository's generators of ticket
\* ids, its configurer of the login flow and its handler are the ones it uses
\* (TicketsConfiguration, CasServiceTicketIdGeneratorsConfiguration and their
\* constraints, application.yml).
OwnBeansUsed ==
  /\ failed => ~overriding
  /\ Assembled => /\ overriding
                  /\ \A b \in AllBeans \ LogoutBeans : owner[b] \in OwnConfigs

\* The post-processor for logout that this repository registers is called by
\* the logout manager, as the class says: its configurer is the one used.
LogoutProcessorRegistered ==
  Assembled => \A b \in LogoutBeans : owner[b] \in OwnConfigs
===============================================================================
