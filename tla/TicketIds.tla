------------------------------- MODULE TicketIds -------------------------------
(***************************************************************************)
(* The suffixes of ticket ids while the server runs: TicketsConfiguration  *)
(* and CasServiceTicketIdGeneratorsConfiguration make a generator for each *)
(* kind of ticket with the suffix the properties have at that moment; all  *)
(* but that of proxy tickets are refresh-scoped.                           *)
(*                                                                         *)
(* A refresh of the context is two steps with requests in between: the     *)
(* properties are bound to the environment again, then the refresh scope   *)
(* drops its beans, and each is made again when it is used next.           *)
(***************************************************************************)
EXTENDS Naturals

CONSTANT MaxRefresh    \* bound on the refreshes

ASSUME TicketAssumption == MaxRefresh \in Nat

\* TGT, PGT, PT and ST.
TicketKinds == {"tgt", "pgt", "pt", "st"}

VARIABLES
  environment,  \* the version of the suffixes in the environment
  boundVersion, \* the version in customProperties.getTicket()
  refreshing,   \* the properties are bound again, the scope not yet refreshed
  settled,      \* the version the last finished refresh bound
  generator,    \* of each kind: the version its generator was made with
  issued        \* of each kind: the version of the ticket issued last

ticketVars == <<environment, boundVersion, refreshing, settled, generator, issued>>

\* A refresh-scoped generator that is not there; no ticket yet.
NotMade == MaxRefresh + 1

\* Slip: the generator of granting tickets is not refresh-scoped.
ScopedBut(kind) == kind \notin {"tgt", "pt"}
Scoped(kind) == kind # "pt"

\* The generator that is not scoped is made when the server starts.
TicketInit ==
  /\ environment = 0 /\ boundVersion = 0 /\ settled = 0 /\ refreshing = FALSE
  /\ generator = [k \in TicketKinds |-> IF Scoped(k) THEN NotMade ELSE 0]
  /\ issued = [k \in TicketKinds |-> NotMade]

\* The configuration is changed; nothing of it is seen before a refresh.
Configure ==
  /\ environment < MaxRefresh
  /\ environment' = environment + 1
  /\ UNCHANGED <<boundVersion, refreshing, settled, generator, issued>>

Rebind ==
  /\ ~refreshing
  /\ refreshing' = TRUE
  /\ boundVersion' = environment
  /\ UNCHANGED <<environment, settled, generator, issued>>

RefreshAll ==
  /\ refreshing
  /\ refreshing' = FALSE /\ settled' = boundVersion
  /\ generator' = [k \in TicketKinds |-> IF Scoped(k) THEN NotMade ELSE generator[k]]
  /\ UNCHANGED <<environment, boundVersion, issued>>

\* A ticket is issued; its generator may have to be made first.
MadeWith(kind) == IF generator[kind] = NotMade THEN boundVersion ELSE generator[kind]

Issue(kind) ==
  /\ generator' = [generator EXCEPT ![kind] = MadeWith(kind)]
  /\ issued' = [issued EXCEPT ![kind] = MadeWith(kind)]
  /\ UNCHANGED <<environment, boundVersion, refreshing, settled>>

\* The server starts again.
RestartServer ==
  /\ boundVersion' = environment /\ settled' = environment /\ refreshing' = FALSE
  /\ generator' = [k \in TicketKinds |-> IF Scoped(k) THEN NotMade ELSE environment]
  /\ issued' = [k \in TicketKinds |-> NotMade]
  /\ UNCHANGED environment

TicketNext ==
  \/ Configure \/ Rebind \/ RefreshAll \/ RestartServer
  \/ \E k \in TicketKinds : Issue(k)

TicketSpec == TicketInit /\ [][TicketNext]_ticketVars

(***************************************************************************)
(* Properties.                                                             *)
(***************************************************************************)
\* The types of the variables; no generator is newer than what is bound.
TicketTypeOK ==
  /\ environment \in 0..MaxRefresh /\ boundVersion \in 0..environment
  /\ refreshing \in BOOLEAN /\ settled \in 0..boundVersion
  /\ (~refreshing => settled = boundVersion)
  /\ \A k \in TicketKinds : generator[k] \in (0..boundVersion) \cup {NotMade}
  /\ \A k \in TicketKinds : issued[k] \in (0..boundVersion) \cup {NotMade}
  /\ generator["pt"] # NotMade

\* From the end of a refresh to the next one, every ticket issued but proxy
\* tickets has the suffix of that refresh, whatever was issued while it was
\* under way (settled and boundVersion are the same then); within one it has that or
\* the one before.  Proxy tickets change only when the server starts again
\* (the scopes of the generators).
SuffixOfLastRefresh ==
  [][\A k \in TicketKinds : Issue(k) =>
       /\ k # "pt" => issued'[k] \in {settled, boundVersion}
       /\ k = "pt" /\ issued[k] # NotMade => issued'[k] = issued[k]]_ticketVars
===============================================================================
