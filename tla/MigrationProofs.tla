--------------------------- MODULE MigrationProofs ---------------------------
(***************************************************************************)
(* What a migration cannot spoil: the tickets and the transfers keep their *)
(* bookkeeping whatever configuration the message of migrate carries.      *)
(***************************************************************************)
EXTENDS OperationsProofs, Migration

\* A migration keeps the types.
LEMMA MigrateTyped ==
  ASSUME TypeOK, NEW msg \in Migrations, Migrate(msg)
  PROVE  TypeOK'
<1>1. config' \in [relayers : SUBSET Relayer, evidence_threshold : Nat,
                   used_ticket_sequence_threshold : Nat,
                   bridge_state : {"Active", "Halted"}, xrpl_base_fee : Nat]
  BY MigrationAssumption DEF Migrate
<1>. QED
  BY <1>1 DEF Migrate, TypeOK, ticketVars, evidenceVars, tokenVars

\* A migration leaves the flag of the ticket update and the queue as they are.
LEMMA MigrateKeepsFlag ==
  ASSUME TicketUpdateFlag, NEW msg, Migrate(msg)
  PROVE  TicketUpdateFlag'
  BY DEF Migrate, ticketVars, TicketUpdateFlag, PendingOfType

\* The flag of the ticket update is exact for every sequence of messages with
\* migrations in between, also ones to a threshold of used tickets that no
\* instantiate message could have.
THEOREM TicketFlagSurvivesMigration == MigratingSpec => []TicketUpdateFlag
<1>1. Init => TypeOK /\ TicketUpdateFlag
  BY TypeInit DEF Init, TicketUpdateFlag, PendingOfType
<1>2. TypeOK /\ TicketUpdateFlag /\ [Next \/ \E msg \in Migrations : Migrate(msg)]_vars
        => TypeOK' /\ TicketUpdateFlag'
  BY TypeStep, TicketFlagStep, MigrateTyped, MigrateKeepsFlag
<1>. QED BY <1>1, <1>2, PTL DEF MigratingSpec

\* A transfer ends accepted or refunded, with migrations in between.
THEOREM TransfersSurviveMigration == MigratingSpec => TransferAcceptedOrRefunded
<1>1. Init => TypeOK
  BY TypeInit
<1>2. TypeOK /\ [Next \/ \E msg \in Migrations : Migrate(msg)]_vars => TypeOK'
  BY TypeStep, MigrateTyped
<1>3. TypeOK /\ [Next \/ \E msg \in Migrations : Migrate(msg)]_vars => EndsTransfers
  <2>1. ASSUME NEW msg, Migrate(msg) PROVE EndsTransfers
    BY <2>1 DEF Migrate, EndsTransfers, PendingOfType
  <2>. QED BY <2>1, TransferStep
<1>. QED BY <1>1, <1>2, <1>3, PTL DEF MigratingSpec, TransferAcceptedOrRefunded

\* A token is Processing exactly while one TrustSet operation for it is pending, with
\* migrations in between.
THEOREM RegistrationsSurviveMigration == MigratingSpec => []TrustSetPerProcessingToken
<1>1. Init => TypeOK /\ TrustSetPerProcessingToken
  BY TypeInit DEF Init, TrustSetPerProcessingToken, PendingOfType
<1>2. ASSUME TrustSetPerProcessingToken, NEW msg, Migrate(msg) PROVE TrustSetPerProcessingToken'
  BY <1>2 DEF Migrate, tokenVars, TrustSetPerProcessingToken, PendingOfType
<1>3. TypeOK /\ TrustSetPerProcessingToken /\ [Next \/ \E msg \in Migrations : Migrate(msg)]_vars
        => TypeOK' /\ TrustSetPerProcessingToken'
  BY <1>2, TypeStep, TrustSetStep, MigrateTyped
<1>. QED BY <1>1, <1>3, PTL DEF MigratingSpec

\* Every ticket stays with one holder, with migrations in between, where the XRPL
\* hands out every ticket number once.
THEOREM TicketsSurviveMigration ==
  ASSUME TicketsGrantedOnce
  PROVE  MigratingSpec => []TicketsHeldOnce
<1>1. ASSUME TicketsInv, NEW msg, Migrate(msg) PROVE TicketsInv'
  BY <1>1 DEF Migrate, ticketVars, evidenceVars, TicketsInv
<1>2. TypeOK /\ TicketsInv /\ [Next \/ \E msg \in Migrations : Migrate(msg)]_vars
        => TypeOK' /\ TicketsInv'
  BY <1>1, TypeStep, TicketsStep, MigrateTyped
<1>. QED BY <1>2, TypeInit, TicketsInit, ApartHeldOnce, PTL DEF MigratingSpec

=============================================================================
