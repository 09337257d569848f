------------------------------ MODULE Migration ------------------------------
(***************************************************************************)
(* The contract with its migrate entry point, which the chain's admin of   *)
(* the contract calls.  It writes a whole new configuration from its       *)
(* message, with none of the checks that instantiate and RotateKeys make,  *)
(* and leaves every other stored item as it is.                            *)
(***************************************************************************)
EXTENDS Operations

CONSTANT Migrations     \* the fields of MigrateMsg that the configuration keeps

ASSUME MigrationAssumption ==
  Migrations \subseteq [relayers : SUBSET Relayer, evidence_threshold : Nat,
                        used_ticket_sequence_threshold : Nat, xrpl_base_fee : Nat]

\* The bridge_state of the message is not used: the bridge becomes Active.
Migrate(msg) ==
  /\ config' = [relayers |-> msg.relayers,
                evidence_threshold |-> msg.evidence_threshold,
                used_ticket_sequence_threshold |-> msg.used_ticket_sequence_threshold,
                bridge_state |-> "Active",
                xrpl_base_fee |-> msg.xrpl_base_fee]
  /\ UNCHANGED <<ticketVars, pendingRotateKeys, pendingOperations, evidenceVars, tokenVars,
                 prohibited, pendingRefunds, now>>

MigratingSpec == Init /\ [][Next \/ \E msg \in Migrations : Migrate(msg)]_vars

==============================================================================
