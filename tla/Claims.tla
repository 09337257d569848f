------------------------------- MODULE Claims -------------------------------
(***************************************************************************)
(* Statements that comments, documents and tests of the repository make    *)
(* about the contract and that the code does not keep.  Each has a run in  *)
(* which TLC finds a behaviour of Operations that contradicts it.          *)
(***************************************************************************)
EXTENDS Operations

\* operation.rs, create_pending_operation: the timestamp and the operation id
\* "ensure uniqueness of IDs, since operation_id can be reused in case of invalid
\* transactions".  A ticket that was returned is reused within the same second,
\* so a pending operation can have the id of a refund not yet claimed.
RefundIdsAreUnique ==
  \A key \in DOMAIN pendingOperations : \A refund \in DOMAIN pendingRefunds :
    pendingOperations[key].id # refund[2]

\* tickets.rs, allocate_ticket: "This last ticket will always be reserved for an
\* update of the tickets".  Such an update is started by register_used_ticket
\* only, on the result of another operation; with one ticket and nothing
\* pending no message of the contract can use that ticket or recover others.
LastTicketCanBeUsed ==
  ~ (Len(availableTickets) = 1 /\ DOMAIN pendingOperations = {})

\* SaveEvidence takes this evidence of this relayer: its vote is stored or its
\* transaction processed.  (An Invalid result that needs no vote before it changes
\* neither and looks like a cancellation by the owner; it is left aside.)
EvidenceTaken(sender, e) ==
  /\ RecordEvidence(sender, e) \/ ConfirmTransfer(sender, e) \/ ConfirmOperation(sender, e)
  /\ evidenceVars' # evidenceVars

TakesOnlyAllocationsAndRotations ==
  config.bridge_state = "Halted" =>
    \A sender \in Addr : \A e \in EvidenceInputs :
      EvidenceTaken(sender, e) =>
        /\ e.kind = "XRPLTransactionResult"
        /\ pendingOperations[ResultKey(e)].operation_type.type
             \in {"AllocateTickets", "RotateKeys"}

\* contract.rs, save_evidence: "The bridge is halted -> Only ticket allocation and
\* rotate keys evidences (if there is a rotate keys ongoing) are allowed".  The
\* branch for transaction results does not look at the state of the bridge, so the
\* result of a transfer or a TrustSet is taken, and settles it, on a halted bridge.
HaltedTakesOnlyAllocationsAndRotations == [][TakesOnlyAllocationsAndRotations]_vars

=============================================================================
