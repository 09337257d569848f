-------------------------- MODULE OperationsProofs --------------------------
(***************************************************************************)
(* Proofs about Operations, for every set of relayers, evidences, tokens   *)
(* and inputs: its invariants, from the types to the tickets, and its two  *)
(* action properties.                                                      *)
(***************************************************************************)
EXTENDS Operations, FiniteSetTheorems, TLAPS

-----------------------------------------------------------------------------
\* Maps

\* Removing an entry leaves the others as they were.
LEMMA WithoutEntries ==
  ASSUME NEW f, NEW key
  PROVE  /\ DOMAIN Without(f, key) = DOMAIN f \ {key}
         /\ \A k \in DOMAIN f \ {key} : Without(f, key)[k] = f[k]
  BY DEF Without, Restrict

-----------------------------------------------------------------------------
\* Types

\* The parts of TypeOK for the tickets and for the operations
TicketsOK(tickets) ==
  tickets \in [available : Seq(Nat), used : Nat, updating : BOOLEAN]

OperationsOK(operations) ==
  DOMAIN operations \subseteq Nat /\ operations \in [DOMAIN operations -> Operation]

\* create_pending_operation keeps the queue a map from numbers to operations.
LEMMA CreateTyped ==
  ASSUME TypeOK, NEW operations, OperationsOK(operations),
         NEW ticket \in Nat \cup {None}, NEW account \in Nat \cup {None},
         OperationKey(ticket, account) \in Nat, NEW operationType \in OperationType
  PROVE  OperationsOK(create_pending_operation(operations, ticket, account, operationType))
<1> DEFINE key == OperationKey(ticket, account)
           operation == [id |-> <<now, key>>, version |-> 1, ticket_sequence |-> ticket,
                         account_sequence |-> account, signatures |-> {},
                         operation_type |-> operationType,
                         xrpl_base_fee |-> config.xrpl_base_fee]
<1>1. operation \in Operation
  <2>1. now \in Nat /\ key \in Nat /\ config.xrpl_base_fee \in Nat
    BY DEF TypeOK
  <2>2. {} \in SUBSET [relayer : Addr, version : Nat]
    OBVIOUS
  <2>. QED BY <2>1, <2>2 DEF Operation
<1>2. create_pending_operation(operations, ticket, account, operationType)
        = Put(operations, key, operation)
  BY DEF create_pending_operation
<1> HIDE DEF operation, key
<1>3. key \in Nat
  BY DEF key
<1>. QED BY <1>1, <1>2, <1>3 DEF OperationsOK, Put

\* allocate_ticket takes a number and leaves a sequence of numbers.
LEMMA TakeTicketTyped ==
  ASSUME TypeOK, allocate_ticket
  PROVE  /\ Head(availableTickets) \in Nat
         /\ availableTickets' \in Seq(Nat)
         /\ usedTickets' \in Nat
         /\ pendingTicketUpdate' \in BOOLEAN
  BY DEF TypeOK, allocate_ticket

\* Starting an operation on a ticket keeps the types of queue and tickets.
LEMMA CreateOnTicketTyped ==
  ASSUME TypeOK, NEW operationType \in OperationType, NEW bridgeState, NEW rotating,
         create_operation_on_ticket(operationType, bridgeState, rotating)
  PROVE  /\ availableTickets' \in Seq(Nat)
         /\ usedTickets' \in Nat
         /\ pendingTicketUpdate' \in BOOLEAN
         /\ OperationsOK(pendingOperations')
<1>1. OperationsOK(pendingOperations)
  BY DEF TypeOK, OperationsOK
<1>2. None \notin Nat
  BY IdentityAssumption
<1>3. Head(availableTickets) \in Nat
  BY TakeTicketTyped DEF create_operation_on_ticket
<1>4. OperationKey(Head(availableTickets), None) \in Nat
  BY <1>2, <1>3 DEF OperationKey
<1>5. OperationsOK(pendingOperations')
  BY <1>1, <1>3, <1>4, CreateTyped DEF create_operation_on_ticket
<1>. QED BY <1>5, TakeTicketTyped DEF create_operation_on_ticket

\* The stored tickets have their type.
LEMMA TicketStateTyped == ASSUME TypeOK PROVE TicketsOK(TicketState)
  BY DEF TypeOK, TicketsOK, TicketState

\* handle_operation keeps the type of the tickets, whatever the result.
LEMMA HandledTyped ==
  ASSUME TypeOK, NEW operation, NEW result, NEW operationResult, NEW ticket \in Nat \cup {None},
         operation.operation_type.type = "AllocateTickets" /\ result = "Accepted"
           => operationResult.tickets \in Seq(Nat)
  PROVE  TicketsOK(TicketsHandled(operation, result, operationResult, ticket))
<1> DEFINE confirmed == IF operation.operation_type.type = "AllocateTickets"
                        THEN handle_ticket_allocation_confirmation(TicketState,
                               operationResult.tickets, result)
                        ELSE TicketState
<1>1. TicketsOK(TicketState)
  BY TicketStateTyped
<1>2. TicketsOK(confirmed)
  <2> DEFINE ts == TicketState
             new == operationResult.tickets
  <2>1. ts \in [available : Seq(Nat), used : Nat, updating : BOOLEAN]
    BY <1>1 DEF TicketsOK
  <2>2. [ts EXCEPT !.updating = FALSE] \in [available : Seq(Nat), used : Nat, updating : BOOLEAN]
    BY <2>1
  <2>3. ASSUME new \in Seq(Nat)
        PROVE  /\ ts.available \o new \in Seq(Nat)
               /\ saturating_sub(ts.used, Len(new)) \in Nat
    BY <2>1, <2>3 DEF saturating_sub
  <2> HIDE DEF ts, new
  <2>. QED BY <2>1, <2>2, <2>3 DEF TicketsOK, handle_ticket_allocation_confirmation, ts, new
<1>3. ASSUME ticket \in Nat
      PROVE  TicketsOK(return_ticket(confirmed, ticket))
  <2> HIDE DEF confirmed
  <2>1. <<ticket>> \o confirmed.available \in Seq(Nat)
    BY <1>2, <1>3 DEF TicketsOK
  <2>. QED BY <1>2, <2>1 DEF TicketsOK, return_ticket
<1>. QED BY <1>2, <1>3 DEF TicketsHandled

\* Saving a well-typed ticket state keeps the types of its items.
LEMMA SetTyped ==
  ASSUME NEW tickets, TicketsOK(tickets), SetTicketState(tickets)
  PROVE  availableTickets' \in Seq(Nat) /\ usedTickets' \in Nat /\ pendingTicketUpdate' \in BOOLEAN
  BY DEF TicketsOK, SetTicketState

\* register_used_ticket keeps the types of queue and tickets.
LEMMA RegisterTyped ==
  ASSUME TypeOK, NEW tickets, TicketsOK(tickets), NEW operations, OperationsOK(operations),
         register_used_ticket(tickets, operations)
  PROVE  /\ availableTickets' \in Seq(Nat)
         /\ usedTickets' \in Nat
         /\ pendingTicketUpdate' \in BOOLEAN
         /\ OperationsOK(pendingOperations')
<1>1. CASE TriggersAllocation(tickets)
  <2>1. Head(tickets.available) \in Nat /\ Tail(tickets.available) \in Seq(Nat)
    BY <1>1 DEF TriggersAllocation, TicketsOK
  <2>2. AllocationType \in OperationType
    <3>1. config.used_ticket_sequence_threshold \in Nat
      BY DEF TypeOK
    <3>. QED BY <3>1 DEF AllocationType, OperationType
  <2>3. OperationKey(Head(tickets.available), None) \in Nat
    BY <2>1, IdentityAssumption DEF OperationKey
  <2>4. OperationsOK(pendingOperations')
    BY <1>1, <2>1, <2>2, <2>3, CreateTyped DEF register_used_ticket
  <2>5. tickets.used + 1 \in Nat
    BY DEF TicketsOK
  <2>6. /\ availableTickets' = Tail(tickets.available)
        /\ usedTickets' = tickets.used + 1
        /\ pendingTicketUpdate' = TRUE
    BY <1>1 DEF register_used_ticket, SetTicketState
  <2>. QED BY <2>1, <2>4, <2>5, <2>6
<1>2. CASE ~TriggersAllocation(tickets)
  BY <1>2 DEF register_used_ticket, SetTicketState, TicketsOK
<1>. QED BY <1>1, <1>2

\* The facts about an evidence that confirms an operation
LEMMA ResultTyped ==
  ASSUME TypeOK, NEW e \in Evidence, ResultAllowed(e), validate_basic(e)
  PROVE  /\ e \in ResultEvidence
         /\ ResultKey(e) \in DOMAIN pendingOperations
         /\ ResultKey(e) \in Nat
         /\ pendingOperations[ResultKey(e)] \in Operation
         /\ e.transaction_result \in TransactionResult
         /\ e.ticket_sequence \in Nat \cup {None}
         /\ e.transaction_result = "Accepted" /\ e.operation_result # None
              => e.operation_result.tickets \in Seq(Nat)
<1>1. e.kind = "XRPLTransactionResult"
  BY DEF ResultAllowed
<1>2. e \in ResultEvidence
  BY <1>1 DEF Evidence, TransferEvidence, ResultEvidence
<1>3. e.operation_result \in {None} \cup [tickets : {None} \cup Seq(Nat)]
  BY <1>2 DEF ResultEvidence
<1>4. e.transaction_result = "Accepted" /\ e.operation_result # None
        => e.operation_result.tickets # None
  BY <1>1 DEF validate_basic
<1>5. ResultKey(e) \in DOMAIN pendingOperations
  BY DEF ResultAllowed
<1>6. ResultKey(e) \in Nat /\ pendingOperations[ResultKey(e)] \in Operation
  BY <1>5 DEF TypeOK
<1>. QED BY <1>2, <1>3, <1>4, <1>5, <1>6 DEF ResultEvidence

\* The stored hash of an evidence is a hash.
LEMMA HashTyped ==
  ASSUME NEW e \in Evidence, validate_basic(e), processedTxs \subseteq TxHash
  PROVE  processedWith(e) \subseteq TxHash
<1>1. CASE is_operation_valid(e)
  <2>1. e.tx_hash \in TxHash
    BY <1>1 DEF Evidence, TransferEvidence, ResultEvidence, is_operation_valid, validate_basic
  <2>. QED BY <2>1, IdentityAssumption DEF processedWith, get_tx_hash
<1>. QED BY <1>1 DEF processedWith

\* The type of what handle_operation assigns
LEMMA HandleOperationTyped ==
  ASSUME TypeOK, NEW operation \in Operation, NEW result, NEW operationResult,
         NEW evidences, DOMAIN evidences \subseteq Evidence,
         evidences \in [DOMAIN evidences -> SUBSET Addr],
         handle_operation(operation, result, operationResult, evidences)
  PROVE  /\ config' \in [relayers : SUBSET Relayer, evidence_threshold : Nat,
                         used_ticket_sequence_threshold : Nat,
                         bridge_state : {"Active", "Halted"}, xrpl_base_fee : Nat]
         /\ pendingRotateKeys' \in BOOLEAN
         /\ DOMAIN txEvidences' \subseteq Evidence
         /\ txEvidences' \in [DOMAIN txEvidences' -> SUBSET Addr]
         /\ DOMAIN xrplTokens' \subseteq Token
         /\ xrplTokens' \in [DOMAIN xrplTokens' -> TokenState]
         /\ DOMAIN pendingRefunds' \subseteq Addr \X (Nat \X Nat)
         /\ pendingRefunds' \in [DOMAIN pendingRefunds' -> [token : Token, amount : Amount]]
<1> DEFINE op == operation.operation_type
<1>1. op \in OperationType /\ operation.id \in Nat \X Nat
  BY DEF Operation
<1>2. op.type = "RotateKeys" => /\ op.new_relayers \in SUBSET Relayer
                                /\ op.new_evidence_threshold \in Nat
  BY <1>1 DEF OperationType
<1>3. op.type = "CosmosToXRPLTransfer" =>
        op.token \in Token /\ op.amount \in Amount /\ op.sender \in Addr
  BY <1>1 DEF OperationType
<1> HIDE DEF op
<1>4. handle_rotate_keys_confirmation(op, result, evidences)
  BY DEF handle_operation, op
<1>5. /\ config' \in [relayers : SUBSET Relayer, evidence_threshold : Nat,
                      used_ticket_sequence_threshold : Nat,
                      bridge_state : {"Active", "Halted"}, xrpl_base_fee : Nat]
      /\ pendingRotateKeys' \in BOOLEAN
  BY <1>2, <1>4 DEF handle_rotate_keys_confirmation, TypeOK
<1>6. /\ DOMAIN txEvidences' \subseteq Evidence
      /\ txEvidences' \in [DOMAIN txEvidences' -> SUBSET Addr]
  BY <1>4 DEF handle_rotate_keys_confirmation
<1>7. /\ DOMAIN xrplTokens' \subseteq Token
      /\ xrplTokens' \in [DOMAIN xrplTokens' -> TokenState]
  <2>1. handle_trust_set_confirmation(op, result)
    BY DEF handle_operation, op
  <2>. QED BY <2>1 DEF handle_trust_set_confirmation, TypeOK, TokenState
<1>8. /\ DOMAIN pendingRefunds' \subseteq Addr \X (Nat \X Nat)
      /\ pendingRefunds' \in [DOMAIN pendingRefunds' -> [token : Token, amount : Amount]]
  <2>1. handle_cosmos_to_xrpl_transfer_confirmation(operation, result)
    BY DEF handle_operation
  <2>2. CASE op.type = "CosmosToXRPLTransfer" /\ result # "Accepted"
    <3>1. pendingRefunds' = Put(pendingRefunds, <<op.sender, operation.id>>,
                                [token |-> op.token, amount |-> op.amount])
      BY <2>1, <2>2 DEF handle_cosmos_to_xrpl_transfer_confirmation, op
    <3>2. <<op.sender, operation.id>> \in Addr \X (Nat \X Nat)
      BY <1>1, <1>3, <2>2
    <3>3. [token |-> op.token, amount |-> op.amount] \in [token : Token, amount : Amount]
      BY <1>3, <2>2
    <3>. QED BY <3>1, <3>2, <3>3 DEF Put, TypeOK
  <2>3. CASE ~ (op.type = "CosmosToXRPLTransfer" /\ result # "Accepted")
    BY <2>1, <2>3 DEF handle_cosmos_to_xrpl_transfer_confirmation, op, TypeOK
  <2>. QED BY <2>2, <2>3
<1>. QED BY <1>5, <1>6, <1>7, <1>8

-----------------------------------------------------------------------------
\* The type invariant

\* instantiate stores well-typed items.
LEMMA TypeInit == Init => TypeOK
<1> SUFFICES ASSUME Init PROVE TypeOK
  OBVIOUS
<1>1. config \in [relayers : SUBSET Relayer, evidence_threshold : Nat,
                  used_ticket_sequence_threshold : Nat,
                  bridge_state : {"Active", "Halted"}, xrpl_base_fee : Nat]
  BY InstantiateAssumption, BoundAssumption DEF Init
<1>2. xrplTokens \in [DOMAIN xrplTokens -> TokenState] /\ DOMAIN xrplTokens \subseteq Token
  BY IdentityAssumption DEF Init, TokenState
<1>3. cosmosTokens \in [DOMAIN cosmosTokens -> TokenState] /\ DOMAIN cosmosTokens \subseteq CosmosDenom
  BY DEF Init
<1>4. prohibited \subseteq XRPLAddress
  BY IdentityAssumption, InstantiateAssumption DEF Init
<1>5. /\ DOMAIN pendingOperations \subseteq Nat
      /\ pendingOperations \in [DOMAIN pendingOperations -> Operation]
  BY DEF Init
<1>6. /\ DOMAIN txEvidences \subseteq Evidence
      /\ txEvidences \in [DOMAIN txEvidences -> SUBSET Addr]
  BY DEF Init
<1>7. /\ DOMAIN pendingRefunds \subseteq Addr \X (Nat \X Nat)
      /\ pendingRefunds \in [DOMAIN pendingRefunds -> [token : Token, amount : Amount]]
  BY DEF Init
<1>8. availableTickets \in Seq(Nat) /\ usedTickets \in Nat /\ now \in Nat
  BY DEF Init
<1>9. pendingTicketUpdate \in BOOLEAN /\ pendingRotateKeys \in BOOLEAN
  BY DEF Init
<1>10. processedTxs \subseteq TxHash
  BY DEF Init
<1>. QED BY <1>1, <1>2, <1>3, <1>4, <1>5, <1>6, <1>7, <1>8, <1>9, <1>10 DEF TypeOK

\* SaveEvidence keeps the types, for each of its three outcomes.
LEMMA TypeEvidence ==
  ASSUME TypeOK, NEW sender \in Addr, NEW e \in Evidence,
         \/ RecordEvidence(sender, e)
         \/ ConfirmTransfer(sender, e)
         \/ ConfirmOperation(sender, e)
  PROVE  TypeOK'
<1>1. e \in Evidence
  OBVIOUS
<1>2. CASE RecordEvidence(sender, e)
  <2>1. Votes(e) \cup {sender} \in SUBSET Addr
    BY DEF Votes, TypeOK
  <2>. QED BY <1>1, <1>2, <2>1 DEF RecordEvidence, TypeOK, Put, ticketVars, tokenVars
<1>3. CASE ConfirmTransfer(sender, e)
  <2>1. processedTxs' \subseteq TxHash
    BY <1>1, <1>3, HashTyped DEF ConfirmTransfer, EvidenceAccepted, TypeOK
  <2>. QED BY <1>3, <2>1 DEF ConfirmTransfer, TypeOK, Without, Restrict, ticketVars, tokenVars
<1>4. CASE ConfirmOperation(sender, e)
  <2> DEFINE key == ResultKey(e)
             operation == pendingOperations[key]
             tickets == TicketsHandled(operation, e.transaction_result, e.operation_result,
                                       e.ticket_sequence)
             remaining == Without(pendingOperations, key)
             evidences == Without(txEvidences, e)
  <2>1. validate_basic(e) /\ ResultAllowed(e)
    BY <1>4 DEF ConfirmOperation, EvidenceAccepted
  <2>2. /\ operation \in Operation
        /\ e.ticket_sequence \in Nat \cup {None}
        /\ e.transaction_result = "Accepted" /\ e.operation_result # None
              => e.operation_result.tickets \in Seq(Nat)
    BY <1>1, <2>1, ResultTyped
  <2>3. processedTxs' \subseteq TxHash
    BY <1>1, <1>4, <2>1, HashTyped DEF ConfirmOperation, TypeOK
  <2>4. DOMAIN evidences \subseteq Evidence /\ evidences \in [DOMAIN evidences -> SUBSET Addr]
    BY DEF TypeOK, Without, Restrict
  <2>5. OperationsOK(remaining)
    BY DEF TypeOK, Without, Restrict, OperationsOK
  <2>6. handle_operation(operation, e.transaction_result, e.operation_result, evidences)
    BY <1>4 DEF ConfirmOperation
  <2>7. operation.operation_type.type = "AllocateTickets" => e.operation_result # None
    BY <2>6 DEF handle_operation
  <2>8. TicketsOK(tickets)
    BY <2>2, <2>7, HandledTyped
  <2> HIDE DEF tickets, remaining, evidences, operation, key
  <2>9. /\ availableTickets' \in Seq(Nat) /\ usedTickets' \in Nat
        /\ pendingTicketUpdate' \in BOOLEAN /\ OperationsOK(pendingOperations')
    <3>1. CASE register_used_ticket(tickets, remaining)
      BY <2>5, <2>8, <3>1, RegisterTyped
    <3>2. CASE SetTicketState(tickets) /\ pendingOperations' = remaining
      BY <2>5, <2>8, <3>2, SetTyped
    <3>. QED BY <1>4, <3>1, <3>2 DEF ConfirmOperation, tickets, remaining, operation, key
  <2>10. UNCHANGED <<cosmosTokens, prohibited, now>>
    BY <1>4 DEF ConfirmOperation
  <2>. QED BY <2>2, <2>3, <2>4, <2>6, <2>9, <2>10, HandleOperationTyped DEF TypeOK, OperationsOK
<1>. QED BY <1>2, <1>3, <1>4

\* CancelPendingOperation keeps the types.
LEMMA TypeCancel ==
  ASSUME TypeOK, NEW sender, NEW key, CancelPendingOperation(sender, key)
  PROVE  TypeOK'
<1> DEFINE operation == pendingOperations[key]
           operationResult == IF operation.operation_type.type = "AllocateTickets"
                              THEN [tickets |-> None] ELSE None
           tickets == TicketsHandled(operation, "Invalid", operationResult,
                                     operation.ticket_sequence)
<1>1. operation \in Operation
  BY DEF CancelPendingOperation, TypeOK
<1>2. operation.ticket_sequence \in Nat \cup {None}
  BY <1>1 DEF Operation
<1>3. DOMAIN txEvidences \subseteq Evidence /\ txEvidences \in [DOMAIN txEvidences -> SUBSET Addr]
  BY DEF TypeOK
<1>4. handle_operation(operation, "Invalid", operationResult, txEvidences)
  BY DEF CancelPendingOperation
<1>5. OperationsOK(pendingOperations')
  BY DEF CancelPendingOperation, TypeOK, Without, Restrict, OperationsOK
<1>6. SetTicketState(tickets) /\ UNCHANGED <<processedTxs, cosmosTokens, prohibited, now>>
  BY DEF CancelPendingOperation
<1> HIDE DEF operation, operationResult
<1>7. TicketsOK(tickets)
  BY <1>2, HandledTyped
<1> HIDE DEF tickets
<1>8. availableTickets' \in Seq(Nat) /\ usedTickets' \in Nat /\ pendingTicketUpdate' \in BOOLEAN
  BY <1>6, <1>7, SetTyped
<1>. QED BY <1>1, <1>3, <1>4, <1>5, <1>6, <1>8, HandleOperationTyped DEF TypeOK, OperationsOK

\* RegisterCosmosToken keeps the types.
LEMMA TypeCosmosRegistration ==
  ASSUME TypeOK, NEW sender, NEW denom \in CosmosDenom, RegisterCosmosToken(sender, denom)
  PROVE  TypeOK'
  BY DEF RegisterCosmosToken, TypeOK, TokenState, Put, ticketVars, evidenceVars

\* The two messages that start a TrustSet operation keep the types.
LEMMA TypeTrustSet ==
  ASSUME TypeOK, NEW token \in Token, StartTrustSet(token)
  PROVE  TypeOK'
<1>1. [type |-> "TrustSet", token |-> token] \in OperationType
  BY DEF OperationType
<1>2. /\ availableTickets' \in Seq(Nat) /\ usedTickets' \in Nat
      /\ pendingTicketUpdate' \in BOOLEAN /\ OperationsOK(pendingOperations')
  BY <1>1, CreateOnTicketTyped DEF StartTrustSet
<1>. QED BY <1>2 DEF StartTrustSet, TypeOK, OperationsOK, TokenState, Put, evidenceVars

\* UpdateXRPLToken and UpdateCosmosToken keep the types.
LEMMA TypeUpdateToken ==
  ASSUME TypeOK, NEW sender, NEW item, NEW target \in TokenState,
         UpdateXRPLToken(sender, item, target) \/ UpdateCosmosToken(sender, item, target)
  PROVE  TypeOK'
<1>1. CASE UpdateXRPLToken(sender, item, target)
  BY <1>1 DEF UpdateXRPLToken, TypeOK, Put, ticketVars, evidenceVars
<1>2. CASE UpdateCosmosToken(sender, item, target)
  BY <1>2 DEF UpdateCosmosToken, TypeOK, Put, ticketVars, evidenceVars
<1>. QED BY <1>1, <1>2

\* SendToXRPL keeps the types.
LEMMA TypeSend ==
  ASSUME TypeOK, NEW send \in SendInputs, SendToXRPL(send)
  PROVE  TypeOK'
<1>1. send \in [sender : Addr, token : Token, amount : Amount, recipient : XRPLAddress]
  BY InputAssumption
<1>2. Transfer(send) \in OperationType
  BY <1>1 DEF Transfer, OperationType
<1>3. /\ availableTickets' \in Seq(Nat) /\ usedTickets' \in Nat
      /\ pendingTicketUpdate' \in BOOLEAN /\ OperationsOK(pendingOperations')
  BY <1>2, CreateOnTicketTyped DEF SendToXRPL
<1>. QED BY <1>3 DEF SendToXRPL, TypeOK, OperationsOK, evidenceVars, tokenVars

\* ClaimRefund keeps the types.
LEMMA TypeClaim ==
  ASSUME TypeOK, NEW sender, NEW id, ClaimRefund(sender, id)
  PROVE  TypeOK'
  BY DEF ClaimRefund, TypeOK, Without, Restrict, ticketVars, evidenceVars, tokenVars

\* SaveSignature keeps the types.
LEMMA TypeSignature ==
  ASSUME TypeOK, NEW sender \in Addr, NEW key, NEW version, SaveSignature(sender, key, version)
  PROVE  TypeOK'
<1> DEFINE operation == pendingOperations[key]
           new == operation.signatures \cup {[relayer |-> sender, version |-> version]}
<1>1. key \in DOMAIN pendingOperations /\ operation \in Operation
  BY DEF SaveSignature, TypeOK
<1>2. version \in Nat
  BY <1>1 DEF SaveSignature, Operation
<1>3. new \in SUBSET [relayer : Addr, version : Nat]
  BY <1>1, <1>2 DEF Operation
<1>4. [operation EXCEPT !.signatures = new] \in Operation
  BY <1>1, <1>3 DEF Operation
<1>5. pendingOperations' = [pendingOperations EXCEPT ![key] = [operation EXCEPT !.signatures = new]]
  BY DEF SaveSignature
<1> HIDE DEF operation, new
<1>6. OperationsOK(pendingOperations')
  BY <1>1, <1>4, <1>5 DEF OperationsOK, TypeOK
<1>. QED BY <1>6 DEF SaveSignature, TypeOK, OperationsOK, ticketVars, evidenceVars, tokenVars

\* RecoverTickets keeps the types.
LEMMA TypeRecoverTickets ==
  ASSUME TypeOK, NEW sender, NEW account \in Nat, NEW number \in Nat \cup {None},
         RecoverTickets(sender, account, number)
  PROVE  TypeOK'
<1> DEFINE n == IF number = None THEN usedTickets ELSE number
           operationType == [type |-> "AllocateTickets", number |-> n]
<1>1. n \in Nat /\ account \in Nat
  BY DEF TypeOK
<1>2. operationType \in OperationType
  BY <1>1 DEF OperationType
<1>3. OperationKey(None, account) \in Nat
  BY <1>1 DEF OperationKey
<1>4. pendingOperations' = create_pending_operation(pendingOperations, None, account, operationType)
  BY DEF RecoverTickets
<1> HIDE DEF operationType, n
<1>5. OperationsOK(pendingOperations')
  BY <1>1, <1>2, <1>3, <1>4, CreateTyped DEF OperationsOK, TypeOK
<1>. QED BY <1>5 DEF RecoverTickets, TypeOK, OperationsOK, evidenceVars, tokenVars

\* UpdateXRPLBaseFee keeps the types.
LEMMA TypeBaseFee ==
  ASSUME TypeOK, NEW sender, NEW fee \in Nat, UpdateXRPLBaseFee(sender, fee)
  PROVE  TypeOK'
<1>1. fee \in Nat
  OBVIOUS
<1>2. ASSUME NEW key \in DOMAIN pendingOperations
      PROVE  [pendingOperations[key] EXCEPT !.version = @ + 1, !.signatures = {},
                                            !.xrpl_base_fee = fee] \in Operation
  <2>1. pendingOperations[key] \in Operation
    BY DEF TypeOK
  <2>2. pendingOperations[key].version + 1 \in Nat
    BY <2>1 DEF Operation
  <2>. QED BY <1>1, <2>1, <2>2 DEF Operation
<1>3. OperationsOK(pendingOperations')
  BY <1>2 DEF UpdateXRPLBaseFee, OperationsOK, TypeOK
<1>4. config' \in [relayers : SUBSET Relayer, evidence_threshold : Nat,
                   used_ticket_sequence_threshold : Nat,
                   bridge_state : {"Active", "Halted"}, xrpl_base_fee : Nat]
  BY <1>1 DEF UpdateXRPLBaseFee, TypeOK
<1>. QED BY <1>3, <1>4 DEF UpdateXRPLBaseFee, TypeOK, OperationsOK, ticketVars, evidenceVars,
                           tokenVars

\* RotateKeys keeps the types.
LEMMA TypeRotate ==
  ASSUME TypeOK, NEW sender, NEW rotation \in Rotations, RotateKeys(sender, rotation)
  PROVE  TypeOK'
<1>1. [type |-> "RotateKeys", new_relayers |-> rotation.new_relayers,
       new_evidence_threshold |-> rotation.new_evidence_threshold] \in OperationType
  BY InputAssumption DEF OperationType
<1>2. /\ availableTickets' \in Seq(Nat) /\ usedTickets' \in Nat
      /\ pendingTicketUpdate' \in BOOLEAN /\ OperationsOK(pendingOperations')
  BY <1>1, CreateOnTicketTyped DEF RotateKeys
<1>. QED BY <1>2 DEF RotateKeys, TypeOK, OperationsOK, evidenceVars, tokenVars

\* Every message keeps the types.
LEMMA TypeStep == TypeOK /\ [Next]_vars => TypeOK'
<1> SUFFICES ASSUME TypeOK, [Next]_vars PROVE TypeOK'
  OBVIOUS
<1>1. CASE UNCHANGED vars
  BY <1>1 DEF vars, TypeOK, ticketVars, evidenceVars, tokenVars
<1>2. CASE Tick
  BY <1>2 DEF Tick, TypeOK, ticketVars, evidenceVars, tokenVars
<1>3. ASSUME NEW sender \in Addr, RelayerNext(sender) PROVE TypeOK'
  BY <1>3, TypeEvidence, TypeSignature, InputAssumption DEF RelayerNext, SignNext
<1>4. ASSUME NEW sender \in Addr, UserNext(sender) PROVE TypeOK'
  BY <1>4, TypeSend, TypeClaim DEF UserNext
<1>5. ASSUME NEW sender \in Addr, AdminNext(sender) PROVE TypeOK'
  <2>1. CASE \E key \in DOMAIN pendingOperations : CancelPendingOperation(sender, key)
    BY <2>1, TypeCancel
  <2>2. CASE \E denom \in CosmosDenom : RegisterCosmosToken(sender, denom)
    BY <2>2, TypeCosmosRegistration
  <2>3. CASE \E token \in RegisterableTokens :
               \/ RegisterXRPLToken(sender, token)
               \/ RecoverXRPLTokenRegistration(sender, token)
    BY <2>3, TypeTrustSet, InputAssumption DEF RegisterXRPLToken, RecoverXRPLTokenRegistration
  <2>4. CASE \E token \in DOMAIN xrplTokens, target \in TokenState :
               UpdateXRPLToken(sender, token, target)
    BY <2>4, TypeUpdateToken
  <2>5. CASE \E denom \in DOMAIN cosmosTokens, target \in TokenState :
               UpdateCosmosToken(sender, denom, target)
    BY <2>5, TypeUpdateToken
  <2>6. CASE \E account \in AccountSequences, number \in TicketNumbers :
               RecoverTickets(sender, account, number)
    BY <2>6, TypeRecoverTickets, InputAssumption
  <2>7. CASE \E fee \in BaseFees : UpdateXRPLBaseFee(sender, fee)
    BY <2>7, TypeBaseFee, InputAssumption
  <2>8. CASE \E threshold \in UsedTicketThresholds :
               UpdateUsedTicketSequenceThreshold(sender, threshold)
    BY <2>8, InputAssumption
       DEF UpdateUsedTicketSequenceThreshold, TypeOK, ticketVars, evidenceVars, tokenVars
  <2>9. CASE HaltBridge(sender) \/ ResumeBridge(sender)
    BY <2>9 DEF HaltBridge, ResumeBridge, TypeOK, ticketVars, evidenceVars, tokenVars
  <2>10. CASE \E rotation \in Rotations : RotateKeys(sender, rotation)
    BY <2>10, TypeRotate
  <2>11. CASE \E addresses \in ProhibitedInputs : UpdateProhibitedXRPLAddresses(sender, addresses)
    BY <2>11, InputAssumption, IdentityAssumption
       DEF UpdateProhibitedXRPLAddresses, TypeOK, ticketVars, evidenceVars, tokenVars
  <2>. QED BY <1>5, <2>1, <2>2, <2>3, <2>4, <2>5, <2>6, <2>7, <2>8, <2>9, <2>10, <2>11
           DEF AdminNext, ControlNext
<1>. QED BY <1>1, <1>2, <1>3, <1>4, <1>5 DEF Next

\* Every stored item keeps its type, whatever messages arrive in whatever order.
THEOREM TypeCorrect == Spec => []TypeOK
  BY TypeInit, TypeStep, PTL DEF Spec

-----------------------------------------------------------------------------
\* How a message changes the queue of operations: it starts one on the next
\* ticket, or settles one and perhaps starts a ticket allocation.

Fresh(operation, operationType) ==
  /\ operation.operation_type = operationType
  /\ operation.signatures = {}
  /\ operation.xrpl_base_fee = config.xrpl_base_fee

Started(operationType) ==
  \E key \in Nat :
    /\ key \notin DOMAIN pendingOperations
    /\ DOMAIN pendingOperations' = DOMAIN pendingOperations \cup {key}
    /\ Fresh(pendingOperations'[key], operationType)
    /\ \A i \in DOMAIN pendingOperations : pendingOperations'[i] = pendingOperations[i]

Settled(key) ==
  LET rest == DOMAIN pendingOperations \ {key}
      allocation == pendingOperations[key].operation_type.type = "AllocateTickets"
  IN /\ key \in DOMAIN pendingOperations
     /\ \A i \in rest : pendingOperations'[i] = pendingOperations[i]
     /\ \/ /\ DOMAIN pendingOperations' = rest
           /\ pendingTicketUpdate' <=> pendingTicketUpdate /\ ~allocation
        \/ \E k : /\ k \notin rest
                  /\ DOMAIN pendingOperations' = rest \cup {k}
                  /\ Fresh(pendingOperations'[k], AllocationType)
                  /\ pendingTicketUpdate'
                  /\ allocation \/ ~pendingTicketUpdate

\* Taking a ticket for an operation adds that operation and nothing else.
LEMMA StartEffect ==
  ASSUME TypeOK, NEW operationType, NEW bridgeState, NEW rotating,
         create_operation_on_ticket(operationType, bridgeState, rotating)
  PROVE  /\ Started(operationType)
         /\ check_valid_operation_if_halt(operationType, bridgeState, rotating)
         /\ UNCHANGED <<usedTickets, pendingTicketUpdate>>
<1> DEFINE key == Head(availableTickets)
<1>1. key \in Nat
  BY TakeTicketTyped DEF create_operation_on_ticket
<1>2. OperationKey(key, None) = key
  BY <1>1, IdentityAssumption DEF OperationKey
<1>3. /\ key \notin DOMAIN pendingOperations
      /\ check_valid_operation_if_halt(operationType, bridgeState, rotating)
      /\ pendingOperations' = create_pending_operation(pendingOperations, key, None, operationType)
      /\ UNCHANGED <<usedTickets, pendingTicketUpdate>>
  BY DEF create_operation_on_ticket, may_create_operation, allocate_ticket
<1> HIDE DEF key
<1>4. /\ DOMAIN pendingOperations' = DOMAIN pendingOperations \cup {key}
      /\ Fresh(pendingOperations'[key], operationType)
      /\ \A i \in DOMAIN pendingOperations : pendingOperations'[i] = pendingOperations[i]
  BY <1>2, <1>3 DEF create_pending_operation, Put, Fresh
<1>. QED BY <1>1, <1>3, <1>4 DEF Started

\* Settling keeps the flag of the ticket update unless it settles an allocation.
LEMMA HandledUpdating ==
  ASSUME TypeOK, NEW operation, NEW result, NEW operationResult, NEW ticket
  PROVE  TicketsHandled(operation, result, operationResult, ticket).updating
           = (IF operation.operation_type.type = "AllocateTickets"
              THEN FALSE ELSE pendingTicketUpdate)
<1> DEFINE ts == TicketState
<1>1. ts = [available |-> availableTickets, used |-> usedTickets,
            updating |-> pendingTicketUpdate]
  BY DEF TicketState
<1>2. handle_ticket_allocation_confirmation(ts, operationResult.tickets, result).updating = FALSE
  BY <1>1 DEF handle_ticket_allocation_confirmation
<1>3. ASSUME NEW t, NEW n, DOMAIN t = {"available", "used", "updating"}
      PROVE  return_ticket(t, n).updating = t.updating
  BY <1>3 DEF return_ticket
<1>4. /\ DOMAIN ts = {"available", "used", "updating"}
      /\ DOMAIN handle_ticket_allocation_confirmation(ts, operationResult.tickets, result)
           = {"available", "used", "updating"}
      /\ ts.updating = pendingTicketUpdate
  BY <1>1 DEF handle_ticket_allocation_confirmation
<1> HIDE DEF ts
<1>. QED BY <1>2, <1>3, <1>4 DEF TicketsHandled, ts

\* CancelPendingOperation settles the operation it names.
LEMMA CancelEffect ==
  ASSUME TypeOK, NEW sender, NEW key, CancelPendingOperation(sender, key)
  PROVE  Settled(key)
<1> DEFINE operation == pendingOperations[key]
           operationResult == IF operation.operation_type.type = "AllocateTickets"
                              THEN [tickets |-> None] ELSE None
           tickets == TicketsHandled(operation, "Invalid", operationResult,
                                     operation.ticket_sequence)
<1>1. /\ key \in DOMAIN pendingOperations
      /\ pendingOperations' = Without(pendingOperations, key)
      /\ pendingTicketUpdate' = tickets.updating
  BY DEF CancelPendingOperation, SetTicketState
<1> HIDE DEF operation, operationResult
<1>2. tickets.updating = (IF operation.operation_type.type = "AllocateTickets"
                          THEN FALSE ELSE pendingTicketUpdate)
  BY HandledUpdating
<1>3. pendingTicketUpdate \in BOOLEAN
  BY DEF TypeOK
<1> HIDE DEF tickets
<1>. QED BY <1>1, <1>2, <1>3, WithoutEntries DEF Settled, operation

\* A confirmed result settles the operation that it names.
LEMMA ConfirmEffect ==
  ASSUME TypeOK, NEW sender, NEW e \in Evidence, ConfirmOperation(sender, e)
  PROVE  Settled(ResultKey(e))
<1> DEFINE key == ResultKey(e)
           operation == pendingOperations[key]
           allocation == operation.operation_type.type = "AllocateTickets"
           tickets == TicketsHandled(operation, e.transaction_result, e.operation_result,
                                     e.ticket_sequence)
           remaining == Without(pendingOperations, key)
<1>1. key \in DOMAIN pendingOperations
  BY DEF ConfirmOperation, ResultAllowed
<1>2. tickets.updating = (IF allocation THEN FALSE ELSE pendingTicketUpdate)
  BY HandledUpdating
<1>3. pendingTicketUpdate \in BOOLEAN
  BY DEF TypeOK
<1>4. /\ DOMAIN remaining = DOMAIN pendingOperations \ {key}
      /\ \A i \in DOMAIN pendingOperations \ {key} : remaining[i] = pendingOperations[i]
  BY WithoutEntries
<1>5. \/ register_used_ticket(tickets, remaining)
      \/ SetTicketState(tickets) /\ pendingOperations' = remaining
  BY DEF ConfirmOperation
<1>6. TicketsOK(tickets)
  <2>1. validate_basic(e) /\ ResultAllowed(e)
    BY DEF ConfirmOperation, EvidenceAccepted
  <2>2. allocation => e.operation_result # None
    BY DEF ConfirmOperation, handle_operation
  <2>3. /\ e.ticket_sequence \in Nat \cup {None}
        /\ e.transaction_result = "Accepted" /\ e.operation_result # None
             => e.operation_result.tickets \in Seq(Nat)
    BY <2>1, ResultTyped
  <2>. QED BY <2>2, <2>3, HandledTyped
<1> HIDE DEF tickets, remaining
<1>7. CASE SetTicketState(tickets) /\ pendingOperations' = remaining
  BY <1>1, <1>2, <1>3, <1>4, <1>7 DEF Settled, SetTicketState
<1>8. CASE register_used_ticket(tickets, remaining)
  <2>1. CASE TriggersAllocation(tickets)
    <3> DEFINE k == Head(tickets.available)
    <3>1. k \in Nat
      BY <1>6, <2>1 DEF TicketsOK, TriggersAllocation
    <3>2. OperationKey(k, None) = k
      BY <3>1, IdentityAssumption DEF OperationKey
    <3>3. ~tickets.updating
      BY <2>1 DEF TriggersAllocation
    <3>4. /\ k \notin DOMAIN remaining
          /\ pendingOperations' = create_pending_operation(remaining, k, None, AllocationType)
          /\ pendingTicketUpdate' = TRUE
      BY <1>8, <2>1 DEF register_used_ticket, may_create_operation, SetTicketState
    <3> HIDE DEF k
    <3>5. /\ DOMAIN pendingOperations' = DOMAIN remaining \cup {k}
          /\ Fresh(pendingOperations'[k], AllocationType)
          /\ \A i \in DOMAIN remaining : pendingOperations'[i] = remaining[i]
      BY <3>2, <3>4 DEF create_pending_operation, Put, Fresh
    <3>. QED BY <1>1, <1>2, <1>3, <1>4, <3>3, <3>4, <3>5 DEF Settled
  <2>2. CASE ~TriggersAllocation(tickets)
    <3>1. pendingOperations' = remaining /\ pendingTicketUpdate' = tickets.updating
      BY <1>6, <1>8, <2>2 DEF register_used_ticket, SetTicketState, TicketsOK
    <3>. QED BY <1>1, <1>2, <1>3, <1>4, <3>1 DEF Settled
  <2>. QED BY <2>1, <2>2
<1>. QED BY <1>5, <1>7, <1>8

\* RecoverTickets starts an allocation when none is pending.
LEMMA RecoverEffect ==
  ASSUME TypeOK, NEW sender, NEW account \in Nat, NEW number,
         RecoverTickets(sender, account, number)
  PROVE  /\ ~pendingTicketUpdate /\ pendingTicketUpdate'
         /\ UNCHANGED <<config, pendingRotateKeys, evidenceVars, tokenVars>>
         /\ \E operationType : operationType.type = "AllocateTickets" /\ Started(operationType)
<1> DEFINE operationType == [type |-> "AllocateTickets",
                             number |-> IF number = None THEN usedTickets ELSE number]
<1>1. account \in Nat /\ OperationKey(None, account) = account
  BY DEF OperationKey
<1>2. /\ account \notin DOMAIN pendingOperations
      /\ pendingOperations' = create_pending_operation(pendingOperations, None, account,
                                                       operationType)
      /\ ~pendingTicketUpdate /\ pendingTicketUpdate'
      /\ UNCHANGED <<config, pendingRotateKeys, evidenceVars, tokenVars>>
  BY DEF RecoverTickets, may_create_operation
<1>3. operationType.type = "AllocateTickets"
  OBVIOUS
<1> HIDE DEF operationType
<1>4. Started(operationType)
  BY <1>1, <1>2 DEF Started, create_pending_operation, Put, Fresh
<1>. QED BY <1>2, <1>3, <1>4

\* The queue keeps its operations, up to their versions and signatures.
Kept ==
  /\ DOMAIN pendingOperations' = DOMAIN pendingOperations
  /\ \A key \in DOMAIN pendingOperations :
       pendingOperations'[key].operation_type = pendingOperations[key].operation_type

\* SaveSignature changes the signatures of one operation only.
LEMMA SignatureEffect ==
  ASSUME TypeOK, NEW sender \in Addr, NEW key, NEW version, SaveSignature(sender, key, version)
  PROVE  /\ key \in DOMAIN pendingOperations
         /\ version = pendingOperations[key].version
         /\ DOMAIN pendingOperations' = DOMAIN pendingOperations
         /\ \A i \in DOMAIN pendingOperations :
              i # key => pendingOperations'[i] = pendingOperations[i]
         /\ pendingOperations'[key] =
              [pendingOperations[key] EXCEPT !.signatures =
                 pendingOperations[key].signatures \cup {[relayer |-> sender, version |-> version]}]
  BY DEF SaveSignature, TypeOK

\* SaveSignature keeps the queue up to signatures.
LEMMA SignatureKept ==
  ASSUME TypeOK, NEW sender \in Addr, NEW key, NEW version, SaveSignature(sender, key, version)
  PROVE  Kept
<1>1. pendingOperations[key] \in Operation
  BY SignatureEffect DEF TypeOK
<1>2. pendingOperations'[key].operation_type = pendingOperations[key].operation_type
  <2> DEFINE operation == pendingOperations[key]
             signatures == operation.signatures \cup {[relayer |-> sender, version |-> version]}
  <2>1. pendingOperations'[key] = [operation EXCEPT !.signatures = signatures]
    BY SignatureEffect
  <2>2. operation \in Operation
    BY <1>1
  <2> HIDE DEF operation, signatures
  <2>3. [operation EXCEPT !.signatures = signatures].operation_type = operation.operation_type
    BY <2>2 DEF Operation
  <2>. QED BY <2>1, <2>3 DEF operation
<1>. QED BY <1>2, SignatureEffect DEF Kept

\* UpdateXRPLBaseFee keeps the queue up to versions, fees and signatures.
LEMMA BaseFeeKept ==
  ASSUME TypeOK, NEW sender, NEW fee, UpdateXRPLBaseFee(sender, fee)
  PROVE  Kept
<1>1. ASSUME NEW key \in DOMAIN pendingOperations
      PROVE  pendingOperations'[key].operation_type = pendingOperations[key].operation_type
  <2>1. pendingOperations[key] \in Operation
    BY DEF TypeOK
  <2>. QED BY <2>1 DEF UpdateXRPLBaseFee, Operation
<1>2. DOMAIN pendingOperations' = DOMAIN pendingOperations
  BY DEF UpdateXRPLBaseFee
<1>. QED BY <1>1, <1>2 DEF Kept

\* A message that leaves the operations, the flags, the XRPL tokens, the bridge
\* state and the relayers alone
Quiet ==
  /\ Kept
  /\ UNCHANGED <<pendingTicketUpdate, pendingRotateKeys, xrplTokens>>
  /\ config'.bridge_state = config.bridge_state
  /\ config'.relayers = config.relayers
  /\ config'.evidence_threshold = config.evidence_threshold

\* A token that RegisterXRPLToken or RecoverXRPLTokenRegistration accepts
Registrable(token) ==
  IF token \in DOMAIN xrplTokens THEN xrplTokens[token] = "Inactive"
                                 ELSE token[1] \notin prohibited

\* The cases that the invariants about the queue and the flags tell apart
LEMMA NextCases ==
  ASSUME TypeOK, [Next]_vars
  PROVE  \/ Quiet
         \/ \E sender \in Addr : HaltBridge(sender) \/ ResumeBridge(sender)
         \/ \E token \in Token : StartTrustSet(token) /\ Registrable(token)
         \/ \E sender \in Addr, token \in DOMAIN xrplTokens, target \in TokenState :
              UpdateXRPLToken(sender, token, target)
         \/ \E send \in SendInputs : SendToXRPL(send)
         \/ \E sender \in Addr, rotation \in Rotations : RotateKeys(sender, rotation)
         \/ \E sender \in Addr, account \in AccountSequences, number \in TicketNumbers :
              RecoverTickets(sender, account, number)
         \/ \E sender \in Addr, e \in EvidenceInputs : ConfirmOperation(sender, e)
         \/ \E sender \in Addr, key \in DOMAIN pendingOperations :
              CancelPendingOperation(sender, key)
<1>1. CASE UNCHANGED vars
  BY <1>1 DEF vars, Quiet, Kept, ticketVars, tokenVars
<1>2. CASE Tick
  BY <1>2 DEF Tick, Quiet, Kept, ticketVars, tokenVars
<1>3. ASSUME NEW sender \in Addr, RelayerNext(sender)
      PROVE  Quiet \/ \E e \in EvidenceInputs : ConfirmOperation(sender, e)
  <2>1. ASSUME NEW e, RecordEvidence(sender, e) \/ ConfirmTransfer(sender, e) PROVE Quiet
    BY <2>1 DEF RecordEvidence, ConfirmTransfer, Quiet, Kept, ticketVars, tokenVars
  <2>2. ASSUME NEW key, NEW version, SaveSignature(sender, key, version) PROVE Quiet
    BY <2>2, SignatureKept DEF SaveSignature, Quiet, ticketVars, tokenVars
  <2>. QED BY <1>3, <2>1, <2>2 DEF RelayerNext, SignNext
<1>4. ASSUME NEW sender \in Addr, UserNext(sender)
      PROVE  Quiet \/ \E send \in SendInputs : SendToXRPL(send)
  BY <1>4 DEF UserNext, ClaimRefund, Quiet, Kept, ticketVars, tokenVars
<1>5. ASSUME NEW sender \in Addr, AdminNext(sender)
      PROVE  \/ Quiet
             \/ HaltBridge(sender) \/ ResumeBridge(sender)
             \/ \E token \in Token : StartTrustSet(token) /\ Registrable(token)
             \/ \E token \in DOMAIN xrplTokens, target \in TokenState :
                  UpdateXRPLToken(sender, token, target)
             \/ \E rotation \in Rotations : RotateKeys(sender, rotation)
             \/ \E account \in AccountSequences, number \in TicketNumbers :
                  RecoverTickets(sender, account, number)
             \/ \E key \in DOMAIN pendingOperations : CancelPendingOperation(sender, key)
  <2>1. ASSUME NEW item, NEW target,
               \/ RegisterCosmosToken(sender, item)
               \/ UpdateCosmosToken(sender, item, target)
               \/ UpdateProhibitedXRPLAddresses(sender, item)
        PROVE  Quiet
    BY <2>1 DEF RegisterCosmosToken, UpdateCosmosToken, UpdateProhibitedXRPLAddresses,
                Quiet, Kept, ticketVars, tokenVars
  <2>2. ASSUME NEW threshold, UpdateUsedTicketSequenceThreshold(sender, threshold) PROVE Quiet
    BY <2>2 DEF UpdateUsedTicketSequenceThreshold, Quiet, Kept, TypeOK, ticketVars, tokenVars
  <2>3. ASSUME NEW fee, UpdateXRPLBaseFee(sender, fee) PROVE Quiet
    BY <2>3, BaseFeeKept DEF UpdateXRPLBaseFee, Quiet, TypeOK, ticketVars, tokenVars
  <2>4. ASSUME NEW token \in RegisterableTokens,
               \/ RegisterXRPLToken(sender, token)
               \/ RecoverXRPLTokenRegistration(sender, token)
        PROVE  token \in Token /\ StartTrustSet(token) /\ Registrable(token)
    BY <2>4, InputAssumption DEF RegisterXRPLToken, RecoverXRPLTokenRegistration, Registrable
  <2>. QED BY <1>5, <2>1, <2>2, <2>3, <2>4 DEF AdminNext, ControlNext
<1>. QED BY <1>1, <1>2, <1>3, <1>4, <1>5 DEF Next

-----------------------------------------------------------------------------
\* The flag of the ticket update

\* Keeping the operations keeps the flag, and so does starting another operation.
LEMMA TicketFlagKept ==
  ASSUME TicketUpdateFlag, Kept, UNCHANGED pendingTicketUpdate
  PROVE  TicketUpdateFlag'
  BY DEF TicketUpdateFlag, PendingOfType, Kept

LEMMA TicketFlagStarted ==
  ASSUME TicketUpdateFlag, NEW operationType, Started(operationType),
         UNCHANGED pendingTicketUpdate, operationType.type # "AllocateTickets"
  PROVE  TicketUpdateFlag'
  BY DEF TicketUpdateFlag, PendingOfType, Started, Fresh

\* An allocation is started with the flag.
LEMMA TicketFlagAllocation ==
  ASSUME TicketUpdateFlag, NEW operationType, Started(operationType), ~pendingTicketUpdate,
         pendingTicketUpdate', operationType.type = "AllocateTickets"
  PROVE  TicketUpdateFlag'
  BY DEF TicketUpdateFlag, PendingOfType, Started, Fresh

\* An operation is settled with the flag, whether or not an allocation follows.
LEMMA TicketFlagSettled ==
  ASSUME TicketUpdateFlag, NEW key, Settled(key)
  PROVE  TicketUpdateFlag'
<1> DEFINE rest == DOMAIN pendingOperations \ {key}
           allocation == pendingOperations[key].operation_type.type = "AllocateTickets"
<1>1. CASE DOMAIN pendingOperations' = rest /\ (pendingTicketUpdate' <=> pendingTicketUpdate /\ ~allocation)
  BY <1>1 DEF TicketUpdateFlag, PendingOfType, Settled
<1>2. CASE \E k : /\ k \notin rest
                  /\ DOMAIN pendingOperations' = rest \cup {k}
                  /\ Fresh(pendingOperations'[k], AllocationType)
                  /\ pendingTicketUpdate'
                  /\ allocation \/ ~pendingTicketUpdate
  <2>1. AllocationType.type = "AllocateTickets"
    BY DEF AllocationType
  <2>2. \A i \in rest : /\ pendingOperations'[i] = pendingOperations[i]
                       /\ pendingOperations[i].operation_type.type # "AllocateTickets"
    BY <1>2 DEF TicketUpdateFlag, PendingOfType, Settled
  <2>. QED BY <1>2, <2>1, <2>2 DEF TicketUpdateFlag, PendingOfType, Fresh
<1>. QED BY <1>1, <1>2 DEF Settled

\* A step keeps the flag of the ticket update.
LEMMA TicketFlagStep ==
  ASSUME TypeOK, TicketUpdateFlag, [Next]_vars
  PROVE  TicketUpdateFlag'
<1>1. ASSUME Kept, UNCHANGED pendingTicketUpdate PROVE TicketUpdateFlag'
  BY <1>1, TicketFlagKept
<1>2. ASSUME NEW operationType, Started(operationType), UNCHANGED pendingTicketUpdate,
             operationType.type # "AllocateTickets"
      PROVE  TicketUpdateFlag'
  BY <1>2, TicketFlagStarted
<1>3. ASSUME NEW operationType, Started(operationType), ~pendingTicketUpdate,
             pendingTicketUpdate', operationType.type = "AllocateTickets"
      PROVE  TicketUpdateFlag'
  BY <1>3, TicketFlagAllocation
<1>4. ASSUME NEW key, Settled(key) PROVE TicketUpdateFlag'
  BY <1>4, TicketFlagSettled
<1>5. ASSUME NEW sender, NEW token, NEW target,
             \/ HaltBridge(sender) \/ ResumeBridge(sender)
             \/ UpdateXRPLToken(sender, token, target)
      PROVE  TicketUpdateFlag'
  BY <1>1, <1>5 DEF HaltBridge, ResumeBridge, UpdateXRPLToken, Kept, ticketVars
<1>6. ASSUME NEW token, StartTrustSet(token) PROVE TicketUpdateFlag'
  BY <1>2, <1>6, StartEffect DEF StartTrustSet
<1>7. ASSUME NEW send, SendToXRPL(send) PROVE TicketUpdateFlag'
  BY <1>2, <1>7, StartEffect DEF SendToXRPL, Transfer
<1>8. ASSUME NEW sender, NEW rotation, RotateKeys(sender, rotation) PROVE TicketUpdateFlag'
  BY <1>2, <1>8, StartEffect DEF RotateKeys
<1>9. ASSUME NEW sender, NEW e \in EvidenceInputs, ConfirmOperation(sender, e)
      PROVE  TicketUpdateFlag'
  BY <1>4, <1>9, ConfirmEffect, InputAssumption
<1>. QED BY <1>1, <1>3, <1>4, <1>5, <1>6, <1>7, <1>8, <1>9, NextCases, RecoverEffect, CancelEffect, InputAssumption
         DEF Quiet

\* PENDING_TICKET_UPDATE is set exactly while one ticket allocation is pending.
THEOREM TicketFlagCorrect == Spec => []TicketUpdateFlag
<1>1. Init => TicketUpdateFlag
  BY DEF Init, TicketUpdateFlag, PendingOfType
<1>. QED BY <1>1, TypeCorrect, TicketFlagStep, PTL DEF Spec

-----------------------------------------------------------------------------
\* The flag of the key rotation

\* Settling clears PENDING_ROTATE_KEYS for a rotation only, and never resumes
\* the bridge.
LEMMA RotationSettled ==
  ASSUME TypeOK, NEW operationType, NEW result, NEW evidences,
         handle_rotate_keys_confirmation(operationType, result, evidences)
  PROVE  /\ pendingRotateKeys' <=> pendingRotateKeys /\ operationType.type # "RotateKeys"
         /\ config'.bridge_state = config.bridge_state
<1>1. pendingRotateKeys' <=> pendingRotateKeys /\ operationType.type # "RotateKeys"
  BY DEF handle_rotate_keys_confirmation, TypeOK
<1>2. config'.bridge_state = config.bridge_state
  BY DEF handle_rotate_keys_confirmation, TypeOK
<1>. QED BY <1>1, <1>2

\* The flag of the rotation stays right if no rotation is started or settled,
LEMMA RotationKept ==
  ASSUME RotationHaltsBridge, Kept, UNCHANGED pendingRotateKeys,
         config'.bridge_state = config.bridge_state \/ ~pendingRotateKeys \/
           config'.bridge_state = "Halted"
  PROVE  RotationHaltsBridge'
  BY DEF RotationHaltsBridge, PendingOfType, Kept

LEMMA RotationApart ==
  ASSUME RotationHaltsBridge, NEW operationType, Started(operationType),
         operationType.type # "RotateKeys", UNCHANGED <<config, pendingRotateKeys>>
  PROVE  RotationHaltsBridge'
  BY DEF RotationHaltsBridge, PendingOfType, Started, Fresh

\* if one is started with the flag on a bridge that it halts,
LEMMA RotationStarted ==
  ASSUME RotationHaltsBridge, NEW operationType, Started(operationType),
         operationType.type = "RotateKeys", ~pendingRotateKeys, pendingRotateKeys',
         config'.bridge_state = "Halted"
  PROVE  RotationHaltsBridge'
  BY DEF RotationHaltsBridge, PendingOfType, Started, Fresh

\* and if an operation is settled and only a rotation clears the flag.
LEMMA RotationCleared ==
  ASSUME RotationHaltsBridge, NEW key, Settled(key), config'.bridge_state = config.bridge_state,
         pendingRotateKeys' <=>
           pendingRotateKeys /\ pendingOperations[key].operation_type.type # "RotateKeys"
  PROVE  RotationHaltsBridge'
<1>1. AllocationType.type # "RotateKeys"
  BY DEF AllocationType
<1>2. \A i \in PendingOfType("RotateKeys")' :
        /\ i \in PendingOfType("RotateKeys") /\ i # key
        /\ pendingOperations'[i] = pendingOperations[i]
  BY <1>1 DEF PendingOfType, Settled, Fresh
<1>3. \A i \in PendingOfType("RotateKeys") : i # key => i \in PendingOfType("RotateKeys")'
  BY DEF PendingOfType, Settled
<1>. QED BY <1>2, <1>3 DEF RotationHaltsBridge, PendingOfType, Settled

\* A step keeps the flag of the rotation and the halted bridge.
LEMMA RotationStep ==
  ASSUME TypeOK, RotationHaltsBridge, [Next]_vars
  PROVE  RotationHaltsBridge'
<1>1. ASSUME Kept, UNCHANGED pendingRotateKeys,
             config'.bridge_state = config.bridge_state \/ ~pendingRotateKeys \/
               config'.bridge_state = "Halted"
      PROVE  RotationHaltsBridge'
  BY <1>1, RotationKept
<1>2. ASSUME NEW operationType, Started(operationType), operationType.type # "RotateKeys",
             UNCHANGED <<config, pendingRotateKeys>>
      PROVE  RotationHaltsBridge'
  BY <1>2, RotationApart
<1>3. ASSUME NEW operationType, Started(operationType), operationType.type = "RotateKeys",
             ~pendingRotateKeys, pendingRotateKeys', config'.bridge_state = "Halted"
      PROVE  RotationHaltsBridge'
  BY <1>3, RotationStarted
<1>4. ASSUME NEW key, Settled(key), config'.bridge_state = config.bridge_state,
             pendingRotateKeys' <=>
               pendingRotateKeys /\ pendingOperations[key].operation_type.type # "RotateKeys"
      PROVE  RotationHaltsBridge'
  BY <1>4, RotationCleared
<1>5. ASSUME NEW sender, NEW token, NEW target,
             \/ HaltBridge(sender) \/ ResumeBridge(sender)
             \/ UpdateXRPLToken(sender, token, target)
      PROVE  RotationHaltsBridge'
  BY <1>1, <1>5 DEF HaltBridge, ResumeBridge, UpdateXRPLToken, Kept, TypeOK
<1>6. ASSUME NEW token, StartTrustSet(token) PROVE RotationHaltsBridge'
  BY <1>2, <1>6, StartEffect DEF StartTrustSet
<1>7. ASSUME NEW send, SendToXRPL(send) PROVE RotationHaltsBridge'
  BY <1>2, <1>7, StartEffect DEF SendToXRPL, Transfer
<1>8. ASSUME NEW sender, NEW rotation, RotateKeys(sender, rotation) PROVE RotationHaltsBridge'
  BY <1>3, <1>8, StartEffect DEF RotateKeys, TypeOK
<1>9. ASSUME NEW sender, NEW e \in EvidenceInputs, ConfirmOperation(sender, e)
      PROVE  RotationHaltsBridge'
  BY <1>4, <1>9, ConfirmEffect, RotationSettled, InputAssumption
     DEF ConfirmOperation, handle_operation
<1>10. ASSUME NEW sender, NEW key, CancelPendingOperation(sender, key)
       PROVE  RotationHaltsBridge'
  BY <1>4, <1>10, CancelEffect, RotationSettled DEF CancelPendingOperation, handle_operation
<1>11. ASSUME NEW sender, NEW account \in AccountSequences, NEW number,
              RecoverTickets(sender, account, number)
       PROVE  RotationHaltsBridge'
  BY <1>2, <1>11, RecoverEffect, InputAssumption
<1>. QED BY <1>1, <1>5, <1>6, <1>7, <1>8, <1>9, <1>10, <1>11, NextCases DEF Quiet

\* PENDING_ROTATE_KEYS is set exactly while one rotation is pending, and until it
\* is settled the bridge is halted.
THEOREM RotationCorrect == Spec => []RotationHaltsBridge
<1>1. Init => RotationHaltsBridge
  BY DEF Init, RotationHaltsBridge, PendingOfType
<1>. QED BY <1>1, TypeCorrect, RotationStep, PTL DEF Spec

-----------------------------------------------------------------------------
\* Token registrations

\* A step keeps the registrations and their TrustSet operations together.
LEMMA TrustSetStep ==
  ASSUME TypeOK, TrustSetPerProcessingToken, [Next]_vars
  PROVE  TrustSetPerProcessingToken'
<1>1. ASSUME Kept, UNCHANGED xrplTokens PROVE TrustSetPerProcessingToken'
  <2>1. PendingOfType("TrustSet")' = PendingOfType("TrustSet")
    BY <1>1 DEF PendingOfType, Kept
  <2>2. \A key \in PendingOfType("TrustSet") :
          pendingOperations'[key].operation_type = pendingOperations[key].operation_type
    BY <1>1 DEF PendingOfType, Kept
  <2>. QED BY <1>1, <2>1, <2>2 DEF TrustSetPerProcessingToken
<1>2. ASSUME NEW operationType, Started(operationType), operationType.type # "TrustSet",
             UNCHANGED xrplTokens
      PROVE  TrustSetPerProcessingToken'
  <2>1. PendingOfType("TrustSet")' = PendingOfType("TrustSet")
    BY <1>2 DEF PendingOfType, Started, Fresh
  <2>2. \A key \in PendingOfType("TrustSet") : pendingOperations'[key] = pendingOperations[key]
    BY <1>2 DEF PendingOfType, Started
  <2>. QED BY <1>2, <2>1, <2>2 DEF TrustSetPerProcessingToken
<1>3. ASSUME NEW token, StartTrustSet(token), Registrable(token)
      PROVE  TrustSetPerProcessingToken'
  <2> DEFINE operationType == [type |-> "TrustSet", token |-> token]
  <2>1. Started(operationType)
    BY <1>3, StartEffect DEF StartTrustSet
  <2>2. operationType.type = "TrustSet" /\ operationType.token = token
    OBVIOUS
  <2>3. /\ DOMAIN xrplTokens' = DOMAIN xrplTokens \cup {token}
        /\ xrplTokens'[token] = "Processing"
        /\ \A t \in DOMAIN xrplTokens : t # token => xrplTokens'[t] = xrplTokens[t]
    BY <1>3 DEF StartTrustSet, Put
  <2>4. \A key \in PendingOfType("TrustSet") : pendingOperations[key].operation_type.token # token
    BY <1>3 DEF TrustSetPerProcessingToken, Registrable
  <2> HIDE DEF operationType
  <2>5. PICK new : /\ new \notin DOMAIN pendingOperations
                   /\ DOMAIN pendingOperations' = DOMAIN pendingOperations \cup {new}
                   /\ pendingOperations'[new].operation_type = operationType
                   /\ \A i \in DOMAIN pendingOperations :
                        pendingOperations'[i] = pendingOperations[i]
    BY <2>1 DEF Started, Fresh
  <2>6. PendingOfType("TrustSet")' = PendingOfType("TrustSet") \cup {new}
    BY <2>2, <2>5 DEF PendingOfType
  <2>7. \A key \in PendingOfType("TrustSet") : /\ key # new
                                              /\ pendingOperations'[key] = pendingOperations[key]
    BY <2>5 DEF PendingOfType
  <2>8. pendingOperations'[new].operation_type.token = token
    BY <2>2, <2>5
  <2>9. ASSUME NEW t \in DOMAIN xrplTokens', xrplTokens'[t] = "Processing"
        PROVE  \E key \in PendingOfType("TrustSet")' :
                 pendingOperations'[key].operation_type.token = t
    BY <2>3, <2>6, <2>7, <2>8, <2>9 DEF TrustSetPerProcessingToken
  <2>10. ASSUME NEW key \in PendingOfType("TrustSet")'
         PROVE  LET t == pendingOperations'[key].operation_type.token
                IN /\ t \in DOMAIN xrplTokens'
                   /\ xrplTokens'[t] = "Processing"
                   /\ \A other \in PendingOfType("TrustSet")' :
                        pendingOperations'[other].operation_type.token = t => other = key
    BY <2>3, <2>4, <2>6, <2>7, <2>8 DEF TrustSetPerProcessingToken
  <2>. QED BY <2>9, <2>10 DEF TrustSetPerProcessingToken
<1>4. ASSUME NEW key, Settled(key), NEW result,
             handle_trust_set_confirmation(pendingOperations[key].operation_type, result)
      PROVE  TrustSetPerProcessingToken'
  <2> DEFINE type == pendingOperations[key].operation_type.type
             token == pendingOperations[key].operation_type.token
  <2>1. AllocationType.type # "TrustSet"
    BY DEF AllocationType
  <2>2. PendingOfType("TrustSet")' = PendingOfType("TrustSet") \ {key}
    BY <1>4, <2>1 DEF PendingOfType, Settled, Fresh
  <2>3. \A i \in PendingOfType("TrustSet") \ {key} :
          pendingOperations'[i] = pendingOperations[i]
    BY <1>4 DEF PendingOfType, Settled
  <2>4. CASE type # "TrustSet"
    <3>1. xrplTokens' = xrplTokens
      BY <1>4, <2>4 DEF handle_trust_set_confirmation
    <3>2. key \notin PendingOfType("TrustSet")
      BY <2>4 DEF PendingOfType
    <3>. QED BY <2>2, <2>3, <3>1, <3>2 DEF TrustSetPerProcessingToken
  <2>5. CASE type = "TrustSet"
    <3>1. /\ token \in DOMAIN xrplTokens
          /\ DOMAIN xrplTokens' = DOMAIN xrplTokens
          /\ xrplTokens'[token] # "Processing"
          /\ \A t \in DOMAIN xrplTokens : t # token => xrplTokens'[t] = xrplTokens[t]
      BY <1>4, <2>5 DEF handle_trust_set_confirmation
    <3>2. key \in PendingOfType("TrustSet")
      BY <1>4, <2>5 DEF PendingOfType, Settled
    <3>3. \A i \in PendingOfType("TrustSet") \ {key} :
            pendingOperations[i].operation_type.token # token
      BY <3>2 DEF TrustSetPerProcessingToken
    <3> HIDE DEF token
    <3>4. ASSUME NEW t \in DOMAIN xrplTokens', xrplTokens'[t] = "Processing"
          PROVE  \E i \in PendingOfType("TrustSet")' :
                   pendingOperations'[i].operation_type.token = t
      BY <2>2, <2>3, <3>1, <3>4 DEF TrustSetPerProcessingToken, token
    <3>5. ASSUME NEW i \in PendingOfType("TrustSet")'
          PROVE  LET t == pendingOperations'[i].operation_type.token
                 IN /\ t \in DOMAIN xrplTokens'
                    /\ xrplTokens'[t] = "Processing"
                    /\ \A other \in PendingOfType("TrustSet")' :
                         pendingOperations'[other].operation_type.token = t => other = i
      BY <2>2, <2>3, <3>1, <3>3 DEF TrustSetPerProcessingToken
    <3>. QED BY <3>4, <3>5 DEF TrustSetPerProcessingToken
  <2>. QED BY <2>4, <2>5
<1>5. ASSUME NEW sender, HaltBridge(sender) \/ ResumeBridge(sender)
      PROVE  TrustSetPerProcessingToken'
  BY <1>1, <1>5 DEF HaltBridge, ResumeBridge, Kept, tokenVars
<1>6. ASSUME NEW sender, NEW token, NEW target, UpdateXRPLToken(sender, token, target)
      PROVE  TrustSetPerProcessingToken'
  <2>1. /\ token \in DOMAIN xrplTokens /\ xrplTokens[token] # "Processing"
        /\ target # "Processing"
        /\ DOMAIN xrplTokens' = DOMAIN xrplTokens
        /\ xrplTokens'[token] = target
        /\ \A t \in DOMAIN xrplTokens : t # token => xrplTokens'[t] = xrplTokens[t]
    BY <1>6 DEF UpdateXRPLToken, set_token_state, Put
  <2>2. PendingOfType("TrustSet")' = PendingOfType("TrustSet") /\ UNCHANGED pendingOperations
    BY <1>6 DEF UpdateXRPLToken, PendingOfType
  <2>. QED BY <2>1, <2>2 DEF TrustSetPerProcessingToken
<1>7. ASSUME NEW send, SendToXRPL(send) PROVE TrustSetPerProcessingToken'
  BY <1>2, <1>7, StartEffect DEF SendToXRPL, Transfer, tokenVars
<1>8. ASSUME NEW sender, NEW rotation, RotateKeys(sender, rotation)
      PROVE  TrustSetPerProcessingToken'
  BY <1>2, <1>8, StartEffect DEF RotateKeys, tokenVars
<1>9. ASSUME NEW sender, NEW e \in EvidenceInputs, ConfirmOperation(sender, e)
      PROVE  TrustSetPerProcessingToken'
  BY <1>4, <1>9, ConfirmEffect, InputAssumption DEF ConfirmOperation, handle_operation
<1>10. ASSUME NEW sender, NEW key, CancelPendingOperation(sender, key)
       PROVE  TrustSetPerProcessingToken'
  BY <1>4, <1>10, CancelEffect DEF CancelPendingOperation, handle_operation
<1>11. ASSUME NEW sender, NEW account \in AccountSequences, NEW number,
              RecoverTickets(sender, account, number)
       PROVE  TrustSetPerProcessingToken'
  BY <1>2, <1>11, RecoverEffect, InputAssumption DEF tokenVars
<1>. QED BY <1>1, <1>3, <1>5, <1>6, <1>7, <1>8, <1>9, <1>10, <1>11, NextCases DEF Quiet

\* A token is Processing exactly while one TrustSet operation for it is pending.
THEOREM TrustSetCorrect == Spec => []TrustSetPerProcessingToken
<1>1. Init => TrustSetPerProcessingToken
  BY DEF Init, TrustSetPerProcessingToken, PendingOfType
<1>. QED BY <1>1, TypeCorrect, TrustSetStep, PTL DEF Spec

-----------------------------------------------------------------------------
\* Votes.  The quorum is counted with Cardinality, so the invariant says also
\* that the votes of an evidence are a finite set.

VotesInv ==
  /\ VotesOfRelayersInOffice
  /\ \A e \in DOMAIN txEvidences : IsFiniteSet(txEvidences[e])

VotesUntouched ==
  /\ UNCHANGED txEvidences
  /\ config'.relayers = config.relayers
  /\ config'.evidence_threshold = config.evidence_threshold

\* Only SaveEvidence changes the votes, the relayers or the threshold.
LEMMA VoteCases ==
  ASSUME TypeOK, [Next]_vars
  PROVE  \/ VotesUntouched
         \/ \E sender \in Addr, e \in EvidenceInputs :
              \/ RecordEvidence(sender, e)
              \/ ConfirmTransfer(sender, e)
              \/ ConfirmOperation(sender, e)
<1>1. CASE UNCHANGED vars \/ Tick
  BY <1>1 DEF vars, Tick, VotesUntouched, evidenceVars
<1>2. ASSUME NEW sender \in Addr, UserNext(sender) PROVE VotesUntouched
  BY <1>2 DEF UserNext, SendToXRPL, ClaimRefund, VotesUntouched, evidenceVars
<1>3. ASSUME NEW sender \in Addr, NEW key, NEW version, SaveSignature(sender, key, version)
      PROVE  VotesUntouched
  BY <1>3 DEF SaveSignature, VotesUntouched, evidenceVars
<1>4. ASSUME NEW sender \in Addr, AdminNext(sender) PROVE VotesUntouched
  <2>1. ASSUME NEW key, CancelPendingOperation(sender, key) PROVE VotesUntouched
    <3>1. handle_rotate_keys_confirmation(pendingOperations[key].operation_type, "Invalid",
                                          txEvidences)
      BY <2>1 DEF CancelPendingOperation, handle_operation
    <3>. QED BY <3>1 DEF handle_rotate_keys_confirmation, VotesUntouched
  <2>2. ASSUME NEW item, NEW target,
               \/ RegisterCosmosToken(sender, item)
               \/ RegisterXRPLToken(sender, item)
               \/ RecoverXRPLTokenRegistration(sender, item)
               \/ UpdateXRPLToken(sender, item, target)
               \/ UpdateCosmosToken(sender, item, target)
               \/ RecoverTickets(sender, item, target)
               \/ UpdateProhibitedXRPLAddresses(sender, item)
        PROVE  VotesUntouched
    BY <2>2 DEF RegisterCosmosToken, RegisterXRPLToken, RecoverXRPLTokenRegistration,
                StartTrustSet, UpdateXRPLToken, UpdateCosmosToken, RecoverTickets,
                UpdateProhibitedXRPLAddresses, VotesUntouched, evidenceVars
  <2>3. ASSUME NEW item,
               \/ UpdateXRPLBaseFee(sender, item)
               \/ UpdateUsedTicketSequenceThreshold(sender, item)
               \/ HaltBridge(sender) \/ ResumeBridge(sender)
               \/ RotateKeys(sender, item)
        PROVE  VotesUntouched
    BY <2>3 DEF UpdateXRPLBaseFee, UpdateUsedTicketSequenceThreshold, HaltBridge, ResumeBridge,
                RotateKeys, VotesUntouched, evidenceVars, TypeOK
  <2>. QED BY <1>4, <2>1, <2>2, <2>3 DEF AdminNext, ControlNext
<1>. QED BY <1>1, <1>2, <1>3, <1>4 DEF Next, RelayerNext, SignNext

\* A vote is stored while there are too few of them.
LEMMA VotesRecorded ==
  ASSUME TypeOK, VotesInv, NEW sender \in Addr, NEW e, RecordEvidence(sender, e)
  PROVE  VotesInv'
<1> DEFINE votes == Votes(e) \cup {sender}
<1>1. IsFiniteSet(Votes(e))
  BY FS_EmptySet DEF Votes, VotesInv
<1>2. IsFiniteSet(votes) /\ Cardinality(votes) \in Nat
  BY <1>1, FS_AddElement, FS_CardinalityType
<1>3. Cardinality(votes) < config.evidence_threshold
  BY <1>2 DEF RecordEvidence, ThresholdReached, TypeOK
<1>4. votes \subseteq relayerAddresses
  <2>1. sender \in relayerAddresses
    BY DEF RecordEvidence, EvidenceAccepted, check_authorization, is_relayer, OwnerActions
  <2>. QED BY <2>1 DEF Votes, VotesInv, VotesOfRelayersInOffice
<1>5. votes # {}
  OBVIOUS
<1>6. /\ UNCHANGED config
      /\ DOMAIN txEvidences' = DOMAIN txEvidences \cup {e}
      /\ txEvidences'[e] = votes
      /\ \A f \in DOMAIN txEvidences : f # e => txEvidences'[f] = txEvidences[f]
  BY DEF RecordEvidence, Put
<1> HIDE DEF votes
<1>. QED BY <1>2, <1>3, <1>4, <1>5, <1>6 DEF VotesInv, VotesOfRelayersInOffice, relayerAddresses

\* The votes about what is settled are removed, those of former relayers, too.
LEMMA VotesRemoved ==
  ASSUME VotesInv, NEW evidence,
         txEvidences' = Without(txEvidences, evidence) \/ txEvidences' = [e \in {} |-> {}],
         UNCHANGED config \/ txEvidences' = [e \in {} |-> {}]
  PROVE  VotesInv'
<1>1. CASE txEvidences' = [e \in {} |-> {}]
  BY <1>1 DEF VotesInv, VotesOfRelayersInOffice
<1>2. CASE txEvidences' = Without(txEvidences, evidence) /\ UNCHANGED config
  <2>1. /\ DOMAIN txEvidences' \subseteq DOMAIN txEvidences
        /\ \A e \in DOMAIN txEvidences' : txEvidences'[e] = txEvidences[e]
    BY <1>2 DEF Without, Restrict
  <2>. QED BY <1>2, <2>1 DEF VotesInv, VotesOfRelayersInOffice, relayerAddresses
<1>. QED BY <1>1, <1>2

LEMMA VotesSettled ==
  ASSUME VotesInv, NEW sender, NEW e, ConfirmOperation(sender, e)
  PROVE  VotesInv'
<1>1. handle_rotate_keys_confirmation(pendingOperations[ResultKey(e)].operation_type,
                                      e.transaction_result, Without(txEvidences, e))
  BY DEF ConfirmOperation, handle_operation
<1>. QED BY <1>1, VotesRemoved DEF handle_rotate_keys_confirmation

\* Other messages leave the votes alone.
LEMMA VotesLeft ==
  ASSUME VotesInv, VotesUntouched
  PROVE  VotesInv'
  BY DEF VotesUntouched, VotesInv, VotesOfRelayersInOffice, relayerAddresses

\* A step keeps the votes to relayers in office and below the quorum.
LEMMA VotesStep ==
  ASSUME TypeOK, VotesInv, [Next]_vars
  PROVE  VotesInv'
<1>1. ASSUME NEW sender, NEW e, ConfirmTransfer(sender, e) PROVE VotesInv'
  BY <1>1, VotesRemoved DEF ConfirmTransfer
<1>. QED BY <1>1, VotesLeft, VotesRecorded, VotesSettled, VoteCases

\* Every stored vote is one of a relayer in office, and no stored evidence has
\* its quorum, across any rotation of the relayers and of their threshold.
THEOREM VotesCorrect == Spec => []VotesOfRelayersInOffice
<1>1. Init => VotesInv
  BY DEF Init, VotesInv, VotesOfRelayersInOffice
<1>2. VotesInv => VotesOfRelayersInOffice
  BY DEF VotesInv
<1>. QED BY <1>1, <1>2, TypeCorrect, VotesStep, PTL DEF Spec


-----------------------------------------------------------------------------
\* How the queue relates to the one before a message

\* What the code checks of an operation's type when it creates one
Admitted(operationType) ==
  /\ operationType.type = "RotateKeys" =>
       validate_relayers(operationType.new_relayers, operationType.new_evidence_threshold,
                         prohibited)
  /\ operationType.type = "CosmosToXRPLTransfer" => operationType.recipient \notin prohibited

\* Every operation was there before or is a fresh one.
Carried ==
  /\ config'.xrpl_base_fee = config.xrpl_base_fee
  /\ \A key \in DOMAIN pendingOperations' :
       \/ key \in DOMAIN pendingOperations /\ pendingOperations'[key] = pendingOperations[key]
       \/ \E type : Fresh(pendingOperations'[key], type) /\ Admitted(type)

\* Starting an admitted operation carries the queue over.
LEMMA StartedCarried ==
  ASSUME NEW type, Started(type), Admitted(type), config'.xrpl_base_fee = config.xrpl_base_fee
  PROVE  Carried
<1>1. PICK new \in Nat : /\ DOMAIN pendingOperations' = DOMAIN pendingOperations \cup {new}
                         /\ Fresh(pendingOperations'[new], type)
                         /\ \A i \in DOMAIN pendingOperations :
                              pendingOperations'[i] = pendingOperations[i]
  BY DEF Started
<1>. QED BY <1>1 DEF Carried

\* So does settling one, also if it starts an allocation of tickets.
LEMMA SettledCarried ==
  ASSUME NEW key, Settled(key), config'.xrpl_base_fee = config.xrpl_base_fee
  PROVE  Carried
<1>1. Admitted(AllocationType)
  BY DEF Admitted, AllocationType
<1>2. \A i \in DOMAIN pendingOperations' :
        \/ i \in DOMAIN pendingOperations /\ pendingOperations'[i] = pendingOperations[i]
        \/ Fresh(pendingOperations'[i], AllocationType)
  BY DEF Settled
<1>. QED BY <1>1, <1>2 DEF Carried

\* The confirmation of a rotation changes no fee.
LEMMA FeeSettled ==
  ASSUME TypeOK, NEW operationType, NEW result, NEW evidences,
         handle_rotate_keys_confirmation(operationType, result, evidences)
  PROVE  config'.xrpl_base_fee = config.xrpl_base_fee
  BY DEF handle_rotate_keys_confirmation, TypeOK

\* A message signs an operation, updates the base fee or carries the queue over.
LEMMA QueueCases ==
  ASSUME TypeOK, [Next]_vars
  PROVE  \/ Carried
         \/ \E sender \in Addr, key \in DOMAIN pendingOperations, version \in 1 .. MaxVersion :
              SaveSignature(sender, key, version)
         \/ \E sender \in Addr, fee \in BaseFees : UpdateXRPLBaseFee(sender, fee)
<1>1. ASSUME UNCHANGED pendingOperations, config'.xrpl_base_fee = config.xrpl_base_fee
      PROVE  Carried
  BY <1>1 DEF Carried
<1>2. CASE UNCHANGED vars \/ Tick
  BY <1>1, <1>2 DEF vars, Tick
<1>3. ASSUME NEW sender, NEW e \in EvidenceInputs,
             \/ RecordEvidence(sender, e)
             \/ ConfirmTransfer(sender, e)
             \/ ConfirmOperation(sender, e)
      PROVE  Carried
  <2>1. CASE RecordEvidence(sender, e) \/ ConfirmTransfer(sender, e)
    BY <1>1, <2>1 DEF RecordEvidence, ConfirmTransfer
  <2>2. CASE ConfirmOperation(sender, e)
    BY <2>2, ConfirmEffect, SettledCarried, FeeSettled, InputAssumption
       DEF ConfirmOperation, handle_operation
  <2>. QED BY <1>3, <2>1, <2>2
<1>4. ASSUME NEW sender, UserNext(sender) PROVE Carried
  <2>1. ASSUME NEW send, SendToXRPL(send) PROVE Carried
    <3>1. Admitted(Transfer(send))
      BY <2>1 DEF SendToXRPL, Admitted, Transfer
    <3>. QED BY <2>1, <3>1, StartEffect, StartedCarried DEF SendToXRPL
  <2>2. ASSUME NEW id, ClaimRefund(sender, id) PROVE Carried
    BY <1>1, <2>2 DEF ClaimRefund
  <2>. QED BY <1>4, <2>1, <2>2 DEF UserNext
<1>5. ASSUME NEW sender, NEW token, StartTrustSet(token) PROVE Carried
  <2> DEFINE type == [type |-> "TrustSet", token |-> token]
  <2>1. Admitted(type)
    BY DEF Admitted
  <2> HIDE DEF type
  <2>2. create_operation_on_ticket(type, config.bridge_state, pendingRotateKeys)
    BY <1>5 DEF StartTrustSet, type
  <2>. QED BY <1>5, <2>1, <2>2, StartEffect, StartedCarried DEF StartTrustSet
<1>6. ASSUME NEW sender, NEW rotation, RotateKeys(sender, rotation) PROVE Carried
  <2> DEFINE type == [type |-> "RotateKeys", new_relayers |-> rotation.new_relayers,
                      new_evidence_threshold |-> rotation.new_evidence_threshold]
  <2>1. Admitted(type)
    BY <1>6 DEF Admitted, RotateKeys
  <2>2. config'.xrpl_base_fee = config.xrpl_base_fee
    BY <1>6 DEF RotateKeys, TypeOK
  <2> HIDE DEF type
  <2>3. create_operation_on_ticket(type, "Halted", TRUE)
    BY <1>6 DEF RotateKeys, type
  <2>. QED BY <2>1, <2>2, <2>3, StartEffect, StartedCarried
<1>7. ASSUME NEW sender, NEW account \in AccountSequences, NEW number,
             RecoverTickets(sender, account, number)
      PROVE  Carried
  <2>1. PICK type : type.type = "AllocateTickets" /\ Started(type)
    BY <1>7, RecoverEffect, InputAssumption
  <2>2. Admitted(type)
    BY <2>1 DEF Admitted
  <2>3. config' = config
    BY <1>7 DEF RecoverTickets
  <2>. QED BY <2>1, <2>2, <2>3, StartedCarried
<1>8. ASSUME NEW sender, NEW key, CancelPendingOperation(sender, key) PROVE Carried
  BY <1>8, CancelEffect, SettledCarried, FeeSettled DEF CancelPendingOperation, handle_operation
<1>9. ASSUME NEW sender, NEW item, NEW target,
             \/ RegisterCosmosToken(sender, item)
             \/ UpdateXRPLToken(sender, item, target)
             \/ UpdateCosmosToken(sender, item, target)
             \/ UpdateProhibitedXRPLAddresses(sender, item)
      PROVE  Carried
  BY <1>1, <1>9 DEF RegisterCosmosToken, UpdateXRPLToken, UpdateCosmosToken,
                    UpdateProhibitedXRPLAddresses
<1>10. ASSUME NEW sender, NEW item,
              \/ UpdateUsedTicketSequenceThreshold(sender, item)
              \/ HaltBridge(sender) \/ ResumeBridge(sender)
       PROVE  Carried
  BY <1>1, <1>10 DEF UpdateUsedTicketSequenceThreshold, HaltBridge, ResumeBridge, TypeOK
<1>11. ASSUME NEW sender \in Addr, AdminNext(sender)
       PROVE  Carried \/ \E fee \in BaseFees : UpdateXRPLBaseFee(sender, fee)
  BY <1>5, <1>6, <1>7, <1>8, <1>9, <1>10, <1>11
     DEF AdminNext, ControlNext, RegisterXRPLToken, RecoverXRPLTokenRegistration
<1>. QED BY <1>2, <1>3, <1>4, <1>11 DEF Next, RelayerNext, SignNext

\* So a pending operation's type is an old one or was checked in this message.
LEMMA TypeCases ==
  ASSUME TypeOK, [Next]_vars, NEW key \in DOMAIN pendingOperations'
  PROVE  \/ /\ key \in DOMAIN pendingOperations
            /\ pendingOperations'[key].operation_type = pendingOperations[key].operation_type
         \/ Admitted(pendingOperations'[key].operation_type)
<1>1. CASE Carried
  BY <1>1 DEF Carried, Fresh
<1>2. CASE Kept
  BY <1>2 DEF Kept
<1>. QED BY <1>1, <1>2, QueueCases, SignatureKept, BaseFeeKept

-----------------------------------------------------------------------------
\* The signatures

\* A step keeps the signatures to the version and the fee in force.
LEMMA SignaturesStep ==
  ASSUME TypeOK, SignaturesOfCurrentVersion, [Next]_vars
  PROVE  SignaturesOfCurrentVersion'
<1>1. CASE Carried
  BY <1>1 DEF Carried, Fresh, SignaturesOfCurrentVersion
<1>2. ASSUME NEW sender \in Addr, NEW fee \in BaseFees, UpdateXRPLBaseFee(sender, fee)
      PROVE  SignaturesOfCurrentVersion'
  <2>1. config'.xrpl_base_fee = fee
    BY <1>2 DEF UpdateXRPLBaseFee, TypeOK
  <2>2. ASSUME NEW key \in DOMAIN pendingOperations'
        PROVE  /\ pendingOperations'[key].xrpl_base_fee = fee
               /\ pendingOperations'[key].signatures = {}
    <3>1. key \in DOMAIN pendingOperations /\ pendingOperations[key] \in Operation
      BY <1>2, <2>2 DEF UpdateXRPLBaseFee, TypeOK
    <3>. QED BY <1>2, <3>1 DEF UpdateXRPLBaseFee, Operation
  <2>. QED BY <2>1, <2>2 DEF SignaturesOfCurrentVersion
<1>3. ASSUME NEW sender \in Addr, NEW key, NEW version, SaveSignature(sender, key, version)
      PROVE  SignaturesOfCurrentVersion'
  <2> DEFINE operation == pendingOperations[key]
             signature == [relayer |-> sender, version |-> version]
             signatures == operation.signatures \cup {signature}
  <2>1. /\ key \in DOMAIN pendingOperations
        /\ operation.version = version
        /\ pendingOperations'[key] = [operation EXCEPT !.signatures = signatures]
        /\ DOMAIN pendingOperations' = DOMAIN pendingOperations
        /\ \A i \in DOMAIN pendingOperations :
             i # key => pendingOperations'[i] = pendingOperations[i]
    BY <1>3, SignatureEffect
  <2>2. operation \in Operation
    BY <2>1 DEF TypeOK
  <2>3. config' = config
    BY <1>3 DEF SaveSignature
  <2>4. \A s \in operation.signatures : s.relayer # sender
    BY <1>3 DEF SaveSignature
  <2>5. signature.version = operation.version /\ signature.relayer = sender
    BY <2>1
  <2> HIDE DEF operation, signature
  <2>6. /\ pendingOperations'[key].signatures = signatures
        /\ pendingOperations'[key].version = operation.version
        /\ pendingOperations'[key].xrpl_base_fee = operation.xrpl_base_fee
    BY <2>1, <2>2 DEF Operation
  <2>7. /\ operation.xrpl_base_fee = config.xrpl_base_fee
        /\ \A s \in operation.signatures : s.version = operation.version
        /\ \A s, t \in operation.signatures : s.relayer = t.relayer => s = t
    BY <2>1 DEF SignaturesOfCurrentVersion, operation
  <2>8. /\ \A s \in signatures : s.version = operation.version
        /\ \A s, t \in signatures : s.relayer = t.relayer => s = t
    BY <2>4, <2>5, <2>7
  <2> HIDE DEF signatures
  <2>9. ASSUME NEW i \in DOMAIN pendingOperations', i # key
        PROVE  /\ pendingOperations'[i].xrpl_base_fee = config.xrpl_base_fee
               /\ \A s \in pendingOperations'[i].signatures :
                    s.version = pendingOperations'[i].version
               /\ \A s, t \in pendingOperations'[i].signatures : s.relayer = t.relayer => s = t
    BY <2>1, <2>9 DEF SignaturesOfCurrentVersion
  <2>10. /\ pendingOperations'[key].xrpl_base_fee = config.xrpl_base_fee
         /\ \A s \in pendingOperations'[key].signatures :
              s.version = pendingOperations'[key].version
         /\ \A s, t \in pendingOperations'[key].signatures : s.relayer = t.relayer => s = t
    BY <2>6, <2>7, <2>8
  <2>. QED BY <2>3, <2>9, <2>10 DEF SignaturesOfCurrentVersion
<1>. QED BY <1>1, <1>2, <1>3, QueueCases

\* The signatures of an operation are all for its current version and for the fee
\* in force, one of each relayer, whatever fee updates come in between.
THEOREM SignaturesCorrect == Spec => []SignaturesOfCurrentVersion
<1>1. Init => SignaturesOfCurrentVersion
  BY DEF Init, SignaturesOfCurrentVersion
<1>. QED BY <1>1, TypeCorrect, SignaturesStep, PTL DEF Spec

-----------------------------------------------------------------------------
\* The relayers

\* The confirmation of a rotation keeps the relayers or installs those proposed.
LEMMA RelayersSettled ==
  ASSUME TypeOK, NEW operationType, NEW result, NEW evidences,
         handle_rotate_keys_confirmation(operationType, result, evidences)
  PROVE  \/ /\ config'.relayers = config.relayers
            /\ config'.evidence_threshold = config.evidence_threshold
         \/ /\ operationType.type = "RotateKeys"
            /\ config'.relayers = operationType.new_relayers
            /\ config'.evidence_threshold = operationType.new_evidence_threshold
  BY DEF handle_rotate_keys_confirmation, TypeOK

\* The relayers in office change to those of a pending rotation only.
LEMMA RelayersCases ==
  ASSUME TypeOK, [Next]_vars
  PROVE  \/ /\ config'.relayers = config.relayers
            /\ config'.evidence_threshold = config.evidence_threshold
         \/ \E key \in PendingOfType("RotateKeys") :
              LET rotation == pendingOperations[key].operation_type
              IN /\ config'.relayers = rotation.new_relayers
                 /\ config'.evidence_threshold = rotation.new_evidence_threshold
<1>1. CASE VotesUntouched
  BY <1>1 DEF VotesUntouched
<1>2. ASSUME NEW sender, NEW e, RecordEvidence(sender, e) \/ ConfirmTransfer(sender, e)
      PROVE  config' = config
  BY <1>2 DEF RecordEvidence, ConfirmTransfer
<1>3. ASSUME NEW sender, NEW e, ConfirmOperation(sender, e)
      PROVE  \/ /\ config'.relayers = config.relayers
                /\ config'.evidence_threshold = config.evidence_threshold
             \/ /\ ResultKey(e) \in PendingOfType("RotateKeys")
                /\ config'.relayers =
                     pendingOperations[ResultKey(e)].operation_type.new_relayers
                /\ config'.evidence_threshold =
                     pendingOperations[ResultKey(e)].operation_type.new_evidence_threshold
  <2>1. handle_rotate_keys_confirmation(pendingOperations[ResultKey(e)].operation_type,
                                        e.transaction_result, Without(txEvidences, e))
    BY <1>3 DEF ConfirmOperation, handle_operation
  <2>2. ResultKey(e) \in DOMAIN pendingOperations
    BY <1>3 DEF ConfirmOperation, ResultAllowed
  <2>. QED BY <2>1, <2>2, RelayersSettled DEF PendingOfType
<1>. QED BY <1>1, <1>2, <1>3, VoteCases

\* A set of relayers that reaches its threshold and is told apart by addresses
Sound(relayers, threshold) ==
  /\ threshold \in 1 .. Cardinality(relayers)
  /\ Cardinality(relayers) <= MAX_RELAYERS
  /\ \A r, s \in relayers :
       r # s => r.cosmos_address # s.cosmos_address /\ r.xrpl_address # s.xrpl_address

SoundOperation(operationType) ==
  operationType.type = "RotateKeys" =>
    Sound(operationType.new_relayers, operationType.new_evidence_threshold)

\* RelayersCanReachThreshold in terms of Sound
LEMMA SoundRelayers ==
  RelayersCanReachThreshold <=>
    /\ Sound(config.relayers, config.evidence_threshold)
    /\ \A key \in DOMAIN pendingOperations :
         SoundOperation(pendingOperations[key].operation_type)
  BY DEF RelayersCanReachThreshold, Sound, SoundOperation, PendingOfType

SoundState ==
  /\ Sound(config.relayers, config.evidence_threshold)
  /\ \A key \in DOMAIN pendingOperations :
       SoundOperation(pendingOperations[key].operation_type)

\* A step keeps the relayers in office and those proposed able to decide.
LEMMA RelayersStep ==
  ASSUME TypeOK, SoundState, [Next]_vars
  PROVE  SoundState'
<1>1. Sound(config'.relayers, config'.evidence_threshold)
  BY RelayersCases DEF SoundState, SoundOperation, PendingOfType
<1>2. ASSUME NEW key \in DOMAIN pendingOperations'
      PROVE  SoundOperation(pendingOperations'[key].operation_type)
  <2>1. ASSUME NEW type, Admitted(type) PROVE SoundOperation(type)
    BY <2>1 DEF Admitted, SoundOperation, Sound, validate_relayers
  <2>. QED BY <2>1, TypeCases DEF SoundState
<1>. QED BY <1>1, <1>2 DEF SoundState

\* The relayers in office and those of a pending rotation can reach their
\* threshold and differ in both addresses, across any number of rotations.
THEOREM RelayersCorrect == Spec => []RelayersCanReachThreshold
<1>1. Init => SoundState
  BY InstantiateAssumption DEF Init, SoundState, Sound, validate_relayers
<1>2. SoundState => RelayersCanReachThreshold
  BY SoundRelayers DEF SoundState
<1>. QED BY <1>1, <1>2, TypeCorrect, RelayersStep, PTL DEF Spec

-----------------------------------------------------------------------------
\* The multisig account.  The messages are checked against the prohibited
\* addresses, so the invariant says that the account is always one of them.

MultisigInv == MultisigAddressNotUsed /\ BridgeXRPLAddress \in prohibited

\* Every message leaves the prohibited addresses or keeps the account in them.
LEMMA ProhibitedStep ==
  ASSUME [Next]_vars
  PROVE  prohibited' = prohibited \/ BridgeXRPLAddress \in prohibited'
<1>1. CASE UNCHANGED vars \/ Tick
  BY <1>1 DEF vars, Tick
<1>2. ASSUME NEW sender, RelayerNext(sender) \/ UserNext(sender) PROVE prohibited' = prohibited
  BY <1>2 DEF RelayerNext, UserNext, SignNext, RecordEvidence, ConfirmTransfer, ConfirmOperation,
              SaveSignature, SendToXRPL, ClaimRefund
<1>3. ASSUME NEW sender, AdminNext(sender)
      PROVE  prohibited' = prohibited \/ BridgeXRPLAddress \in prohibited'
  BY <1>3 DEF AdminNext, ControlNext, CancelPendingOperation, RegisterCosmosToken,
              RegisterXRPLToken, RecoverXRPLTokenRegistration, StartTrustSet, UpdateXRPLToken,
              UpdateCosmosToken, RecoverTickets, UpdateXRPLBaseFee,
              UpdateUsedTicketSequenceThreshold, HaltBridge, ResumeBridge, RotateKeys,
              UpdateProhibitedXRPLAddresses
<1>. QED BY <1>1, <1>2, <1>3 DEF Next

\* A token becomes known by a registration that checks its issuer.
LEMMA TokenCases ==
  ASSUME TypeOK, [Next]_vars, NEW token \in DOMAIN xrplTokens'
  PROVE  token \in DOMAIN xrplTokens \/ token[1] \notin prohibited
<1>1. ASSUME NEW t, StartTrustSet(t), Registrable(t)
      PROVE  token \in DOMAIN xrplTokens \/ token[1] \notin prohibited
  BY <1>1 DEF StartTrustSet, Registrable, Put
<1>2. ASSUME NEW sender, NEW t, NEW target, UpdateXRPLToken(sender, t, target)
      PROVE  token \in DOMAIN xrplTokens
  BY <1>2 DEF UpdateXRPLToken, Put
<1>3. ASSUME NEW operationType, NEW result, handle_trust_set_confirmation(operationType, result)
      PROVE  token \in DOMAIN xrplTokens
  BY <1>3 DEF handle_trust_set_confirmation
<1>4. ASSUME NEW sender, NEW e, ConfirmOperation(sender, e) PROVE token \in DOMAIN xrplTokens
  BY <1>3, <1>4 DEF ConfirmOperation, handle_operation
<1>5. ASSUME NEW sender, NEW key, CancelPendingOperation(sender, key)
      PROVE  token \in DOMAIN xrplTokens
  BY <1>3, <1>5 DEF CancelPendingOperation, handle_operation
<1>6. ASSUME NEW sender, HaltBridge(sender) \/ ResumeBridge(sender)
      PROVE  token \in DOMAIN xrplTokens
  BY <1>6 DEF HaltBridge, ResumeBridge, tokenVars
<1>7. ASSUME NEW send, SendToXRPL(send) PROVE token \in DOMAIN xrplTokens
  BY <1>7 DEF SendToXRPL, tokenVars
<1>8. ASSUME NEW sender, NEW rotation, RotateKeys(sender, rotation)
      PROVE  token \in DOMAIN xrplTokens
  BY <1>8 DEF RotateKeys, tokenVars
<1>9. ASSUME NEW sender, NEW account, NEW number, RecoverTickets(sender, account, number)
      PROVE  token \in DOMAIN xrplTokens
  BY <1>9 DEF RecoverTickets, tokenVars
<1>. QED BY <1>1, <1>2, <1>4, <1>5, <1>6, <1>7, <1>8, <1>9, NextCases DEF Quiet

\* A step keeps the multisig account out of tokens, relayers and recipients.
LEMMA MultisigStep ==
  ASSUME TypeOK, MultisigInv, [Next]_vars
  PROVE  MultisigInv'
<1>1. BridgeXRPLAddress \in prohibited'
  BY ProhibitedStep DEF MultisigInv
<1>2. \A token \in DOMAIN xrplTokens' : token[1] # BridgeXRPLAddress
  BY TokenCases DEF MultisigInv, MultisigAddressNotUsed
<1>3. \A r \in config'.relayers : r.xrpl_address # BridgeXRPLAddress
  BY RelayersCases DEF MultisigInv, MultisigAddressNotUsed
<1>4. \A key \in PendingOfType("CosmosToXRPLTransfer")' :
        pendingOperations'[key].operation_type.recipient # BridgeXRPLAddress
  BY TypeCases DEF MultisigInv, MultisigAddressNotUsed, PendingOfType, Admitted
<1>5. \A key \in PendingOfType("RotateKeys")' :
        \A r \in pendingOperations'[key].operation_type.new_relayers :
          r.xrpl_address # BridgeXRPLAddress
  BY TypeCases DEF MultisigInv, MultisigAddressNotUsed, PendingOfType, Admitted, validate_relayers
<1>. QED BY <1>1, <1>2, <1>3, <1>4, <1>5 DEF MultisigInv, MultisigAddressNotUsed

\* The multisig account is never a token's issuer, a recipient or a relayer.
THEOREM MultisigCorrect == Spec => []MultisigAddressNotUsed
<1>1. Init => MultisigInv
  BY IdentityAssumption, InstantiateAssumption
     DEF Init, MultisigInv, MultisigAddressNotUsed, PendingOfType, validate_relayers
<1>2. MultisigInv => MultisigAddressNotUsed
  BY DEF MultisigInv
<1>. QED BY <1>1, <1>2, TypeCorrect, MultisigStep, PTL DEF Spec

-----------------------------------------------------------------------------
\* What a message may never do

\* Settling a transfer that was not accepted stores its refund.
LEMMA RefundStored ==
  ASSUME NEW operation, NEW result, result # "Accepted",
         operation.operation_type.type = "CosmosToXRPLTransfer",
         handle_cosmos_to_xrpl_transfer_confirmation(operation, result)
  PROVE  LET transfer == operation.operation_type
             refund == <<transfer.sender, operation.id>>
         IN /\ refund \in DOMAIN pendingRefunds'
            /\ pendingRefunds'[refund] = [token |-> transfer.token, amount |-> transfer.amount]
<1> DEFINE refund == <<operation.operation_type.sender, operation.id>>
           value == [token |-> operation.operation_type.token,
                     amount |-> operation.operation_type.amount]
<1>1. pendingRefunds' = Put(pendingRefunds, refund, value)
  BY DEF handle_cosmos_to_xrpl_transfer_confirmation
<1> HIDE DEF refund, value
<1>2. refund \in DOMAIN pendingRefunds' /\ pendingRefunds'[refund] = value
  BY <1>1 DEF Put
<1>. QED BY <1>2 DEF refund, value

\* A step ends a transfer only as EndsTransfer says.
LEMMA TransferStep ==
  ASSUME TypeOK, [Next]_vars
  PROVE  EndsTransfers
<1> SUFFICES ASSUME NEW key \in PendingOfType("CosmosToXRPLTransfer"),
                    key \notin DOMAIN pendingOperations'
             PROVE  EndsTransfer(key)
  BY DEF EndsTransfers
<1>1. /\ key \in DOMAIN pendingOperations
      /\ pendingOperations[key].operation_type.type = "CosmosToXRPLTransfer"
  BY DEF PendingOfType
<1>2. ~Kept
  BY <1>1 DEF Kept
<1>3. \A type : ~Started(type)
  BY <1>1 DEF Started
<1>4. \A i : Settled(i) => i = key
  BY <1>1 DEF Settled
<1>5. ASSUME NEW sender, NEW e \in EvidenceInputs, ConfirmOperation(sender, e)
      PROVE  EndsTransfer(key)
  <2>1. e \in Evidence
    BY InputAssumption
  <2>2. ResultKey(e) = key
    BY <1>4, <1>5, <2>1, ConfirmEffect
  <2>3. /\ validate_basic(e) /\ ResultAllowed(e)
        /\ is_operation_valid(e) => get_tx_hash(e) \notin processedTxs
        /\ processedTxs' = processedWith(e)
        /\ handle_cosmos_to_xrpl_transfer_confirmation(pendingOperations[key],
                                                       e.transaction_result)
    BY <1>5, <2>2 DEF ConfirmOperation, EvidenceAccepted, handle_operation
  <2>4. e.kind = "XRPLTransactionResult" /\ e.account_sequence = None
    BY <1>1, <2>2, <2>3 DEF ResultAllowed
  <2>5. e.ticket_sequence = key
    BY <2>2, <2>4 DEF ResultKey, OperationKey
  <2>6. CASE e.transaction_result = "Accepted"
    <3>1. get_tx_hash(e) \in processedTxs' \ processedTxs
      BY <2>3, <2>4, <2>6 DEF is_operation_valid, processedWith
    <3>. QED BY <2>4, <2>5, <2>6, <3>1 DEF EndsTransfer
  <2>7. CASE e.transaction_result # "Accepted"
    BY <1>1, <2>3, <2>7, RefundStored DEF EndsTransfer
  <2>. QED BY <2>6, <2>7
<1>6. ASSUME NEW sender, NEW i, CancelPendingOperation(sender, i) PROVE EndsTransfer(key)
  <2>1. i = key
    BY <1>4, <1>6, CancelEffect
  <2>2. handle_cosmos_to_xrpl_transfer_confirmation(pendingOperations[key], "Invalid")
    BY <1>6, <2>1 DEF CancelPendingOperation, handle_operation
  <2>. QED BY <1>1, <2>2, RefundStored DEF EndsTransfer
<1>7. ASSUME NEW sender, NEW token, NEW target,
             \/ HaltBridge(sender) \/ ResumeBridge(sender)
             \/ UpdateXRPLToken(sender, token, target)
      PROVE  FALSE
  BY <1>2, <1>7 DEF HaltBridge, ResumeBridge, UpdateXRPLToken, Kept
<1>8. ASSUME NEW token, StartTrustSet(token) PROVE FALSE
  BY <1>3, <1>8, StartEffect DEF StartTrustSet
<1>9. ASSUME NEW send, SendToXRPL(send) PROVE FALSE
  BY <1>3, <1>9, StartEffect DEF SendToXRPL
<1>10. ASSUME NEW sender, NEW rotation, RotateKeys(sender, rotation) PROVE FALSE
  BY <1>3, <1>10, StartEffect DEF RotateKeys
<1>11. ASSUME NEW sender, NEW account \in AccountSequences, NEW number,
              RecoverTickets(sender, account, number)
       PROVE  FALSE
  BY <1>3, <1>11, RecoverEffect, InputAssumption
<1>. QED BY <1>2, <1>5, <1>6, <1>7, <1>8, <1>9, <1>10, <1>11, NextCases DEF Quiet

\* No message, in whatever order, ends a transfer without an accepted result for it
\* or the refund of the whole amount to its sender.
THEOREM TransfersCorrect == Spec => TransferAcceptedOrRefunded
  BY TypeCorrect, TransferStep, PTL DEF Spec, TransferAcceptedOrRefunded

\* The four parts of StaysQuiet
QuietRefunds == DOMAIN pendingRefunds \subseteq DOMAIN pendingRefunds'

QuietVotes ==
  \A e \in DOMAIN txEvidences' :
    e.kind = "XRPLToCosmosTransfer" =>
      e \in DOMAIN txEvidences /\ txEvidences'[e] = txEvidences[e]

QuietOperations ==
  \A key \in DOMAIN pendingOperations' :
    \/ pendingOperations'[key].operation_type.type \in {"AllocateTickets", "RotateKeys"}
    \/ /\ key \in DOMAIN pendingOperations
       /\ pendingOperations'[key].signatures \subseteq pendingOperations[key].signatures

QuietProcessed ==
  \A hash \in processedTxs' \ processedTxs : \E e \in EvidenceInputs :
    is_operation_valid(e) /\ get_tx_hash(e) = hash /\ ResultAllowed(e)

\* A halted bridge starts nothing but allocations and rotations.
LEMMA StartWhileHalted ==
  ASSUME TypeOK, NEW type, NEW rotating,
         create_operation_on_ticket(type, "Halted", rotating)
  PROVE  QuietOperations
<1>1. Started(type) /\ type.type \in {"AllocateTickets", "RotateKeys"}
  BY StartEffect DEF check_valid_operation_if_halt
<1>. QED BY <1>1 DEF Started, Fresh, QuietOperations

\* Settling an operation starts nothing but an allocation.
LEMMA SettleQuiet ==
  ASSUME NEW key, Settled(key)
  PROVE  QuietOperations
<1>1. AllocationType.type = "AllocateTickets"
  BY DEF AllocationType
<1>2. \A i \in DOMAIN pendingOperations' :
        \/ i \in DOMAIN pendingOperations /\ pendingOperations'[i] = pendingOperations[i]
        \/ Fresh(pendingOperations'[i], AllocationType)
  BY DEF Settled
<1>. QED BY <1>1, <1>2 DEF QuietOperations, Fresh

\* What settling does to votes and refunds
LEMMA SettleVotes ==
  ASSUME NEW operation, NEW result, NEW operationResult, NEW e,
         \/ handle_operation(operation, result, operationResult, txEvidences)
         \/ handle_operation(operation, result, operationResult, Without(txEvidences, e))
  PROVE  QuietRefunds /\ QuietVotes
<1>1. QuietRefunds
  BY DEF handle_operation, handle_cosmos_to_xrpl_transfer_confirmation, QuietRefunds, Put
<1>2. \/ txEvidences' = [x \in {} |-> {}]
      \/ txEvidences' = txEvidences
      \/ txEvidences' = Without(txEvidences, e)
  BY DEF handle_operation, handle_rotate_keys_confirmation
<1>3. CASE txEvidences' = Without(txEvidences, e)
  <2>1. /\ DOMAIN txEvidences' \subseteq DOMAIN txEvidences
        /\ \A x \in DOMAIN txEvidences' : txEvidences'[x] = txEvidences[x]
    BY <1>3 DEF Without, Restrict
  <2>. QED BY <1>1, <2>1 DEF QuietVotes
<1>4. CASE txEvidences' = [x \in {} |-> {}] \/ txEvidences' = txEvidences
  BY <1>1, <1>4 DEF QuietVotes
<1>. QED BY <1>2, <1>3, <1>4

\* A step of a halted bridge is quiet.
LEMMA HaltedStep ==
  ASSUME TypeOK, [Next]_vars
  PROVE  StaysQuiet
<1> SUFFICES ASSUME config.bridge_state = "Halted"
             PROVE  QuietRefunds /\ QuietVotes /\ QuietProcessed /\ QuietOperations
  BY DEF StaysQuiet, QuietRefunds, QuietVotes, QuietProcessed, QuietOperations
<1>1. ~assert_bridge_active
  BY DEF assert_bridge_active
<1>2. ASSUME UNCHANGED pendingOperations PROVE QuietOperations
  BY <1>2 DEF QuietOperations
<1>3. ASSUME UNCHANGED <<txEvidences, pendingRefunds, processedTxs>>
      PROVE  QuietRefunds /\ QuietVotes /\ QuietProcessed
  BY <1>3 DEF QuietRefunds, QuietVotes, QuietProcessed
<1>4. CASE UNCHANGED vars \/ Tick
  BY <1>2, <1>3, <1>4 DEF vars, Tick, evidenceVars
<1>5. ASSUME NEW sender, NEW e, RecordEvidence(sender, e)
      PROVE  QuietRefunds /\ QuietVotes /\ QuietProcessed /\ QuietOperations
  <2>1. e.kind = "XRPLTransactionResult"
    BY <1>1, <1>5 DEF RecordEvidence, TransferAllowed, ResultAllowed
  <2>2. QuietVotes
    BY <1>5, <2>1 DEF RecordEvidence, QuietVotes, Put
  <2>. QED BY <1>2, <1>5, <2>2 DEF RecordEvidence, QuietRefunds, QuietProcessed
<1>6. ASSUME NEW sender, NEW e \in EvidenceInputs, ConfirmOperation(sender, e)
      PROVE  QuietRefunds /\ QuietVotes /\ QuietProcessed /\ QuietOperations
  <2>1. QuietProcessed
    BY <1>6 DEF ConfirmOperation, processedWith, QuietProcessed
  <2>. QED
    BY <1>6, <2>1, ConfirmEffect, SettleQuiet, SettleVotes, InputAssumption DEF ConfirmOperation
<1>7. ASSUME NEW sender, NEW key, CancelPendingOperation(sender, key)
      PROVE  QuietRefunds /\ QuietVotes /\ QuietProcessed /\ QuietOperations
  BY <1>7, CancelEffect, SettleQuiet, SettleVotes DEF CancelPendingOperation, QuietProcessed
<1>8. ASSUME NEW sender \in Addr, NEW key, NEW version, SaveSignature(sender, key, version)
      PROVE  QuietRefunds /\ QuietVotes /\ QuietProcessed /\ QuietOperations
  <2>1. pendingOperations[key].operation_type.type \in {"AllocateTickets", "RotateKeys"}
    BY <1>8 DEF SaveSignature, check_valid_operation_if_halt
  <2>2. QuietOperations
    <3>1. /\ pendingOperations'[key].operation_type = pendingOperations[key].operation_type
          /\ DOMAIN pendingOperations' = DOMAIN pendingOperations
          /\ \A i \in DOMAIN pendingOperations :
               i # key => pendingOperations'[i] = pendingOperations[i]
      <4>1. Kept
        BY <1>8, SignatureKept
      <4>2. /\ key \in DOMAIN pendingOperations
            /\ DOMAIN pendingOperations' = DOMAIN pendingOperations
            /\ \A i \in DOMAIN pendingOperations :
                 i # key => pendingOperations'[i] = pendingOperations[i]
        BY <1>8 DEF SaveSignature
      <4>. QED BY <4>1, <4>2 DEF Kept
    <3>. QED BY <2>1, <3>1 DEF QuietOperations
  <2>. QED BY <1>3, <1>8, <2>2 DEF SaveSignature, evidenceVars
<1>9. ASSUME NEW send, SendToXRPL(send) PROVE FALSE
  BY <1>1, <1>9 DEF SendToXRPL
<1>10. ASSUME NEW sender, NEW e, ClaimRefund(sender, e) \/ ConfirmTransfer(sender, e) PROVE FALSE
  BY <1>1, <1>10 DEF ClaimRefund, ConfirmTransfer, TransferAllowed
<1>11. ASSUME NEW sender, NEW item, NEW target,
              \/ RegisterCosmosToken(sender, item)
              \/ UpdateXRPLToken(sender, item, target)
              \/ UpdateCosmosToken(sender, item, target)
              \/ UpdateProhibitedXRPLAddresses(sender, item)
              \/ UpdateUsedTicketSequenceThreshold(sender, item)
              \/ HaltBridge(sender) \/ ResumeBridge(sender)
       PROVE  QuietRefunds /\ QuietVotes /\ QuietProcessed /\ QuietOperations
  <2>1. UNCHANGED <<pendingOperations, txEvidences, pendingRefunds, processedTxs>>
    BY <1>11 DEF RegisterCosmosToken, UpdateXRPLToken, UpdateCosmosToken,
                 UpdateProhibitedXRPLAddresses, UpdateUsedTicketSequenceThreshold, HaltBridge,
                 ResumeBridge, evidenceVars
  <2>. QED BY <1>2, <1>3, <2>1
<1>12. ASSUME NEW token, StartTrustSet(token)
       PROVE  QuietRefunds /\ QuietVotes /\ QuietProcessed /\ QuietOperations
  BY <1>3, <1>12, StartWhileHalted DEF StartTrustSet, evidenceVars
<1>13. ASSUME NEW sender, NEW rotation, RotateKeys(sender, rotation)
       PROVE  QuietRefunds /\ QuietVotes /\ QuietProcessed /\ QuietOperations
  BY <1>3, <1>13, StartWhileHalted DEF RotateKeys, evidenceVars
<1>14. ASSUME NEW sender, NEW account \in AccountSequences, NEW number,
              RecoverTickets(sender, account, number)
       PROVE  QuietRefunds /\ QuietVotes /\ QuietProcessed /\ QuietOperations
  <2>1. PICK type : type.type = "AllocateTickets" /\ Started(type)
    BY <1>14, RecoverEffect, InputAssumption
  <2>2. QuietOperations
    BY <2>1 DEF QuietOperations, Started, Fresh
  <2>. QED BY <1>3, <1>14, <2>2 DEF RecoverTickets, evidenceVars
<1>15. ASSUME NEW sender, NEW fee, UpdateXRPLBaseFee(sender, fee)
       PROVE  QuietRefunds /\ QuietVotes /\ QuietProcessed /\ QuietOperations
  <2>1. ASSUME NEW key \in DOMAIN pendingOperations'
        PROVE  key \in DOMAIN pendingOperations /\ pendingOperations'[key].signatures = {}
    <3>1. key \in DOMAIN pendingOperations /\ pendingOperations[key] \in Operation
      BY <1>15, <2>1 DEF UpdateXRPLBaseFee, TypeOK
    <3>. QED BY <1>15, <3>1 DEF UpdateXRPLBaseFee, Operation
  <2>2. QuietOperations
    BY <2>1 DEF QuietOperations
  <2>. QED BY <1>3, <1>15, <2>2 DEF UpdateXRPLBaseFee, evidenceVars
<1>16. ASSUME NEW sender \in Addr, RelayerNext(sender) \/ UserNext(sender)
       PROVE  QuietRefunds /\ QuietVotes /\ QuietProcessed /\ QuietOperations
  BY <1>5, <1>6, <1>8, <1>9, <1>10, <1>16 DEF RelayerNext, UserNext, SignNext
<1>17. ASSUME NEW sender \in Addr, AdminNext(sender)
       PROVE  QuietRefunds /\ QuietVotes /\ QuietProcessed /\ QuietOperations
  BY <1>7, <1>11, <1>12, <1>13, <1>14, <1>15, <1>17
     DEF AdminNext, ControlNext, RegisterXRPLToken, RecoverXRPLTokenRegistration
<1>. QED BY <1>4, <1>16, <1>17 DEF Next

\* On a halted bridge no message starts or signs anything but allocations and the
\* ongoing rotation, takes a vote for a transfer to Cosmos, pays a refund or processes
\* a transaction that is not the result of a pending operation.
THEOREM HaltedCorrect == Spec => HaltedBridgeIsQuiet
  BY TypeCorrect, HaltedStep, PTL DEF Spec, HaltedBridgeIsQuiet

-----------------------------------------------------------------------------
\* Tickets

\* The tickets that the transactions of the given hashes granted, and the account
\* sequences: what an operation may be stored under
Owned(hashes) ==
  AccountSequences
    \cup UNION {GrantedBy(e) : e \in {f \in Grants : get_tx_hash(f) \in hashes}}

\* The tickets are told apart, from each other and from what operations are stored under.
Apart(tickets, keys, hashes) ==
  /\ IsInjective(tickets)
  /\ Range(tickets) \cap keys = {}
  /\ Range(tickets) \cup keys \subseteq Owned(hashes)

\* An operation on a ticket is stored under that ticket.
Keyed(operations) ==
  \A key \in DOMAIN operations : operations[key].ticket_sequence \in {None, key}

TicketsInv ==
  Apart(availableTickets, DOMAIN pendingOperations, processedTxs) /\ Keyed(pendingOperations)

\* The tickets of a sequence without the first one, and of two sequences in a row
LEMMA TailTickets ==
  ASSUME NEW s \in Seq(Nat), s # <<>>, IsInjective(s)
  PROVE  /\ IsInjective(Tail(s)) /\ Range(Tail(s)) \subseteq Range(s)
         /\ Head(s) \in Range(s) /\ Head(s) \notin Range(Tail(s))
<1>1. /\ Tail(s) \in Seq(Nat) /\ Len(s) \in Nat /\ Len(s) >= 1 /\ Len(Tail(s)) = Len(s) - 1
      /\ \A i \in 1 .. Len(Tail(s)) : Tail(s)[i] = s[i + 1]
      /\ Head(s) = s[1] /\ DOMAIN s = 1 .. Len(s) /\ DOMAIN Tail(s) = 1 .. Len(Tail(s))
  OBVIOUS
<1>2. \A i \in DOMAIN Tail(s) : i + 1 \in DOMAIN s /\ i + 1 # 1 /\ Tail(s)[i] = s[i + 1]
  BY <1>1
<1>3. IsInjective(Tail(s))
  <2> SUFFICES ASSUME NEW i \in DOMAIN Tail(s), NEW j \in DOMAIN Tail(s), Tail(s)[i] = Tail(s)[j]
               PROVE  i = j
    BY DEF IsInjective
  <2>1. i + 1 = j + 1
    BY <1>2 DEF IsInjective
  <2>. QED BY <1>1, <2>1
<1>4. 1 \in DOMAIN s
  BY <1>1
<1>. QED BY <1>1, <1>2, <1>3, <1>4 DEF IsInjective, Range

\* of two sequences in a row,
LEMMA JoinTickets ==
  ASSUME NEW s \in Seq(Nat), NEW t \in Seq(Nat), IsInjective(s), IsInjective(t),
         Range(s) \cap Range(t) = {}
  PROVE  IsInjective(s \o t) /\ Range(s \o t) \subseteq Range(s) \cup Range(t)
<1> DEFINE m == Len(s)
           u == s \o t
<1>1. /\ m \in Nat /\ Len(t) \in Nat /\ DOMAIN s = 1 .. m /\ DOMAIN t = 1 .. Len(t)
      /\ DOMAIN u = 1 .. (m + Len(t))
      /\ \A i \in 1 .. (m + Len(t)) : u[i] = IF i <= m THEN s[i] ELSE t[i - m]
  OBVIOUS
<1> HIDE DEF m, u
<1>2. \A i \in DOMAIN u : \/ i <= m /\ i \in DOMAIN s /\ u[i] = s[i]
                          \/ i > m /\ i - m \in DOMAIN t /\ u[i] = t[i - m]
  BY <1>1
<1>3. \A i \in DOMAIN u : \/ u[i] \in Range(s) /\ u[i] = s[i] /\ i \in DOMAIN s
                          \/ u[i] \in Range(t) /\ u[i] = t[i - m] /\ i - m \in DOMAIN t
  BY <1>2 DEF Range
<1>4. IsInjective(u)
  <2> SUFFICES ASSUME NEW i \in DOMAIN u, NEW j \in DOMAIN u, u[i] = u[j] PROVE i = j
    BY DEF IsInjective
  <2>1. CASE u[i] \in Range(s)
    <3>1. s[i] = s[j] /\ i \in DOMAIN s /\ j \in DOMAIN s
      BY <1>3, <2>1
    <3>. QED BY <3>1 DEF IsInjective
  <2>2. CASE u[i] \in Range(t)
    <3>1. t[i - m] = t[j - m] /\ i - m \in DOMAIN t /\ j - m \in DOMAIN t
      BY <1>3, <2>2
    <3>2. i - m = j - m /\ i \in Int /\ j \in Int
      BY <1>1, <3>1 DEF IsInjective
    <3>. QED BY <1>1, <3>2
  <2>. QED BY <1>3, <2>1, <2>2
<1>5. Range(u) \subseteq Range(s) \cup Range(t)
  BY <1>3 DEF Range
<1>. QED BY <1>4, <1>5 DEF u

\* and of a ticket before others.
LEMMA OneTicket ==
  ASSUME NEW ticket \in Nat
  PROVE  <<ticket>> \in Seq(Nat) /\ IsInjective(<<ticket>>) /\ Range(<<ticket>>) = {ticket}
  BY DEF IsInjective, Range

\* The next ticket is taken for an operation.
LEMMA TakeApart ==
  ASSUME NEW s \in Seq(Nat), s # <<>>, NEW keys, NEW hashes, Apart(s, keys, hashes)
  PROVE  Head(s) \notin keys /\ Apart(Tail(s), keys \cup {Head(s)}, hashes)
  BY TailTickets DEF Apart

\* The ticket of an operation that is removed is returned.
LEMMA ReturnApart ==
  ASSUME NEW s \in Seq(Nat), NEW keys, NEW hashes, Apart(s, keys, hashes), NEW key \in keys \cap Nat
  PROVE  Apart(<<key>> \o s, keys \ {key}, hashes)
<1>1. <<key>> \in Seq(Nat) /\ IsInjective(<<key>>) /\ Range(<<key>>) = {key}
  BY OneTicket
<1>2. PICK one \in Seq(Nat) : one = <<key>> /\ IsInjective(one) /\ Range(one) = {key}
  BY <1>1
<1>3. IsInjective(s) /\ Range(one) \cap Range(s) = {}
  BY <1>2 DEF Apart
<1>4. IsInjective(one \o s) /\ Range(one \o s) \subseteq Range(one) \cup Range(s)
  BY <1>2, <1>3, JoinTickets
<1>. QED BY <1>2, <1>4 DEF Apart

\* More transactions own no less.
LEMMA OwnedMore ==
  ASSUME NEW hashes, NEW more, hashes \subseteq more
  PROVE  Owned(hashes) \subseteq Owned(more)
  BY DEF Owned

\* New tickets are apart from all that are held, if their transaction is new.
LEMMA GrantApart ==
  ASSUME TicketsGrantedOnce, NEW s \in Seq(Nat), NEW keys, NEW hashes, Apart(s, keys, hashes),
         NEW e \in Grants, get_tx_hash(e) \notin hashes, NEW new \in Seq(Nat),
         new = e.operation_result.tickets
  PROVE  Apart(s \o new, keys, hashes \cup {get_tx_hash(e)})
<1>1. IsInjective(new) /\ Range(new) = GrantedBy(e)
  BY DEF TicketsGrantedOnce, GrantedBy
<1>2. Range(new) \cap Owned(hashes) = {}
  BY <1>1 DEF TicketsGrantedOnce, Owned
<1>3. Range(new) \subseteq Owned(hashes \cup {get_tx_hash(e)})
  BY <1>1 DEF Owned
<1>4. Owned(hashes) \subseteq Owned(hashes \cup {get_tx_hash(e)})
  BY OwnedMore
<1>5. IsInjective(s \o new) /\ Range(s \o new) \subseteq Range(s) \cup Range(new)
  BY <1>1, <1>2, JoinTickets DEF Apart
<1>. QED BY <1>2, <1>3, <1>4, <1>5 DEF Apart

\* An operation is created on a ticket that was taken from the others.
LEMMA CreateOnTicket ==
  ASSUME NEW s \in Seq(Nat), s # <<>>, NEW operations, NEW hashes, NEW operationType,
         Apart(s, DOMAIN operations, hashes), Keyed(operations), NEW after,
         after = create_pending_operation(operations, Head(s), None, operationType)
  PROVE  Apart(Tail(s), DOMAIN after, hashes) /\ Keyed(after)
<1>1. PICK ticket \in Nat : ticket = Head(s)
  OBVIOUS
<1>2. OperationKey(ticket, None) = ticket
  BY <1>1, IdentityAssumption DEF OperationKey
<1>3. /\ DOMAIN after = DOMAIN operations \cup {ticket}
      /\ after[ticket].ticket_sequence = ticket
      /\ \A key \in DOMAIN operations : key # ticket => after[key] = operations[key]
  BY <1>1, <1>2 DEF create_pending_operation, Put
<1>4. Apart(Tail(s), DOMAIN after, hashes)
  BY <1>1, <1>3, TakeApart
<1>. QED BY <1>3, <1>4 DEF Keyed

\* An operation that is removed leaves the others under their keys.
LEMMA RemoveKeyed ==
  ASSUME NEW operations, Keyed(operations), NEW key
  PROVE  Keyed(Without(operations, key)) /\ DOMAIN Without(operations, key) = DOMAIN operations \ {key}
<1>1. PICK rest : rest = Without(operations, key)
  OBVIOUS
<1>2. /\ DOMAIN rest = DOMAIN operations \ {key}
      /\ \A k \in DOMAIN operations \ {key} : rest[k] = operations[k]
  BY <1>1, WithoutEntries
<1>3. Keyed(rest)
  BY <1>2 DEF Keyed
<1>. QED BY <1>1, <1>2, <1>3

\* The tickets that are left, or moved on, when an operation is removed
LEMMA FewerApart ==
  ASSUME NEW s, NEW keys, NEW hashes, Apart(s, keys, hashes), NEW fewer, NEW more,
         fewer \subseteq keys, hashes \subseteq more
  PROVE  Apart(s, fewer, more)
  BY OwnedMore DEF Apart

\* The messages that leave the tickets where they are
TicketsKept ==
  /\ availableTickets' = availableTickets
  /\ processedTxs \subseteq processedTxs'
  /\ DOMAIN pendingOperations' = DOMAIN pendingOperations
  /\ \A key \in DOMAIN pendingOperations :
       pendingOperations'[key].ticket_sequence = pendingOperations[key].ticket_sequence

\* The messages that take the next ticket for an operation
TicketTaken ==
  /\ availableTickets # <<>>
  /\ availableTickets' = Tail(availableTickets)
  /\ processedTxs' = processedTxs
  /\ \E operationType :
       pendingOperations' = create_pending_operation(pendingOperations, Head(availableTickets),
                                                     None, operationType)

\* UpdateXRPLBaseFee leaves the tickets where they are.
LEMMA BaseFeeTickets ==
  ASSUME TypeOK, NEW sender, NEW fee, UpdateXRPLBaseFee(sender, fee)
  PROVE  TicketsKept
<1>1. ASSUME NEW key \in DOMAIN pendingOperations
      PROVE  pendingOperations'[key].ticket_sequence = pendingOperations[key].ticket_sequence
  <2>1. pendingOperations[key] \in Operation
    BY DEF TypeOK
  <2>. QED BY <2>1 DEF UpdateXRPLBaseFee, Operation
<1>2. DOMAIN pendingOperations' = DOMAIN pendingOperations
  BY DEF UpdateXRPLBaseFee
<1>3. availableTickets' = availableTickets /\ processedTxs' = processedTxs
  BY DEF UpdateXRPLBaseFee, ticketVars, evidenceVars
<1>. QED BY <1>1, <1>2, <1>3 DEF TicketsKept

\* What a message does with the tickets
LEMMA TicketCases ==
  ASSUME TypeOK, [Next]_vars
  PROVE  \/ TicketsKept
         \/ TicketTaken
         \/ \E sender \in Addr, account \in AccountSequences, number \in TicketNumbers :
              RecoverTickets(sender, account, number)
         \/ \E sender \in Addr, e \in EvidenceInputs : ConfirmOperation(sender, e)
         \/ \E sender \in Addr, key \in DOMAIN pendingOperations :
              CancelPendingOperation(sender, key)
<1>1. ASSUME UNCHANGED <<availableTickets, pendingOperations, processedTxs>> PROVE TicketsKept
  BY <1>1 DEF TicketsKept
<1>2. ASSUME NEW operationType, NEW state, NEW rotating,
             create_operation_on_ticket(operationType, state, rotating),
             UNCHANGED processedTxs
      PROVE  TicketTaken
  <2>1. availableTickets # <<>>
    <3>1. Len(availableTickets) > 1
      BY <1>2 DEF create_operation_on_ticket, allocate_ticket
    <3>. QED BY <3>1
  <2>. QED BY <1>2, <2>1 DEF create_operation_on_ticket, allocate_ticket, TicketTaken
<1>3. ASSUME NEW sender \in Addr, NEW key, NEW version, SaveSignature(sender, key, version)
      PROVE  TicketsKept
  <2>1. PICK operation \in Operation : operation = pendingOperations[key]
    BY <1>3, SignatureEffect DEF TypeOK
  <2>2. PICK signatures :
          signatures = operation.signatures \cup {[relayer |-> sender, version |-> version]}
    OBVIOUS
  <2>3. pendingOperations'[key] = [operation EXCEPT !.signatures = signatures]
    BY <1>3, <2>1, <2>2, SignatureEffect
  <2>4. pendingOperations'[key].ticket_sequence = pendingOperations[key].ticket_sequence
    BY <2>1, <2>3 DEF Operation
  <2>. QED BY <1>3, <2>4, SignatureEffect DEF SaveSignature, TicketsKept, ticketVars, evidenceVars
<1>4. ASSUME NEW sender, NEW fee, UpdateXRPLBaseFee(sender, fee) PROVE TicketsKept
  BY <1>4, BaseFeeTickets
<1>5. ASSUME NEW sender, NEW e, RecordEvidence(sender, e) \/ ConfirmTransfer(sender, e)
      PROVE  TicketsKept
  BY <1>5 DEF RecordEvidence, ConfirmTransfer, TicketsKept, ticketVars, processedWith
<1>6. CASE UNCHANGED vars \/ Tick
  BY <1>1, <1>6 DEF vars, Tick, ticketVars, evidenceVars
<1>7. ASSUME NEW sender \in Addr, RelayerNext(sender)
      PROVE  TicketsKept \/ \E e \in EvidenceInputs : ConfirmOperation(sender, e)
  BY <1>3, <1>5, <1>7 DEF RelayerNext, SignNext
<1>8. ASSUME NEW sender \in Addr, UserNext(sender) PROVE TicketsKept \/ TicketTaken
  <2>1. ASSUME NEW send, SendToXRPL(send) PROVE TicketTaken
    BY <1>2, <2>1 DEF SendToXRPL, evidenceVars
  <2>2. ASSUME NEW id, ClaimRefund(sender, id) PROVE TicketsKept
    BY <1>1, <2>2 DEF ClaimRefund, ticketVars, evidenceVars
  <2>. QED BY <1>8, <2>1, <2>2 DEF UserNext
<1>9. ASSUME NEW sender \in Addr, AdminNext(sender)
      PROVE  \/ TicketsKept \/ TicketTaken
             \/ \E account \in AccountSequences, number \in TicketNumbers :
                  RecoverTickets(sender, account, number)
             \/ \E key \in DOMAIN pendingOperations : CancelPendingOperation(sender, key)
  <2>1. ASSUME NEW item, NEW target,
               \/ RegisterCosmosToken(sender, item)
               \/ UpdateXRPLToken(sender, item, target)
               \/ UpdateCosmosToken(sender, item, target)
               \/ UpdateUsedTicketSequenceThreshold(sender, item)
               \/ HaltBridge(sender) \/ ResumeBridge(sender)
               \/ UpdateProhibitedXRPLAddresses(sender, item)
        PROVE  TicketsKept
    BY <1>1, <2>1
       DEF RegisterCosmosToken, UpdateXRPLToken, UpdateCosmosToken,
           UpdateUsedTicketSequenceThreshold, HaltBridge, ResumeBridge,
           UpdateProhibitedXRPLAddresses, ticketVars, evidenceVars
  <2>2. ASSUME NEW token, RegisterXRPLToken(sender, token) \/ RecoverXRPLTokenRegistration(sender, token)
        PROVE  TicketTaken
    BY <1>2, <2>2 DEF RegisterXRPLToken, RecoverXRPLTokenRegistration, StartTrustSet, evidenceVars
  <2>3. ASSUME NEW rotation, RotateKeys(sender, rotation) PROVE TicketTaken
    BY <1>2, <2>3 DEF RotateKeys, evidenceVars
  <2>. QED BY <1>4, <1>9, <2>1, <2>2, <2>3 DEF AdminNext, ControlNext
<1>. QED BY <1>6, <1>7, <1>8, <1>9 DEF Next

\* Removing an operation and returning its ticket or not, below the threshold that
\* starts an allocation
LEMMA RemovedApart ==
  ASSUME NEW s \in Seq(Nat), NEW operations, NEW hashes, Apart(s, DOMAIN operations, hashes),
         Keyed(operations), NEW key \in DOMAIN operations, key \in Nat,
         NEW t, t = s \/ t = <<key>> \o s, NEW more, hashes \subseteq more,
         NEW rest, rest = Without(operations, key)
  PROVE  t \in Seq(Nat) /\ Apart(t, DOMAIN rest, more) /\ Keyed(rest)
<1>1. Keyed(rest) /\ DOMAIN rest = DOMAIN operations \ {key}
  BY RemoveKeyed
<1>2. CASE t = s
  BY <1>1, <1>2, FewerApart
<1>3. CASE t = <<key>> \o s
  <2>1. t \in Seq(Nat)
    <3>1. <<key>> \in Seq(Nat)
      BY OneTicket
    <3>. QED BY <1>3, <3>1
  <2>2. Apart(t, DOMAIN rest, hashes)
    BY <1>1, <1>3, ReturnApart
  <2>3. Apart(t, DOMAIN rest, more)
    BY <2>2, FewerApart
  <2>. QED BY <1>1, <2>1, <2>3
<1>. QED BY <1>2, <1>3

\* The available tickets after handle_operation
HandledTo(operation, result, operationResult, ticket, after) ==
  IF result = "Accepted" /\ operation.operation_type.type = "AllocateTickets"
  THEN after = availableTickets \o operationResult.tickets
  ELSE after = IF result = "Invalid" /\ ticket # None
               THEN <<ticket>> \o availableTickets ELSE availableTickets

\* handle_operation appends the tickets that are granted, or gives one back.
LEMMA HandledAvailable ==
  ASSUME TypeOK, NEW operation, NEW result, NEW operationResult, NEW ticket
  PROVE  HandledTo(operation, result, operationResult, ticket,
                   TicketsHandled(operation, result, operationResult, ticket).available)
<1>1. PICK after : after = TicketsHandled(operation, result, operationResult, ticket).available
  OBVIOUS
<1>2. TicketsOK(TicketState) /\ TicketState.available = availableTickets
  BY TicketStateTyped DEF TicketState
<1>3. PICK before : before = TicketState /\ TicketsOK(before) /\ before.available = availableTickets
  BY <1>2
<1>4. PICK confirmed :
        /\ confirmed = IF operation.operation_type.type = "AllocateTickets"
                       THEN handle_ticket_allocation_confirmation(before, operationResult.tickets,
                                                                  result)
                       ELSE before
  OBVIOUS
<1>5. after = IF result = "Invalid" /\ ticket # None
              THEN return_ticket(confirmed, ticket).available ELSE confirmed.available
  BY <1>3, <1>4, <1>1 DEF TicketsHandled
<1>6. confirmed.available =
        IF result = "Accepted" /\ operation.operation_type.type = "AllocateTickets"
        THEN availableTickets \o operationResult.tickets ELSE availableTickets
  <2>1. [before EXCEPT !.updating = FALSE].available = before.available
    BY <1>3 DEF TicketsOK
  <2>. QED BY <1>3, <1>4, <2>1 DEF handle_ticket_allocation_confirmation
<1>7. result = "Invalid" => confirmed \in [available : Seq(Nat), used : Nat, updating : BOOLEAN]
  BY <1>3, <1>4 DEF TicketsOK, handle_ticket_allocation_confirmation
<1>8. result = "Invalid" => return_ticket(confirmed, ticket).available = <<ticket>> \o confirmed.available
  BY <1>7 DEF return_ticket
<1>9. HandledTo(operation, result, operationResult, ticket, after)
  BY <1>5, <1>6, <1>8 DEF HandledTo
<1>. QED BY <1>1, <1>9

\* register_used_ticket keeps the tickets apart.
LEMMA RegisterApart ==
  ASSUME NEW tickets, TicketsOK(tickets), NEW operations, NEW hashes,
         Apart(tickets.available, DOMAIN operations, hashes), Keyed(operations),
         \/ register_used_ticket(tickets, operations)
         \/ SetTicketState(tickets) /\ pendingOperations' = operations
  PROVE  Apart(availableTickets', DOMAIN pendingOperations', hashes) /\ Keyed(pendingOperations')
<1>1. CASE register_used_ticket(tickets, operations) /\ TriggersAllocation(tickets)
  <2>1. PICK s \in Seq(Nat) : s = tickets.available
    BY DEF TicketsOK
  <2>2. s # <<>>
    BY <1>1, <2>1 DEF TriggersAllocation
  <2>3. /\ pendingOperations' = create_pending_operation(operations, Head(s), None, AllocationType)
        /\ availableTickets' = Tail(s)
    BY <1>1, <2>1 DEF register_used_ticket, SetTicketState
  <2>4. PICK after : after = pendingOperations'
    OBVIOUS
  <2>5. after = create_pending_operation(operations, Head(s), None, AllocationType)
    BY <2>3, <2>4
  <2>6. PICK operationType : operationType = AllocationType
    OBVIOUS
  <2>7. Apart(Tail(s), DOMAIN after, hashes) /\ Keyed(after)
    BY <2>1, <2>2, <2>5, <2>6, CreateOnTicket
  <2>. QED BY <2>3, <2>4, <2>7
<1>2. CASE register_used_ticket(tickets, operations) /\ ~TriggersAllocation(tickets)
  <2>1. /\ pendingOperations' = operations
        /\ availableTickets' = [tickets EXCEPT !.used = tickets.used + 1].available
    BY <1>2 DEF register_used_ticket, SetTicketState
  <2>2. availableTickets' = tickets.available
    BY <2>1 DEF TicketsOK
  <2>. QED BY <2>1, <2>2
<1>3. CASE SetTicketState(tickets) /\ pendingOperations' = operations
  BY <1>3 DEF SetTicketState
<1>. QED BY <1>1, <1>2, <1>3

\* A confirmed result keeps the tickets apart: those it grants are new, the ticket
\* it returns is the operation's, and the next is taken for at most one operation.
LEMMA ConfirmTickets ==
  ASSUME TicketsGrantedOnce, TypeOK, TicketsInv, NEW sender, NEW e \in EvidenceInputs,
         ConfirmOperation(sender, e)
  PROVE  TicketsInv'
<1> DEFINE grants == /\ e.transaction_result = "Accepted"
                     /\ pendingOperations[ResultKey(e)].operation_type.type = "AllocateTickets"
<1>1. e \in Evidence
  BY InputAssumption
<1>2. /\ validate_basic(e) /\ ResultAllowed(e) /\ e.kind = "XRPLTransactionResult"
      /\ is_operation_valid(e) => get_tx_hash(e) \notin processedTxs
      /\ processedTxs' = processedWith(e)
  BY DEF ConfirmOperation, EvidenceAccepted, ResultAllowed
<1>3. /\ ResultKey(e) \in DOMAIN pendingOperations /\ ResultKey(e) \in Nat
      /\ e.ticket_sequence \in Nat \cup {None}
      /\ e.transaction_result = "Accepted" /\ e.operation_result # None
              => e.operation_result.tickets \in Seq(Nat)
  BY <1>1, <1>2, ResultTyped
<1>4. PICK key \in Nat : key = ResultKey(e) /\ key \in DOMAIN pendingOperations
  BY <1>3
<1>5. e.ticket_sequence # None => e.ticket_sequence = key
  BY <1>2, <1>4 DEF validate_basic, ResultKey, OperationKey
<1>6. pendingOperations[key].operation_type.type = "AllocateTickets" => e.operation_result # None
  BY <1>4 DEF ConfirmOperation, handle_operation
<1>7. PICK operation, operations, hashes :
        /\ operations = pendingOperations /\ operation = pendingOperations[key]
        /\ hashes = processedTxs
  OBVIOUS
<1>8. PICK tickets : tickets = TicketsHandled(operation, e.transaction_result, e.operation_result,
                                              e.ticket_sequence)
  OBVIOUS
<1>9. PICK remaining : remaining = Without(operations, key)
  OBVIOUS
<1>10. PICK s \in Seq(Nat) : s = availableTickets
  BY DEF TypeOK
<1>11. PICK more : more = processedTxs' /\ hashes \subseteq more
  BY <1>2, <1>7 DEF processedWith
<1>12. Apart(s, DOMAIN operations, hashes) /\ Keyed(operations)
  BY <1>7, <1>10 DEF TicketsInv
<1>13. \/ register_used_ticket(tickets, remaining)
       \/ SetTicketState(tickets) /\ pendingOperations' = remaining
  BY <1>4, <1>7, <1>8, <1>9 DEF ConfirmOperation
<1>14. TicketsOK(tickets)
  <2>1. operation.operation_type.type = "AllocateTickets" => e.operation_result # None
    BY <1>6, <1>7
  <2>. QED BY <1>3, <1>8, <2>1, HandledTyped
<1>15. PICK t \in Seq(Nat) : t = tickets.available
  BY <1>14 DEF TicketsOK
<1>16. IF grants THEN t = s \o e.operation_result.tickets
       ELSE t = IF e.transaction_result = "Invalid" /\ e.ticket_sequence # None
                THEN <<e.ticket_sequence>> \o s ELSE s
  <2>1. HandledTo(operation, e.transaction_result, e.operation_result, e.ticket_sequence, t)
    BY <1>8, <1>15, HandledAvailable
  <2>. QED BY <1>4, <1>7, <1>10, <2>1 DEF HandledTo
<1>17. Apart(t, DOMAIN remaining, more) /\ Keyed(remaining)
  <2>1. CASE grants
    <3>1. e.operation_result # None /\ e.operation_result.tickets \in Seq(Nat)
      BY <1>3, <1>4, <1>6, <2>1
    <3>2. PICK new \in Seq(Nat) : new = e.operation_result.tickets
      BY <3>1
    <3>3. e \in Grants
      <4>1. e.operation_result.tickets # None
        BY <1>2, <2>1, <3>1 DEF validate_basic
      <4>. QED BY <1>2, <2>1, <3>1, <4>1 DEF Grants
    <3>4. is_operation_valid(e)
      BY <2>1 DEF is_operation_valid
    <3>5. get_tx_hash(e) \notin hashes /\ more = hashes \cup {get_tx_hash(e)}
      BY <1>2, <1>7, <1>11, <3>4 DEF processedWith
    <3>6. Apart(s \o new, DOMAIN operations, hashes \cup {get_tx_hash(e)})
      BY <1>12, <3>2, <3>3, <3>5, GrantApart
    <3>7. Apart(t, DOMAIN operations, more)
      BY <1>16, <2>1, <3>2, <3>5, <3>6
    <3>8. Keyed(remaining) /\ DOMAIN remaining = DOMAIN operations \ {key}
      BY <1>9, <1>12, RemoveKeyed
    <3>. QED BY <3>7, <3>8, FewerApart
  <2>2. CASE ~grants
    <3>1. t = s \/ t = <<key>> \o s
      BY <1>5, <1>16, <2>2
    <3>2. key \in DOMAIN operations
      BY <1>4, <1>7
    <3>. QED BY <1>9, <1>11, <1>12, <3>1, <3>2, RemovedApart
  <2>. QED BY <2>1, <2>2
<1>18. Apart(availableTickets', DOMAIN pendingOperations', more) /\ Keyed(pendingOperations')
  BY <1>13, <1>14, <1>15, <1>17, RegisterApart
<1>. QED BY <1>11, <1>18 DEF TicketsInv

\* A cancelled operation gives back its own ticket.
LEMMA CancelTickets ==
  ASSUME TypeOK, TicketsInv, NEW sender, NEW key, CancelPendingOperation(sender, key)
  PROVE  TicketsInv'
<1>1. key \in DOMAIN pendingOperations /\ key \in Nat
  BY DEF CancelPendingOperation, TypeOK
<1>2. PICK operation, operations, hashes :
        /\ operations = pendingOperations /\ operation = pendingOperations[key]
        /\ hashes = processedTxs
  OBVIOUS
<1>3. PICK result : result = IF operation.operation_type.type = "AllocateTickets"
                             THEN [tickets |-> None] ELSE None
  OBVIOUS
<1>4. PICK s \in Seq(Nat) : s = availableTickets
  BY DEF TypeOK
<1>5. Apart(s, DOMAIN operations, hashes) /\ Keyed(operations)
  BY <1>2, <1>4 DEF TicketsInv
<1>6. PICK t : t = TicketsHandled(operation, "Invalid", result, operation.ticket_sequence).available
  OBVIOUS
<1>7. availableTickets' = t /\ pendingOperations' = Without(operations, key) /\ processedTxs' = hashes
  BY <1>2, <1>3, <1>4, <1>6 DEF CancelPendingOperation, SetTicketState
<1>8. t = IF operation.ticket_sequence # None THEN <<operation.ticket_sequence>> \o s ELSE s
  <2>1. HandledTo(operation, "Invalid", result, operation.ticket_sequence, t)
    BY <1>6, HandledAvailable
  <2>. QED BY <1>4, <2>1 DEF HandledTo
<1>9. t = s \/ t = <<key>> \o s
  BY <1>1, <1>2, <1>5, <1>8 DEF Keyed
<1>10. PICK rest : rest = Without(operations, key)
  OBVIOUS
<1>11. Apart(t, DOMAIN rest, hashes) /\ Keyed(rest)
  BY <1>1, <1>2, <1>5, <1>9, <1>10, RemovedApart
<1>. QED BY <1>7, <1>10, <1>11 DEF TicketsInv

\* A step keeps the tickets apart from each other and from the operations.
LEMMA TicketsStep ==
  ASSUME TicketsGrantedOnce, TypeOK, TicketsInv, [Next]_vars
  PROVE  TicketsInv'
<1>1. CASE TicketsKept
  <2>1. PICK s, operations, hashes, after, more :
          /\ s = availableTickets /\ operations = pendingOperations /\ hashes = processedTxs
          /\ after = pendingOperations' /\ more = processedTxs'
    OBVIOUS
  <2>2. Apart(s, DOMAIN operations, hashes) /\ Keyed(operations)
    BY <2>1 DEF TicketsInv
  <2>3. /\ availableTickets' = s /\ hashes \subseteq more /\ DOMAIN after = DOMAIN operations
        /\ \A key \in DOMAIN operations : after[key].ticket_sequence = operations[key].ticket_sequence
    BY <1>1, <2>1 DEF TicketsKept
  <2>4. Apart(s, DOMAIN after, more)
    BY <2>2, <2>3, FewerApart
  <2>5. Keyed(after)
    BY <2>2, <2>3 DEF Keyed
  <2>. QED BY <2>1, <2>3, <2>4, <2>5 DEF TicketsInv
<1>2. CASE TicketTaken
  <2>1. PICK s \in Seq(Nat) : s = availableTickets
    BY DEF TypeOK
  <2>2. PICK operations, hashes, after :
          /\ operations = pendingOperations /\ hashes = processedTxs
          /\ after = pendingOperations'
    OBVIOUS
  <2>3. Apart(s, DOMAIN operations, hashes) /\ Keyed(operations)
    BY <2>1, <2>2 DEF TicketsInv
  <2>4. PICK operationType : after = create_pending_operation(operations, Head(s), None, operationType)
    BY <1>2, <2>1, <2>2 DEF TicketTaken
  <2>5. s # <<>> /\ availableTickets' = Tail(s) /\ processedTxs' = hashes
    BY <1>2, <2>1, <2>2 DEF TicketTaken
  <2>6. Apart(Tail(s), DOMAIN after, hashes) /\ Keyed(after)
    BY <2>3, <2>4, <2>5, CreateOnTicket
  <2>. QED BY <2>2, <2>5, <2>6 DEF TicketsInv
<1>3. ASSUME NEW sender \in Addr, NEW account \in AccountSequences, NEW number \in TicketNumbers,
             RecoverTickets(sender, account, number)
      PROVE  TicketsInv'
  <2>1. OperationKey(None, account) = account
    BY DEF OperationKey
  <2>2. /\ availableTickets = <<>> /\ availableTickets' = availableTickets
        /\ processedTxs' = processedTxs
        /\ \E type : pendingOperations' = create_pending_operation(pendingOperations, None, account, type)
    BY <1>3 DEF RecoverTickets, evidenceVars
  <2>3. /\ DOMAIN pendingOperations' = DOMAIN pendingOperations \cup {account}
        /\ pendingOperations'[account].ticket_sequence = None
        /\ \A key \in DOMAIN pendingOperations :
             key # account => pendingOperations'[key] = pendingOperations[key]
    BY <2>1, <2>2 DEF create_pending_operation, Put
  <2>4. account \in Owned(processedTxs)
    BY DEF Owned
  <2>5. Apart(availableTickets, DOMAIN pendingOperations \cup {account}, processedTxs)
    <3>1. Range(availableTickets) = {}
      BY <2>2 DEF Range
    <3>. QED BY <2>4, <3>1 DEF TicketsInv, Apart
  <2>6. Keyed(pendingOperations')
    BY <2>3 DEF TicketsInv, Keyed
  <2>. QED BY <2>2, <2>3, <2>5, <2>6 DEF TicketsInv
<1>. QED BY <1>1, <1>2, <1>3, TicketCases, ConfirmTickets, CancelTickets

\* Tickets that are told apart are held once.
LEMMA ApartHeldOnce == TypeOK /\ TicketsInv => TicketsHeldOnce
<1> SUFFICES ASSUME TypeOK, TicketsInv PROVE TicketsHeldOnce
  OBVIOUS
<1>1. \A i, j \in DOMAIN availableTickets : availableTickets[i] = availableTickets[j] => i = j
  BY DEF TicketsInv, Apart, IsInjective
<1>2. ASSUME NEW key \in DOMAIN pendingOperations, NEW i \in DOMAIN availableTickets
      PROVE  pendingOperations[key].ticket_sequence # availableTickets[i]
  <2>1. availableTickets[i] \in Range(availableTickets) /\ availableTickets[i] \in Nat
    BY DEF Range, TypeOK
  <2>2. availableTickets[i] # key /\ availableTickets[i] # None
    BY <2>1, IdentityAssumption DEF TicketsInv, Apart
  <2>. QED BY <2>2 DEF TicketsInv, Keyed
<1>. QED BY <1>1, <1>2 DEF TicketsHeldOnce

\* A new contract holds no tickets.
LEMMA TicketsInit == Init => TicketsInv
<1> SUFFICES ASSUME Init PROVE TicketsInv
  OBVIOUS
<1>1. availableTickets = <<>> /\ DOMAIN pendingOperations = {}
  BY DEF Init
<1>2. Range(availableTickets) = {} /\ IsInjective(availableTickets)
  BY <1>1 DEF Range, IsInjective
<1>. QED BY <1>1, <1>2 DEF TicketsInv, Apart, Keyed

\* Where the XRPL hands out every ticket number once, the contract keeps it once:
\* among the available tickets, or with the one operation that holds it.
THEOREM TicketsHeldOnceCorrect ==
  ASSUME TicketsGrantedOnce
  PROVE  Spec => []TicketsHeldOnce
<1>1. TypeOK /\ TicketsInv /\ [Next]_vars => TicketsInv'
  BY TicketsStep
<1>. QED BY <1>1, TicketsInit, TypeCorrect, ApartHeldOnce, PTL DEF Spec

=============================================================================
