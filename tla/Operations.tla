----------------------------- MODULE Operations -----------------------------
(***************************************************************************)
(* The control state of the XRPL bridge contract (contracts/cw-xrpl): the  *)
(* relayers and their evidences, the XRPL tickets, the pending operations  *)
(* with their signatures, the token registry and the pending refunds.      *)
(*                                                                         *)
(* Every action is one contract message.  A message runs in one chain      *)
(* transaction, so an early return or an error leaves the state as it was: *)
(* the error paths of a handler are the negation of its guards.            *)
(*                                                                         *)
(* Amounts are opaque here (a member of Amount travels from a transfer to  *)
(* its operation and to its refund).  XRPL addresses and currencies are    *)
(* the well-formed ones; signatures are abstracted to what they sign.      *)
(***************************************************************************)
EXTENDS Integers, Sequences, FiniteSets, Functions

CONSTANTS
  \* Identities
  Addr,                 \* accounts of the Cosmos chain that send messages
  Owner,                \* the contract owner
  ContractAddr,         \* env.contract.address
  XRPLAddress,          \* well-formed XRPL addresses
  BridgeXRPLAddress,    \* the multisig account, config.bridge_xrpl_address
  Currency,             \* well-formed XRPL currencies, and those of CosmosDenom
  CosmosDenom,          \* denoms of Cosmos tokens, each standing for its xrpl_currency too
  XRP,                  \* the key <<XRP_ISSUER, XRP_CURRENCY>>
  Amount,               \* amounts of operations and of refunds
  XRPLAmount,           \* amounts that come from the XRPL
  TxHash, UpperCase,    \* spellings of transaction hashes, and to_uppercase
  None,
  \* The instantiate message
  InitRelayers, InitEvidenceThreshold, InitUsedTicketThreshold, InitBaseFee,
  InitProhibited,
  \* The messages the environment may send
  EvidenceInputs,       \* evidences the relayers may report
  SendInputs,           \* [sender, token, amount, recipient] of SendToXRPL
  Rotations,            \* [new_relayers, new_evidence_threshold] of RotateKeys
  AccountSequences, TicketNumbers,             \* arguments of RecoverTickets
  BaseFees, UsedTicketThresholds, ProhibitedInputs,
  RegisterableTokens,   \* keys that RegisterXRPLToken is called with
  \* Limits of the code and bounds of the model
  MAX_TICKETS, MAX_RELAYERS,
  MaxVersion,           \* bound: versions an operation goes through
  MaxTime               \* bound: seconds of block time

-----------------------------------------------------------------------------
\* Types

Token == XRPLAddress \X Currency

TokenState == {"Enabled", "Disabled", "Processing", "Inactive"}

TransactionResult == {"Accepted", "Rejected", "Invalid"}

\* The memo of a transfer to Cosmos: empty, or the swap that is to follow it
Memo == {"", "swap"}

Relayer == [cosmos_address : Addr, xrpl_address : XRPLAddress]

OperationType ==
  [type : {"AllocateTickets"}, number : Nat]
    \cup [type : {"TrustSet"}, token : Token]
    \cup [type : {"RotateKeys"}, new_relayers : SUBSET Relayer, new_evidence_threshold : Nat]
    \cup [type : {"CosmosToXRPLTransfer"}, token : Token, amount : Amount,
          sender : Addr, recipient : XRPLAddress]

Operation ==
  [id : Nat \X Nat,                             \* <<block time, operation id>>
   version : Nat,
   ticket_sequence : Nat \cup {None},
   account_sequence : Nat \cup {None},
   signatures : SUBSET [relayer : Addr, version : Nat],
   operation_type : OperationType,
   xrpl_base_fee : Nat]

TransferEvidence ==
  [kind : {"XRPLToCosmosTransfer"}, tx_hash : TxHash, token : Token,
   amount : XRPLAmount, recipient : Addr \cup {ContractAddr}, memo : Memo]

ResultEvidence ==
  [kind : {"XRPLTransactionResult"},
   tx_hash : TxHash \cup {None},
   account_sequence : Nat \cup {None},
   ticket_sequence : Nat \cup {None},
   transaction_result : TransactionResult,
   operation_result : {None} \cup [tickets : Seq(Nat) \cup {None}]]

Evidence == TransferEvidence \cup ResultEvidence

\* Mutant: two relayers may share an address.
validate_relayers_AllowsDuplicates(relayers, evidence_threshold, prohibited) ==
  /\ evidence_threshold \in 1 .. Cardinality(relayers)
  /\ Cardinality(relayers) <= MAX_RELAYERS
  /\ \A r \in relayers : r.xrpl_address \notin prohibited

\* Relayers of a set that may be installed: enough of them for the threshold
\* and no address twice, none of their XRPL addresses prohibited.
validate_relayers(relayers, evidence_threshold, prohibited) ==
  /\ evidence_threshold \in 1 .. Cardinality(relayers)
  /\ Cardinality(relayers) <= MAX_RELAYERS
  /\ \A r \in relayers : r.xrpl_address \notin prohibited
  /\ \A r, s \in relayers :
        r # s => r.cosmos_address # s.cosmos_address /\ r.xrpl_address # s.xrpl_address

ASSUME IdentityAssumption ==
  /\ Owner \in Addr /\ ContractAddr \notin Addr
  /\ BridgeXRPLAddress \in XRPLAddress
  /\ CosmosDenom \subseteq Currency
  /\ XRP \in Token /\ XRP[1] # BridgeXRPLAddress
  /\ None \notin Nat /\ None \notin TxHash /\ None \notin Addr
  /\ UpperCase \in [TxHash -> TxHash]
  /\ \A h \in TxHash : UpperCase[UpperCase[h]] = UpperCase[h]

\* What instantiate checks before it saves the configuration.
ASSUME InstantiateAssumption ==
  /\ InitRelayers \subseteq Relayer
  /\ InitEvidenceThreshold \in Nat
  /\ InitProhibited \subseteq XRPLAddress
  /\ validate_relayers(InitRelayers, InitEvidenceThreshold,
                       InitProhibited \cup {BridgeXRPLAddress})
  /\ InitUsedTicketThreshold \in 2 .. MAX_TICKETS
  /\ InitBaseFee \in Nat

ASSUME InputAssumption ==
  /\ EvidenceInputs \subseteq Evidence
  /\ SendInputs \subseteq [sender : Addr, token : Token, amount : Amount,
                            recipient : XRPLAddress]
  /\ Rotations \subseteq [new_relayers : SUBSET Relayer, new_evidence_threshold : Nat]
  /\ AccountSequences \subseteq Nat
  /\ TicketNumbers \subseteq Nat \cup {None}
  /\ BaseFees \subseteq Nat
  /\ UsedTicketThresholds \subseteq Nat
  /\ ProhibitedInputs \subseteq SUBSET XRPLAddress
  /\ RegisterableTokens \subseteq Token

ASSUME BoundAssumption ==
  /\ MAX_TICKETS \in Nat /\ MAX_RELAYERS \in Nat
  /\ MaxVersion \in Nat /\ MaxTime \in Nat

-----------------------------------------------------------------------------
VARIABLES
  config,               \* CONFIG, the fields that change
  availableTickets,     \* AVAILABLE_TICKETS
  usedTickets,          \* USED_TICKETS_COUNTER
  pendingTicketUpdate,  \* PENDING_TICKET_UPDATE
  pendingRotateKeys,    \* PENDING_ROTATE_KEYS
  pendingOperations,    \* PENDING_OPERATIONS, a function from operation ids
  txEvidences,          \* TX_EVIDENCES, a function from evidences to their voters
  processedTxs,         \* PROCESSED_TXS
  xrplTokens,           \* the state of each of XRPL_TOKENS
  cosmosTokens,         \* the state of each of COSMOS_TOKENS
  prohibited,           \* PROHIBITED_XRPL_ADDRESSES
  pendingRefunds,       \* PENDING_REFUNDS, a function from <<address, operation's id>>
  now                   \* env.block.time.seconds()

ticketVars == <<availableTickets, usedTickets, pendingTicketUpdate>>
evidenceVars == <<txEvidences, processedTxs>>
tokenVars == <<xrplTokens, cosmosTokens>>
vars == <<config, ticketVars, pendingRotateKeys, pendingOperations, evidenceVars,
          tokenVars, prohibited, pendingRefunds, now>>

\* One type invariant: the shape of the stored state.
TypeOK ==
  /\ config \in [relayers : SUBSET Relayer, evidence_threshold : Nat,
                 used_ticket_sequence_threshold : Nat,
                 bridge_state : {"Active", "Halted"}, xrpl_base_fee : Nat]
  /\ availableTickets \in Seq(Nat)
  /\ usedTickets \in Nat
  /\ pendingTicketUpdate \in BOOLEAN
  /\ pendingRotateKeys \in BOOLEAN
  /\ DOMAIN pendingOperations \subseteq Nat
  /\ pendingOperations \in [DOMAIN pendingOperations -> Operation]
  /\ DOMAIN txEvidences \subseteq Evidence
  /\ txEvidences \in [DOMAIN txEvidences -> SUBSET Addr]
  /\ processedTxs \subseteq TxHash
  /\ DOMAIN xrplTokens \subseteq Token
  /\ xrplTokens \in [DOMAIN xrplTokens -> TokenState]
  /\ DOMAIN cosmosTokens \subseteq CosmosDenom
  /\ cosmosTokens \in [DOMAIN cosmosTokens -> TokenState]
  /\ prohibited \subseteq XRPLAddress
  /\ DOMAIN pendingRefunds \subseteq Addr \X (Nat \X Nat)
  /\ pendingRefunds \in [DOMAIN pendingRefunds -> [token : Token, amount : Amount]]
  /\ now \in Nat

\* instantiate
Init ==
  /\ config = [relayers |-> InitRelayers,
               evidence_threshold |-> InitEvidenceThreshold,
               used_ticket_sequence_threshold |-> InitUsedTicketThreshold,
               bridge_state |-> "Active",
               xrpl_base_fee |-> InitBaseFee]
  /\ availableTickets = <<>>
  /\ usedTickets = 0
  /\ pendingTicketUpdate = FALSE
  /\ pendingRotateKeys = FALSE
  /\ pendingOperations = [i \in {} |-> None]
  /\ txEvidences = [e \in {} |-> {}]
  /\ processedTxs = {}
  /\ xrplTokens = [t \in {XRP} |-> "Enabled"]
  /\ cosmosTokens = [d \in {} |-> "Enabled"]
  /\ prohibited = InitProhibited \cup {BridgeXRPLAddress}
  /\ pendingRefunds = [k \in {} |-> None]
  /\ now = 0

-----------------------------------------------------------------------------
\* Helpers

\* Map::save and Map::remove
Put(f, key, value) == [k \in DOMAIN f \cup {key} |-> IF k = key THEN value ELSE f[k]]
Without(f, key) == Restrict(f, DOMAIN f \ {key})

relayerAddresses == {r.cosmos_address : r \in config.relayers}

is_relayer(sender) == sender \in relayerAddresses

\* UserType::is_authorized: the messages of the owner and those of a relayer.
\* SendToXRPL and the claims are open to every account.
OwnerActions ==
  {"MintCosmosToken", "RegisterCosmosToken", "RegisterXRPLToken", "RecoverTickets",
   "RecoverXRPLTokenRegistration", "UpdateXRPLToken", "UpdateCosmosToken",
   "UpdateXRPLBaseFee", "UpdateProhibitedXRPLAddresses", "HaltBridge",
   "ResumeBridge", "RotateKeys", "CancelPendingOperation",
   "UpdateUsedTicketSequenceThreshold"}
RelayerActions == {"SaveEvidence", "SaveSignature", "HaltBridge"}

check_authorization(sender, action) ==
  \/ sender = Owner /\ action \in OwnerActions
  \/ is_relayer(sender) /\ action \in RelayerActions

assert_bridge_active == config.bridge_state = "Active"

\* Mutant: only transfers are refused on a halted bridge.
check_valid_operation_if_halt_OnlyTransfers(operationType, bridgeState, rotating) ==
  bridgeState = "Halted" => operationType.type # "CosmosToXRPLTransfer"

\* Only AllocateTickets and, while one is ongoing, RotateKeys pass a halted bridge.
check_valid_operation_if_halt(operationType, bridgeState, rotating) ==
  bridgeState = "Halted" =>
    \/ operationType.type = "AllocateTickets"
    \/ operationType.type = "RotateKeys" /\ rotating

\* create_pending_operation: its two error cases, and the operation it stores.
\* An operation is stored under its ticket or, having none, its account sequence.
OperationKey(ticket, account) == IF ticket # None THEN ticket ELSE account

may_create_operation(operations, key, operationType, bridgeState, rotating) ==
  /\ check_valid_operation_if_halt(operationType, bridgeState, rotating)
  /\ key \notin DOMAIN operations

create_pending_operation(operations, ticket, account, operationType) ==
  Put(operations, OperationKey(ticket, account),
      [id |-> <<now, OperationKey(ticket, account)>>,
       version |-> 1,
       ticket_sequence |-> ticket,
       account_sequence |-> account,
       signatures |-> {},
       operation_type |-> operationType,
       xrpl_base_fee |-> config.xrpl_base_fee])

-----------------------------------------------------------------------------
\* Tickets.  The ticket state passes through several functions of one message,
\* so each is an operator from a ticket state to the next.

TicketState ==
  [available |-> availableTickets, used |-> usedTickets, updating |-> pendingTicketUpdate]

SetTicketState(tickets) ==
  /\ availableTickets' = tickets.available
  /\ usedTickets' = tickets.used
  /\ pendingTicketUpdate' = tickets.updating

\* Mutant: a plain subtraction.
saturating_sub_Plain(a, b) == a - b

saturating_sub(a, b) == IF a > b THEN a - b ELSE 0

\* Mutant: the ticket is read and not removed.
allocate_ticket_Peeks ==
  /\ Len(availableTickets) > 1
  /\ UNCHANGED ticketVars

\* allocate_ticket: the last ticket stays reserved for a ticket allocation.
allocate_ticket ==
  /\ Len(availableTickets) > 1
  /\ availableTickets' = Tail(availableTickets)
  /\ UNCHANGED <<usedTickets, pendingTicketUpdate>>

\* A message that takes a ticket for an operation of the given type.
create_operation_on_ticket(operationType, bridgeState, rotating) ==
  /\ allocate_ticket
  /\ may_create_operation(pendingOperations, Head(availableTickets), operationType,
                          bridgeState, rotating)
  /\ pendingOperations' = create_pending_operation(pendingOperations, Head(availableTickets),
                                                   None, operationType)

\* Mutant: an allocation that fails leaves the flag set.
handle_ticket_allocation_confirmation_KeepsFlag(tickets, newTickets, result) ==
  IF result = "Accepted"
  THEN [available |-> tickets.available \o newTickets,
        used |-> saturating_sub(tickets.used, Len(newTickets)),
        updating |-> FALSE]
  ELSE tickets

handle_ticket_allocation_confirmation(tickets, newTickets, result) ==
  IF result = "Accepted"
  THEN [available |-> tickets.available \o newTickets,
        used |-> saturating_sub(tickets.used, Len(newTickets)),
        updating |-> FALSE]
  ELSE [tickets EXCEPT !.updating = FALSE]

return_ticket(tickets, ticket) ==
  [tickets EXCEPT !.available = <<ticket>> \o @]

\* register_used_ticket counts the ticket and, at the threshold, spends the next
\* ticket on an allocation, if there is one left and no allocation is pending.
TriggersAllocation(tickets) ==
  /\ tickets.used + 1 >= config.used_ticket_sequence_threshold
  /\ ~tickets.updating
  /\ tickets.available # <<>>

AllocationType == [type |-> "AllocateTickets",
                   number |-> config.used_ticket_sequence_threshold]

register_used_ticket(tickets, operations) ==
  IF TriggersAllocation(tickets)
  THEN /\ may_create_operation(operations, Head(tickets.available), AllocationType,
                               config.bridge_state, pendingRotateKeys)
       /\ pendingOperations' = create_pending_operation(operations, Head(tickets.available),
                                                        None, AllocationType)
       /\ SetTicketState([available |-> Tail(tickets.available),
                          used |-> tickets.used + 1,
                          updating |-> TRUE])
  ELSE /\ pendingOperations' = operations
       /\ SetTicketState([tickets EXCEPT !.used = @ + 1])

-----------------------------------------------------------------------------
\* Evidences

validate_basic(e) ==
  e.kind = "XRPLTransactionResult" =>
    /\ (e.account_sequence = None) # (e.ticket_sequence = None)
    /\ (e.transaction_result = "Invalid") <=> (e.tx_hash = None)
    /\ e.operation_result # None =>
         IF e.transaction_result = "Accepted"
         THEN e.operation_result.tickets \notin {None, <<>>}
         ELSE e.operation_result.tickets = None

is_operation_valid(e) ==
  e.kind = "XRPLTransactionResult" => e.transaction_result # "Invalid"

\* Mutant: the hash is looked up as the relayer spelt it.
get_tx_hash_AsGiven(e) == e.tx_hash

get_tx_hash(e) == UpperCase[e.tx_hash]

Votes(e) == IF e \in DOMAIN txEvidences THEN txEvidences[e] ELSE {}

\* What save_evidence and handle_evidence refuse whatever the evidence is about.
EvidenceAccepted(sender, e) ==
  /\ check_authorization(sender, "SaveEvidence")
  /\ validate_basic(e)
  /\ is_operation_valid(e) => get_tx_hash(e) \notin processedTxs
  /\ sender \notin Votes(e)

\* Mutant: one vote less is enough.
ThresholdReached_OneLess(sender, e) ==
  Cardinality(Votes(e) \cup {sender}) + 1 >= config.evidence_threshold

ThresholdReached(sender, e) ==
  Cardinality(Votes(e) \cup {sender}) >= config.evidence_threshold

\* PROCESSED_TXS once the threshold is reached
processedWith(e) ==
  IF is_operation_valid(e) THEN processedTxs \cup {get_tx_hash(e)} ELSE processedTxs

\* The token is registered and enabled.  A Cosmos token is known on the XRPL
\* as a currency issued by the multisig account.
XRPLTokenEnabled(token) == token \in DOMAIN xrplTokens /\ xrplTokens[token] = "Enabled"
CosmosTokenEnabled(denom) == denom \in DOMAIN cosmosTokens /\ cosmosTokens[denom] = "Enabled"

TransferAllowed(e) ==
  /\ e.kind = "XRPLToCosmosTransfer"
  /\ assert_bridge_active
  /\ e.recipient # ContractAddr
  /\ IF e.token[1] # BridgeXRPLAddress
     THEN XRPLTokenEnabled(e.token)
     ELSE CosmosTokenEnabled(e.token[2])

ResultKey(e) == OperationKey(e.account_sequence, e.ticket_sequence)

\* A result is reported for an operation that exists.  TrustSet and transfer
\* operations are only executed with tickets.
ResultAllowed(e) ==
  /\ e.kind = "XRPLTransactionResult"
  /\ ResultKey(e) \in DOMAIN pendingOperations
  /\ pendingOperations[ResultKey(e)].operation_type.type \in {"TrustSet", "CosmosToXRPLTransfer"}
       => e.account_sequence = None

\* SaveEvidence below the threshold: the vote is stored.
RecordEvidence(sender, e) ==
  /\ EvidenceAccepted(sender, e)
  /\ ~ThresholdReached(sender, e)
  /\ TransferAllowed(e) \/ ResultAllowed(e)
  /\ txEvidences' = Put(txEvidences, e, Votes(e) \cup {sender})
  /\ UNCHANGED <<config, ticketVars, pendingRotateKeys, pendingOperations, processedTxs,
                 tokenVars, prohibited, pendingRefunds, now>>

\* SaveEvidence at the threshold, for a transfer: the recipient is credited.
ConfirmTransfer(sender, e) ==
  /\ EvidenceAccepted(sender, e)
  /\ ThresholdReached(sender, e)
  /\ TransferAllowed(e)
  /\ txEvidences' = Without(txEvidences, e)
  /\ processedTxs' = processedWith(e)
  /\ UNCHANGED <<config, ticketVars, pendingRotateKeys, pendingOperations,
                 tokenVars, prohibited, pendingRefunds, now>>

-----------------------------------------------------------------------------
\* handle_operation, for a confirmed and for a cancelled operation.  One
\* conjunct per stored item that some kind of operation changes.

\* Mutant: the votes of the former relayers stay.
handle_rotate_keys_confirmation_KeepsVotes(operationType, result, evidences) ==
  /\ pendingRotateKeys' = (pendingRotateKeys /\ operationType.type # "RotateKeys")
  /\ txEvidences' = evidences
  /\ config' = IF operationType.type = "RotateKeys" /\ result = "Accepted"
               THEN [config EXCEPT
                       !.relayers = operationType.new_relayers,
                       !.evidence_threshold = operationType.new_evidence_threshold]
               ELSE config

\* Mutant: the new relayers are installed whatever the result is.
handle_rotate_keys_confirmation_AnyResult(operationType, result, evidences) ==
  IF operationType.type = "RotateKeys"
  THEN /\ pendingRotateKeys' = FALSE
       /\ config' = [config EXCEPT
                       !.relayers = operationType.new_relayers,
                       !.evidence_threshold = operationType.new_evidence_threshold]
       /\ txEvidences' = [e \in {} |-> {}]
  ELSE /\ txEvidences' = evidences
       /\ UNCHANGED <<config, pendingRotateKeys>>

\* handle_rotate_keys_confirmation; `evidences' are those left by handle_evidence
handle_rotate_keys_confirmation(operationType, result, evidences) ==
  IF operationType.type = "RotateKeys"
  THEN /\ pendingRotateKeys' = FALSE
       /\ IF result = "Accepted"
          THEN /\ config' = [config EXCEPT
                               !.relayers = operationType.new_relayers,
                               !.evidence_threshold = operationType.new_evidence_threshold]
               /\ txEvidences' = [e \in {} |-> {}]
          ELSE /\ config' = config
               /\ txEvidences' = evidences
  ELSE /\ txEvidences' = evidences
       /\ UNCHANGED <<config, pendingRotateKeys>>

handle_trust_set_confirmation(operationType, result) ==
  IF operationType.type = "TrustSet"
  THEN /\ operationType.token \in DOMAIN xrplTokens
       /\ xrplTokens' = [xrplTokens EXCEPT ![operationType.token] =
                           IF result = "Accepted" THEN "Enabled" ELSE "Inactive"]
  ELSE xrplTokens' = xrplTokens

\* Mutant: an Invalid transfer is dropped without a refund.
handle_cosmos_to_xrpl_transfer_confirmation_OnlyRejected(operation, result) ==
  LET transfer == operation.operation_type
  IN pendingRefunds' =
       IF transfer.type = "CosmosToXRPLTransfer" /\ result = "Rejected"
       THEN Put(pendingRefunds, <<transfer.sender, operation.id>>,
                [token |-> transfer.token, amount |-> transfer.amount])
       ELSE pendingRefunds

\* A transfer that was not accepted is stored as a refund to its sender.
handle_cosmos_to_xrpl_transfer_confirmation(operation, result) ==
  LET transfer == operation.operation_type
  IN IF transfer.type = "CosmosToXRPLTransfer" /\ result # "Accepted"
     THEN /\ transfer.token \in DOMAIN xrplTokens \/ transfer.token[2] \in DOMAIN cosmosTokens
          /\ pendingRefunds' = Put(pendingRefunds, <<transfer.sender, operation.id>>,
                                   [token |-> transfer.token, amount |-> transfer.amount])
     ELSE pendingRefunds' = pendingRefunds

\* Mutant: the ticket of a rejected operation is returned, too.
TicketsHandled_ReturnsRejected(operation, result, operationResult, ticket) ==
  LET confirmed == IF operation.operation_type.type = "AllocateTickets"
                   THEN handle_ticket_allocation_confirmation(TicketState,
                                                              operationResult.tickets, result)
                   ELSE TicketState
  IN IF result # "Accepted" /\ ticket # None THEN return_ticket(confirmed, ticket) ELSE confirmed

\* Mutant: the ticket of a refused allocation is forgotten with its result.
TicketsHandled_ForgetsAllocation(operation, result, operationResult, ticket) ==
  IF operation.operation_type.type = "AllocateTickets"
  THEN handle_ticket_allocation_confirmation(TicketState, operationResult.tickets, result)
  ELSE IF result = "Invalid" /\ ticket # None THEN return_ticket(TicketState, ticket)
  ELSE TicketState

\* The ticket state after handle_operation
TicketsHandled(operation, result, operationResult, ticket) ==
  LET confirmed == IF operation.operation_type.type = "AllocateTickets"
                   THEN handle_ticket_allocation_confirmation(TicketState,
                                                              operationResult.tickets, result)
                   ELSE TicketState
  IN IF result = "Invalid" /\ ticket # None THEN return_ticket(confirmed, ticket) ELSE confirmed

handle_operation(operation, result, operationResult, evidences) ==
  /\ operation.operation_type.type = "AllocateTickets" => operationResult # None
  /\ handle_rotate_keys_confirmation(operation.operation_type, result, evidences)
  /\ handle_trust_set_confirmation(operation.operation_type, result)
  /\ handle_cosmos_to_xrpl_transfer_confirmation(operation, result)

\* SaveEvidence at the threshold, for the result of an operation.
ConfirmOperation(sender, e) ==
  LET key == ResultKey(e)
      operation == pendingOperations[key]
      tickets == TicketsHandled(operation, e.transaction_result, e.operation_result,
                                e.ticket_sequence)
      remaining == Without(pendingOperations, key)
  IN /\ EvidenceAccepted(sender, e)
     /\ ThresholdReached(sender, e)
     /\ ResultAllowed(e)
     /\ handle_operation(operation, e.transaction_result, e.operation_result,
                         Without(txEvidences, e))
     /\ IF e.transaction_result # "Invalid" /\ e.ticket_sequence # None
        THEN register_used_ticket(tickets, remaining)
        ELSE SetTicketState(tickets) /\ pendingOperations' = remaining
     /\ processedTxs' = processedWith(e)
     /\ UNCHANGED <<cosmosTokens, prohibited, now>>

\* The owner drops an operation, with the effects of an Invalid result.
CancelPendingOperation(sender, key) ==
  LET operation == pendingOperations[key]
      operationResult == IF operation.operation_type.type = "AllocateTickets"
                         THEN [tickets |-> None] ELSE None
  IN /\ check_authorization(sender, "CancelPendingOperation")
     /\ key \in DOMAIN pendingOperations
     /\ handle_operation(operation, "Invalid", operationResult, txEvidences)
     /\ SetTicketState(TicketsHandled(operation, "Invalid", operationResult,
                                      operation.ticket_sequence))
     /\ pendingOperations' = Without(pendingOperations, key)
     /\ UNCHANGED <<processedTxs, cosmosTokens, prohibited, now>>

-----------------------------------------------------------------------------
\* Tokens

RegisterCosmosToken(sender, denom) ==
  /\ check_authorization(sender, "RegisterCosmosToken")
  /\ assert_bridge_active
  /\ denom \notin DOMAIN cosmosTokens
  /\ cosmosTokens' = Put(cosmosTokens, denom, "Enabled")
  /\ UNCHANGED <<config, ticketVars, pendingRotateKeys, pendingOperations, evidenceVars,
                 xrplTokens, prohibited, pendingRefunds, now>>

\* The token is Processing until its TrustSet operation is settled.
StartTrustSet(token) ==
  /\ xrplTokens' = Put(xrplTokens, token, "Processing")
  /\ create_operation_on_ticket([type |-> "TrustSet", token |-> token],
                                config.bridge_state, pendingRotateKeys)
  /\ UNCHANGED <<config, pendingRotateKeys, evidenceVars, cosmosTokens, prohibited,
                 pendingRefunds, now>>

RegisterXRPLToken(sender, token) ==
  /\ check_authorization(sender, "RegisterXRPLToken")
  /\ token[1] \notin prohibited
  /\ token[2] # XRP[2]
  /\ token \notin DOMAIN xrplTokens
  /\ StartTrustSet(token)

RecoverXRPLTokenRegistration(sender, token) ==
  /\ check_authorization(sender, "RecoverXRPLTokenRegistration")
  /\ token \in DOMAIN xrplTokens
  /\ xrplTokens[token] = "Inactive"
  /\ StartTrustSet(token)

\* Mutant: the current state is not looked at.
set_token_state_FromAny(state, target) == target \in {"Enabled", "Disabled"}

\* The changes of state that set_token_state accepts.  (A message that names no
\* state changes only parameters of the token, which are left out here.)
set_token_state(state, target) ==
  state \in {"Enabled", "Disabled"} /\ target \in {"Enabled", "Disabled"}

UpdateXRPLToken(sender, token, target) ==
  /\ check_authorization(sender, "UpdateXRPLToken")
  /\ assert_bridge_active
  /\ token \in DOMAIN xrplTokens
  /\ set_token_state(xrplTokens[token], target)
  /\ xrplTokens' = Put(xrplTokens, token, target)
  /\ UNCHANGED <<config, ticketVars, pendingRotateKeys, pendingOperations, evidenceVars,
                 cosmosTokens, prohibited, pendingRefunds, now>>

UpdateCosmosToken(sender, denom, target) ==
  /\ check_authorization(sender, "UpdateCosmosToken")
  /\ assert_bridge_active
  /\ denom \in DOMAIN cosmosTokens
  /\ set_token_state(cosmosTokens[denom], target)
  /\ cosmosTokens' = Put(cosmosTokens, denom, target)
  /\ UNCHANGED <<config, ticketVars, pendingRotateKeys, pendingOperations, evidenceVars,
                 xrplTokens, prohibited, pendingRefunds, now>>

-----------------------------------------------------------------------------
\* Transfers to the XRPL and their refunds

Transfer(send) ==
  [type |-> "CosmosToXRPLTransfer", token |-> send.token, amount |-> send.amount,
   sender |-> send.sender, recipient |-> send.recipient]

SendToXRPL(send) ==
  /\ assert_bridge_active
  /\ send.recipient \notin prohibited
  /\ \/ XRPLTokenEnabled(send.token)
     \/ send.token[1] = BridgeXRPLAddress /\ CosmosTokenEnabled(send.token[2])
  /\ create_operation_on_ticket(Transfer(send), config.bridge_state, pendingRotateKeys)
  /\ UNCHANGED <<config, pendingRotateKeys, evidenceVars, tokenVars, prohibited,
                 pendingRefunds, now>>

\* Mutant: refunds can be claimed from a halted bridge.
ClaimRefund_WhileHalted(sender, id) ==
  /\ <<sender, id>> \in DOMAIN pendingRefunds
  /\ pendingRefunds' = Without(pendingRefunds, <<sender, id>>)
  /\ UNCHANGED <<config, ticketVars, pendingRotateKeys, pendingOperations, evidenceVars,
                 tokenVars, prohibited, now>>

ClaimRefund(sender, id) ==
  /\ assert_bridge_active
  /\ <<sender, id>> \in DOMAIN pendingRefunds
  /\ pendingRefunds' = Without(pendingRefunds, <<sender, id>>)
  /\ UNCHANGED <<config, ticketVars, pendingRotateKeys, pendingOperations, evidenceVars,
                 tokenVars, prohibited, now>>

SaveSignature(sender, key, version) ==
  LET operation == pendingOperations[key]
  IN /\ check_authorization(sender, "SaveSignature")
     /\ key \in DOMAIN pendingOperations
     /\ version = operation.version
     /\ check_valid_operation_if_halt(operation.operation_type, config.bridge_state,
                                      pendingRotateKeys)
     /\ \A s \in operation.signatures : s.relayer # sender
     /\ pendingOperations' = [pendingOperations EXCEPT ![key].signatures =
                                @ \cup {[relayer |-> sender, version |-> version]}]
     /\ UNCHANGED <<config, ticketVars, pendingRotateKeys, evidenceVars, tokenVars,
                    prohibited, pendingRefunds, now>>

-----------------------------------------------------------------------------
\* The owner's messages

RecoverTickets(sender, account, number_of_tickets) ==
  LET number == IF number_of_tickets = None THEN usedTickets ELSE number_of_tickets
      operationType == [type |-> "AllocateTickets", number |-> number]
  IN /\ check_authorization(sender, "RecoverTickets")
     /\ availableTickets = <<>>
     /\ ~pendingTicketUpdate
     /\ number > config.used_ticket_sequence_threshold
     /\ number <= MAX_TICKETS
     /\ may_create_operation(pendingOperations, account, operationType,
                             config.bridge_state, pendingRotateKeys)
     /\ pendingOperations' = create_pending_operation(pendingOperations, None, account,
                                                      operationType)
     /\ pendingTicketUpdate' = TRUE
     /\ UNCHANGED <<config, availableTickets, usedTickets, pendingRotateKeys, evidenceVars,
                    tokenVars, prohibited, pendingRefunds, now>>

\* Mutant: the signatures given for the old fee stay.
UpdateXRPLBaseFee_KeepsSignatures(sender, fee) ==
  /\ check_authorization(sender, "UpdateXRPLBaseFee")
  /\ \A key \in DOMAIN pendingOperations : pendingOperations[key].version < MaxVersion
  /\ config' = [config EXCEPT !.xrpl_base_fee = fee]
  /\ pendingOperations' = [key \in DOMAIN pendingOperations |->
                             [pendingOperations[key] EXCEPT !.version = @ + 1,
                                                            !.xrpl_base_fee = fee]]
  /\ UNCHANGED <<ticketVars, pendingRotateKeys, evidenceVars, tokenVars, prohibited,
                 pendingRefunds, now>>

\* Every pending operation gets the new fee, a new version and loses its signatures.
UpdateXRPLBaseFee(sender, fee) ==
  /\ check_authorization(sender, "UpdateXRPLBaseFee")
  /\ \A key \in DOMAIN pendingOperations : pendingOperations[key].version < MaxVersion
  /\ config' = [config EXCEPT !.xrpl_base_fee = fee]
  /\ pendingOperations' = [key \in DOMAIN pendingOperations |->
                             [pendingOperations[key] EXCEPT !.version = @ + 1,
                                                            !.signatures = {},
                                                            !.xrpl_base_fee = fee]]
  /\ UNCHANGED <<ticketVars, pendingRotateKeys, evidenceVars, tokenVars, prohibited,
                 pendingRefunds, now>>

UpdateUsedTicketSequenceThreshold(sender, threshold) ==
  /\ check_authorization(sender, "UpdateUsedTicketSequenceThreshold")
  /\ config' = [config EXCEPT !.used_ticket_sequence_threshold = threshold]
  /\ UNCHANGED <<ticketVars, pendingRotateKeys, pendingOperations, evidenceVars, tokenVars,
                 prohibited, pendingRefunds, now>>

HaltBridge(sender) ==
  /\ check_authorization(sender, "HaltBridge")
  /\ assert_bridge_active
  /\ config' = [config EXCEPT !.bridge_state = "Halted"]
  /\ UNCHANGED <<ticketVars, pendingRotateKeys, pendingOperations, evidenceVars, tokenVars,
                 prohibited, pendingRefunds, now>>

\* Mutant: the bridge resumes during a rotation.
ResumeBridge_DuringRotation(sender) ==
  /\ check_authorization(sender, "ResumeBridge")
  /\ config' = [config EXCEPT !.bridge_state = "Active"]
  /\ UNCHANGED <<ticketVars, pendingRotateKeys, pendingOperations, evidenceVars, tokenVars,
                 prohibited, pendingRefunds, now>>

ResumeBridge(sender) ==
  /\ check_authorization(sender, "ResumeBridge")
  /\ ~pendingRotateKeys
  /\ config' = [config EXCEPT !.bridge_state = "Active"]
  /\ UNCHANGED <<ticketVars, pendingRotateKeys, pendingOperations, evidenceVars, tokenVars,
                 prohibited, pendingRefunds, now>>

RotateKeys(sender, rotation) ==
  /\ check_authorization(sender, "RotateKeys")
  /\ ~pendingRotateKeys
  /\ pendingRotateKeys' = TRUE
  /\ config' = [config EXCEPT !.bridge_state = "Halted"]
  /\ validate_relayers(rotation.new_relayers, rotation.new_evidence_threshold, prohibited)
  /\ create_operation_on_ticket(
       [type |-> "RotateKeys", new_relayers |-> rotation.new_relayers,
        new_evidence_threshold |-> rotation.new_evidence_threshold],
       "Halted", TRUE)
  /\ UNCHANGED <<evidenceVars, tokenVars, prohibited, pendingRefunds, now>>

\* Mutant: the list of the message replaces the whole set.
UpdateProhibitedXRPLAddresses_ReplacesAll(sender, addresses) ==
  /\ check_authorization(sender, "UpdateProhibitedXRPLAddresses")
  /\ prohibited' = addresses
  /\ UNCHANGED <<config, ticketVars, pendingRotateKeys, pendingOperations, evidenceVars,
                 tokenVars, pendingRefunds, now>>

UpdateProhibitedXRPLAddresses(sender, addresses) ==
  /\ check_authorization(sender, "UpdateProhibitedXRPLAddresses")
  /\ prohibited' = {BridgeXRPLAddress} \cup addresses
  /\ UNCHANGED <<config, ticketVars, pendingRotateKeys, pendingOperations, evidenceVars,
                 tokenVars, pendingRefunds, now>>

\* Block time.  Several messages may share one second.
Tick ==
  /\ now < MaxTime
  /\ now' = now + 1
  /\ UNCHANGED <<config, ticketVars, pendingRotateKeys, pendingOperations, evidenceVars,
                 tokenVars, prohibited, pendingRefunds>>

-----------------------------------------------------------------------------
\* The messages: those of relayers, those of the owner (HaltBridge is a relayer's
\* too), those of any account.

SignNext(sender) ==
  \E key \in DOMAIN pendingOperations, version \in 1 .. MaxVersion :
    SaveSignature(sender, key, version)

RelayerNext(sender) ==
  \/ \E e \in EvidenceInputs : RecordEvidence(sender, e)
  \/ \E e \in EvidenceInputs : ConfirmTransfer(sender, e)
  \/ \E e \in EvidenceInputs : ConfirmOperation(sender, e)
  \/ SignNext(sender)

\* The owner's messages that concern no coins
ControlNext(sender) ==
  \/ \E token \in RegisterableTokens : RecoverXRPLTokenRegistration(sender, token)
  \/ \E account \in AccountSequences, number \in TicketNumbers :
        RecoverTickets(sender, account, number)
  \/ \E fee \in BaseFees : UpdateXRPLBaseFee(sender, fee)
  \/ \E threshold \in UsedTicketThresholds :
        UpdateUsedTicketSequenceThreshold(sender, threshold)
  \/ HaltBridge(sender)
  \/ ResumeBridge(sender)
  \/ \E rotation \in Rotations : RotateKeys(sender, rotation)
  \/ \E addresses \in ProhibitedInputs : UpdateProhibitedXRPLAddresses(sender, addresses)

AdminNext(sender) ==
  \/ \E key \in DOMAIN pendingOperations : CancelPendingOperation(sender, key)
  \/ \E denom \in CosmosDenom : RegisterCosmosToken(sender, denom)
  \/ \E token \in RegisterableTokens : RegisterXRPLToken(sender, token)
  \/ \E token \in DOMAIN xrplTokens, target \in TokenState :
        UpdateXRPLToken(sender, token, target)
  \/ \E denom \in DOMAIN cosmosTokens, target \in TokenState :
        UpdateCosmosToken(sender, denom, target)
  \/ ControlNext(sender)

UserNext(sender) ==
  \/ \E send \in SendInputs : send.sender = sender /\ SendToXRPL(send)
  \/ \E id \in {k[2] : k \in DOMAIN pendingRefunds} : ClaimRefund(sender, id)

Next ==
  \/ \E sender \in Addr : RelayerNext(sender) \/ AdminNext(sender) \/ UserNext(sender)
  \/ Tick

Spec == Init /\ [][Next]_vars

-----------------------------------------------------------------------------
\* Properties

PendingOfType(type) ==
  {key \in DOMAIN pendingOperations : pendingOperations[key].operation_type.type = type}

\* PENDING_TICKET_UPDATE says exactly whether a ticket allocation is pending, and
\* there is never a second one: not after a rejected allocation that starts the
\* next one in the same message, nor after RecoverTickets or a cancelled one.
TicketUpdateFlag ==
  /\ pendingTicketUpdate <=> PendingOfType("AllocateTickets") # {}
  /\ \A i, j \in PendingOfType("AllocateTickets") : i = j

\* PENDING_ROTATE_KEYS says exactly whether a key rotation is pending, there is
\* never a second one, and the bridge stays halted until it is settled.
RotationHaltsBridge ==
  /\ pendingRotateKeys <=> PendingOfType("RotateKeys") # {}
  /\ \A i, j \in PendingOfType("RotateKeys") : i = j
  /\ pendingRotateKeys => config.bridge_state = "Halted"

\* A token is Processing exactly while one TrustSet operation for it is pending,
\* so its registration is never stuck and never sent to the XRPL twice.
TrustSetPerProcessingToken ==
  /\ \A token \in DOMAIN xrplTokens :
       xrplTokens[token] = "Processing" =>
         \E key \in PendingOfType("TrustSet") :
            pendingOperations[key].operation_type.token = token
  /\ \A key \in PendingOfType("TrustSet") :
       LET token == pendingOperations[key].operation_type.token
       IN /\ token \in DOMAIN xrplTokens
          /\ xrplTokens[token] = "Processing"
          /\ \A other \in PendingOfType("TrustSet") :
               pendingOperations[other].operation_type.token = token => other = key

\* The stored votes are those of relayers in office, and too few of them: no
\* vote of a relayer that was rotated out counts, and no evidence waits that
\* already has its quorum under the threshold in force.
VotesOfRelayersInOffice ==
  \A e \in DOMAIN txEvidences :
    /\ txEvidences[e] # {}
    /\ txEvidences[e] \subseteq relayerAddresses
    /\ Cardinality(txEvidences[e]) < config.evidence_threshold

\* The relayers in office, and those a pending rotation would put there, can
\* reach their threshold, are not too many for a signer list and are told apart
\* by both of their addresses.
RelayersCanReachThreshold ==
  LET Sound(relayers, threshold) ==
        /\ threshold \in 1 .. Cardinality(relayers)
        /\ Cardinality(relayers) <= MAX_RELAYERS
        /\ \A r, s \in relayers :
             r # s => r.cosmos_address # s.cosmos_address /\ r.xrpl_address # s.xrpl_address
  IN /\ Sound(config.relayers, config.evidence_threshold)
     /\ \A key \in PendingOfType("RotateKeys") :
          LET rotation == pendingOperations[key].operation_type
          IN Sound(rotation.new_relayers, rotation.new_evidence_threshold)

\* The signatures of an operation were all given for its current version and so
\* for the base fee in force, whatever fee updates came in between.
SignaturesOfCurrentVersion ==
  \A key \in DOMAIN pendingOperations :
    LET operation == pendingOperations[key]
    IN /\ operation.xrpl_base_fee = config.xrpl_base_fee
       /\ \A s \in operation.signatures : s.version = operation.version
       /\ \A s, t \in operation.signatures : s.relayer = t.relayer => s = t

\* The multisig account is never an issuer of an XRPL token, a recipient of a
\* transfer or a relayer.  The contract tells XRPL tokens from Cosmos tokens by
\* that issuer, so a registered token with it would be taken for a Cosmos token.
MultisigAddressNotUsed ==
  /\ \A token \in DOMAIN xrplTokens : token[1] # BridgeXRPLAddress
  /\ \A r \in config.relayers : r.xrpl_address # BridgeXRPLAddress
  /\ \A key \in PendingOfType("CosmosToXRPLTransfer") :
       pendingOperations[key].operation_type.recipient # BridgeXRPLAddress
  /\ \A key \in PendingOfType("RotateKeys") :
       \A r \in pendingOperations[key].operation_type.new_relayers :
         r.xrpl_address # BridgeXRPLAddress

\* The evidences that report new tickets, and the tickets
Grants ==
  {e \in EvidenceInputs : /\ e.kind = "XRPLTransactionResult"
                          /\ e.transaction_result = "Accepted"
                          /\ e.operation_result # None
                          /\ e.operation_result.tickets # None}

GrantedBy(e) == Range(e.operation_result.tickets)

\* Ticket numbers as the XRPL hands them out: each of them by one transaction, and
\* none that is an account sequence.
TicketsGrantedOnce ==
  \A e \in Grants :
    /\ IsInjective(e.operation_result.tickets)
    /\ GrantedBy(e) \cap AccountSequences = {}
    /\ \A f \in Grants :
         GrantedBy(e) \cap GrantedBy(f) # {} => get_tx_hash(e) = get_tx_hash(f)

\* A ticket is held once: no ticket is available twice, or available while an
\* operation holds it, so two XRPL transactions never compete for a ticket.
\* This is for ticket numbers as in TicketsGrantedOnce.
TicketsHeldOnce ==
  /\ \A i, j \in DOMAIN availableTickets :
       availableTickets[i] = availableTickets[j] => i = j
  /\ \A key \in DOMAIN pendingOperations : \A i \in DOMAIN availableTickets :
       pendingOperations[key].ticket_sequence # availableTickets[i]

\* A step that ends a transfer with the refund of the whole amount to its sender or
\* with an accepted result for it
EndsTransfer(key) ==
  LET operation == pendingOperations[key]
      transfer == operation.operation_type
      refund == <<transfer.sender, operation.id>>
  IN \/ /\ refund \in DOMAIN pendingRefunds'
        /\ pendingRefunds'[refund] = [token |-> transfer.token, amount |-> transfer.amount]
     \/ \E e \in EvidenceInputs :
          /\ ~ (e.kind = "XRPLToCosmosTransfer")
          /\ e.transaction_result = "Accepted"
          /\ e.ticket_sequence = key
          /\ get_tx_hash(e) \in processedTxs' \ processedTxs

EndsTransfers ==
  \A key \in PendingOfType("CosmosToXRPLTransfer") :
    key \notin DOMAIN pendingOperations' => EndsTransfer(key)

\* A transfer leaves the queue only by an accepted result for it or with the
\* refund of the whole amount to its sender; results that are Rejected or
\* Invalid and cancellations all lead to the refund.
TransferAcceptedOrRefunded == [][EndsTransfers]_vars

StaysQuiet ==
  config.bridge_state = "Halted" =>
    /\ DOMAIN pendingRefunds \subseteq DOMAIN pendingRefunds'
    /\ \A e \in DOMAIN txEvidences' :
         e.kind = "XRPLToCosmosTransfer" =>
           e \in DOMAIN txEvidences /\ txEvidences'[e] = txEvidences[e]
    /\ \A hash \in processedTxs' \ processedTxs : \E e \in EvidenceInputs :
         is_operation_valid(e) /\ get_tx_hash(e) = hash /\ ResultAllowed(e)
    /\ \A key \in DOMAIN pendingOperations' :
         \/ pendingOperations'[key].operation_type.type \in {"AllocateTickets", "RotateKeys"}
         \/ /\ key \in DOMAIN pendingOperations
            /\ pendingOperations'[key].signatures \subseteq pendingOperations[key].signatures

\* While the bridge is halted nothing but ticket allocations and the ongoing
\* rotation is started or signed, no vote for a transfer to Cosmos is taken, no
\* refund is paid, and the only XRPL transactions processed are results of
\* operations that were pending.  Results of every operation are taken, as
\* save_evidence asks for an active bridge in its branch for transfers only; a
\* comment there promises less (HaltedTakesOnlyAllocationsAndRotations in Claims).
HaltedBridgeIsQuiet == [][StaysQuiet]_vars

=============================================================================
