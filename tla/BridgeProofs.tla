---------------------------- MODULE BridgeProofs -----------------------------
(***************************************************************************)
(* The bridge with its coins implements the control state of Operations:   *)
(* whatever is proved of Operations holds of it.  On top of that, what the *)
(* parameters of tokens, the pending transfers, the refunds and the        *)
(* deposits have in common, on which FundsProofs counts the coins.         *)
(***************************************************************************)
EXTENDS Bridge, OperationsProofs, AmountProofs

\* A message about coins is a message of Operations, or changes nothing there.
LEMMA FundsStep ==
  ASSUME NEW sender \in Addr, FundsNext(sender)
  PROVE  [Next]_vars
<1>1. ASSUME NEW e \in EvidenceInputs,
             \/ BridgeRecordEvidence(sender, e)
             \/ BridgeConfirmTransfer(sender, e)
             \/ BridgeConfirmOperation(sender, e)
      PROVE  RelayerNext(sender)
  BY <1>1 DEF BridgeRecordEvidence, BridgeConfirmTransfer, BridgeConfirmOperation, RelayerNext
<1>2. ASSUME NEW deposit \in DepositInputs, deposit.sender = sender, BridgeSendToXRPL(deposit)
      PROVE  UserNext(sender)
  BY <1>2 DEF BridgeSendToXRPL, UserNext
<1>3. ASSUME NEW id \in {k[2] : k \in DOMAIN pendingRefunds}, BridgeClaimRefund(sender, id)
      PROVE  UserNext(sender)
  BY <1>3 DEF BridgeClaimRefund, UserNext
<1>4. ASSUME NEW item, ClaimRelayerFees(sender, item) \/ MintCosmosToken(sender, item)
      PROVE  UNCHANGED vars
  BY <1>4 DEF ClaimRelayerFees, MintCosmosToken
<1>5. ASSUME NEW key \in DOMAIN pendingOperations, BridgeCancelPendingOperation(sender, key)
      PROVE  AdminNext(sender)
  BY <1>5 DEF BridgeCancelPendingOperation, AdminNext
<1>6. ASSUME NEW denom \in CosmosDenom, NEW parameters,
             BridgeRegisterCosmosToken(sender, denom, parameters)
      PROVE  AdminNext(sender)
  BY <1>6 DEF BridgeRegisterCosmosToken, AdminNext
<1>7. ASSUME NEW token \in RegisterableTokens, NEW parameters,
             BridgeRegisterXRPLToken(sender, token, parameters)
      PROVE  AdminNext(sender)
  BY <1>7 DEF BridgeRegisterXRPLToken, AdminNext
<1>8. ASSUME NEW token \in DOMAIN xrplTokens, NEW update,
             BridgeUpdateXRPLToken(sender, token, update)
      PROVE  AdminNext(sender) \/ UNCHANGED vars
  <2>1. CASE update.state # None
    <3>1. UpdateXRPLToken(sender, token, update.state)
      BY <1>8, <2>1 DEF BridgeUpdateXRPLToken
    <3>2. update.state \in TokenState
      BY <3>1 DEF UpdateXRPLToken, set_token_state, TokenState
    <3>. QED BY <3>1, <3>2 DEF AdminNext
  <2>2. CASE update.state = None
    BY <1>8, <2>2 DEF BridgeUpdateXRPLToken
  <2>. QED BY <2>1, <2>2
<1>9. ASSUME NEW denom \in DOMAIN cosmosTokens, NEW update,
             BridgeUpdateCosmosToken(sender, denom, update)
      PROVE  AdminNext(sender) \/ UNCHANGED vars
  <2>1. CASE update.state # None
    <3>1. UpdateCosmosToken(sender, denom, update.state)
      BY <1>9, <2>1 DEF BridgeUpdateCosmosToken
    <3>2. update.state \in TokenState
      BY <3>1 DEF UpdateCosmosToken, set_token_state, TokenState
    <3>. QED BY <3>1, <3>2 DEF AdminNext
  <2>2. CASE update.state = None
    BY <1>9, <2>2 DEF BridgeUpdateCosmosToken
  <2>. QED BY <2>1, <2>2
<1>10. TransferInputs \subseteq EvidenceInputs
  BY DEF TransferInputs
<1>. QED BY <1>1, <1>2, <1>3, <1>4, <1>5, <1>6, <1>7, <1>8, <1>9, <1>10 DEF FundsNext, Next

\* Every step of the bridge is a step of Operations or leaves its state alone.
LEMMA BridgeStep == [BridgeNext]_bridgeVars => [Next]_vars
<1> SUFFICES ASSUME [BridgeNext]_bridgeVars PROVE [Next]_vars
  OBVIOUS
<1>1. CASE UNCHANGED bridgeVars
  BY <1>1 DEF bridgeVars
<1>2. CASE \E sender \in Addr : FundsNext(sender)
  BY <1>2, FundsStep
<1>3. ASSUME NEW sender \in Addr, ControlNext(sender) \/ SignNext(sender)
      PROVE  Next
  BY <1>3 DEF Next, AdminNext, RelayerNext
<1>4. CASE Tick
  BY <1>4 DEF Next
<1>5. CASE XRPLNext
  <2>1. UNCHANGED vars
    BY <1>5 DEF XRPLNext, XRPLDeposit, XRPLExecute
  <2>. QED BY <2>1
<1>. QED BY <1>1, <1>2, <1>3, <1>4, <1>5 DEF BridgeNext

\* The bridge with balances, fees, swaps and the XRPL around it implements the
\* control state: none of them adds a behaviour to the queue, the tickets, the
\* votes or the relayers.
THEOREM BridgeImplementsOperations == BridgeSpec => Spec
<1>1. BridgeInit => Init
  BY DEF BridgeInit
<1>. QED BY <1>1, BridgeStep, PTL DEF BridgeSpec, Spec

-----------------------------------------------------------------------------
\* What the bridge keeps in order, so that the coins can be added up

\* The pending transfers to the XRPL
Transfers == PendingOfType("CosmosToXRPLTransfer")

\* The parameters are those of the registered tokens, and such that amounts can be
\* truncated and converted.
RegisteredTokens ==
  DOMAIN xrplTokens \cup {<<BridgeXRPLAddress, denom>> : denom \in DOMAIN cosmosTokens}

ParamsOK ==
  /\ DOMAIN params = RegisteredTokens
  /\ DOMAIN params \subseteq BridgedTokens
  /\ \A t \in DOMAIN params :
       /\ params[t] \in TokenParameters
       /\ LegalPrecision(params[t].sending_precision, Decimals(t))
       /\ ~IsIssued(t) => params[t].decimals <= MAX_COSMOS_TOKEN_DECIMALS

\* The coins that an operation took from its sender
CoinOf(decimals, token, amounts) ==
  IF IsIssued(token) THEN AmountSent(amounts)
  ELSE convert_amount_decimals(XRPL_TOKENS_DECIMALS, decimals, amounts.max_amount)

\* The amounts of a transfer or of a refund: some coins were taken for it, no less
\* than what is delivered, and a Cosmos token's converts back without a rest.
Payable(parameters, token, amounts) ==
  /\ token \in DOMAIN parameters
  /\ amounts \in Amount
  /\ token # XRP => amounts.max_amount # None
  /\ amounts.amount <= AmountSent(amounts)
  /\ CoinOf(parameters[token].decimals, token, amounts) \in Nat \ {0}
  /\ ~IsIssued(token) => /\ amounts.amount = amounts.max_amount
                         /\ Exact(parameters[token].decimals, amounts.max_amount)

TransfersOK ==
  /\ IsFiniteSet(Transfers)
  /\ executed \subseteq Transfers
  /\ \A key \in Transfers : Payable(params, pendingOperations[key].operation_type.token,
                                    pendingOperations[key].operation_type.amount)

RefundsOK ==
  /\ IsFiniteSet(DOMAIN pendingRefunds)
  /\ \A k \in DOMAIN pendingRefunds : 
       Payable(params, pendingRefunds[k].token, pendingRefunds[k].amount)

\* A transaction of the XRPL is deposited once, under its hash in upper case.
DepositsOK ==
  /\ IsFiniteSet(deposits)
  /\ deposits \subseteq TransferInputs
  /\ \A d \in deposits : get_tx_hash(d) = d.tx_hash
  /\ \A d, e \in deposits : get_tx_hash(d) = get_tx_hash(e) => d = e

BridgeInv ==
  /\ TypeOK /\ SoundState /\ MultisigInv
  /\ ParamsOK /\ TransfersOK /\ RefundsOK /\ DepositsOK

-----------------------------------------------------------------------------
\* How a message changes the pending transfers

TransfersKept ==
  /\ Transfers' = Transfers
  /\ \A key \in Transfers :
       pendingOperations'[key].operation_type = pendingOperations[key].operation_type

TransferAdded(key, transfer) ==
  /\ key \notin Transfers /\ key \notin executed
  /\ Transfers' = Transfers \cup {key}
  /\ pendingOperations'[key].operation_type = transfer
  /\ \A i \in Transfers :
       pendingOperations'[i].operation_type = pendingOperations[i].operation_type

TransferRemoved(key) ==
  /\ key \in Transfers
  /\ Transfers' = Transfers \ {key}
  /\ \A i \in Transfers \ {key} :
       pendingOperations'[i].operation_type = pendingOperations[i].operation_type

\* A queue that keeps its operations keeps its transfers.
LEMMA KeptTransfers == ASSUME Kept PROVE TransfersKept
  BY DEF Kept, TransfersKept, Transfers, PendingOfType

\* Another operation than a transfer is started.
LEMMA StartedOther ==
  ASSUME NEW type, Started(type), type.type # "CosmosToXRPLTransfer"
  PROVE  TransfersKept
<1>1. PICK key \in Nat : /\ key \notin DOMAIN pendingOperations
                         /\ DOMAIN pendingOperations' = DOMAIN pendingOperations \cup {key}
                         /\ pendingOperations'[key].operation_type = type
                         /\ \A i \in DOMAIN pendingOperations :
                              pendingOperations'[i] = pendingOperations[i]
  BY DEF Started, Fresh
<1>. QED BY <1>1 DEF TransfersKept, Transfers, PendingOfType

\* A transfer is started.
LEMMA StartedTransfer ==
  ASSUME NEW type, Started(type), type.type = "CosmosToXRPLTransfer", executed \subseteq Transfers
  PROVE  \E key \in Nat : TransferAdded(key, type)
<1>1. PICK key \in Nat : /\ key \notin DOMAIN pendingOperations
                         /\ DOMAIN pendingOperations' = DOMAIN pendingOperations \cup {key}
                         /\ pendingOperations'[key].operation_type = type
                         /\ \A i \in DOMAIN pendingOperations :
                              pendingOperations'[i] = pendingOperations[i]
  BY DEF Started, Fresh
<1>2. TransferAdded(key, type)
  BY <1>1 DEF TransferAdded, Transfers, PendingOfType
<1>. QED BY <1>2

\* Settling an operation removes it, if it is a transfer, and starts none.
LEMMA SettledTransfers ==
  ASSUME NEW key, Settled(key)
  PROVE  IF key \in Transfers THEN TransferRemoved(key) ELSE TransfersKept
<1>1. \A i \in DOMAIN pendingOperations \ {key} :
        i \in DOMAIN pendingOperations' /\ pendingOperations'[i] = pendingOperations[i]
  BY DEF Settled
<1>2. \A i \in DOMAIN pendingOperations' :
        \/ i \in DOMAIN pendingOperations \ {key}
        \/ pendingOperations'[i].operation_type.type = "AllocateTickets"
  <2>1. AllocationType.type = "AllocateTickets"
    BY DEF AllocationType
  <2>2. \/ DOMAIN pendingOperations' = DOMAIN pendingOperations \ {key}
        \/ \E k : /\ DOMAIN pendingOperations' = (DOMAIN pendingOperations \ {key}) \cup {k}
                  /\ pendingOperations'[k].operation_type = AllocationType
    BY DEF Settled, Fresh
  <2>. QED BY <2>1, <2>2
<1>3. Transfers' = Transfers \ {key}
  BY <1>1, <1>2 DEF Transfers, PendingOfType
<1>. QED BY <1>1, <1>3 DEF TransferRemoved, TransfersKept, Transfers, PendingOfType

-----------------------------------------------------------------------------
\* The messages by what they do to coins

\* Nothing about coins, tokens, transfers and refunds changes.
Idle ==
  /\ UNCHANGED <<fundVars, processedTxs, pendingRefunds, cosmosTokens>>
  /\ DOMAIN xrplTokens' = DOMAIN xrplTokens
  /\ TransfersKept

\* An operation is settled with a result, reported or, when it is cancelled, Invalid.
Settles(key, result) ==
  /\ key \in DOMAIN pendingOperations
  /\ IF key \in Transfers
     THEN TransferRemoved(key) /\ (result = "Accepted" <=> key \in executed)
     ELSE TransfersKept
  /\ handle_cosmos_to_xrpl_transfer_confirmation(pendingOperations[key], result)
  /\ SettleFunds(pendingOperations[key], result)
  /\ executed' = executed \ {key}
  /\ processedTxs \subseteq processedTxs'
  /\ DOMAIN xrplTokens' = DOMAIN xrplTokens
  /\ UNCHANGED <<cosmosTokens, params, feeVars, ledger, deposits>>

\* A message that concerns no coins
LEMMA ControlIdle ==
  ASSUME TypeOK, NEW sender \in Addr, UNCHANGED fundVars, ControlNext(sender) \/ SignNext(sender)
  PROVE  Idle
<1>1. ASSUME NEW token, RecoverXRPLTokenRegistration(sender, token) PROVE Idle
  <2> DEFINE type == [type |-> "TrustSet", token |-> token]
  <2>1. type.type # "CosmosToXRPLTransfer"
    OBVIOUS
  <2> HIDE DEF type
  <2>2. create_operation_on_ticket(type, config.bridge_state, pendingRotateKeys)
    BY <1>1 DEF RecoverXRPLTokenRegistration, StartTrustSet, type
  <2>3. TransfersKept
    BY <2>1, <2>2, StartEffect, StartedOther
  <2>4. DOMAIN xrplTokens' = DOMAIN xrplTokens
    BY <1>1 DEF RecoverXRPLTokenRegistration, StartTrustSet, Put
  <2>. QED BY <1>1, <2>3, <2>4
           DEF Idle, RecoverXRPLTokenRegistration, StartTrustSet, evidenceVars
<1>2. ASSUME NEW account \in AccountSequences, NEW number, RecoverTickets(sender, account, number)
      PROVE  Idle
  <2>1. PICK type : type.type = "AllocateTickets" /\ Started(type)
    BY <1>2, RecoverEffect, InputAssumption
  <2>2. TransfersKept
    BY <2>1, StartedOther
  <2>. QED BY <1>2, <2>2 DEF Idle, RecoverTickets, evidenceVars, tokenVars
<1>3. ASSUME NEW rotation, RotateKeys(sender, rotation) PROVE Idle
  <2> DEFINE type == [type |-> "RotateKeys", new_relayers |-> rotation.new_relayers,
                      new_evidence_threshold |-> rotation.new_evidence_threshold]
  <2>1. type.type # "CosmosToXRPLTransfer"
    OBVIOUS
  <2> HIDE DEF type
  <2>2. create_operation_on_ticket(type, "Halted", TRUE)
    BY <1>3 DEF RotateKeys, type
  <2>3. TransfersKept
    BY <2>1, <2>2, StartEffect, StartedOther
  <2>. QED BY <1>3, <2>3 DEF Idle, RotateKeys, evidenceVars, tokenVars
<1>4. ASSUME NEW fee, UpdateXRPLBaseFee(sender, fee) PROVE Idle
  BY <1>4, BaseFeeKept, KeptTransfers DEF Idle, UpdateXRPLBaseFee, evidenceVars, tokenVars
<1>5. ASSUME NEW key, NEW version, SaveSignature(sender, key, version) PROVE Idle
  BY <1>5, SignatureKept, KeptTransfers DEF Idle, SaveSignature, evidenceVars, tokenVars
<1>6. ASSUME NEW item,
             \/ UpdateUsedTicketSequenceThreshold(sender, item)
             \/ HaltBridge(sender) \/ ResumeBridge(sender)
             \/ UpdateProhibitedXRPLAddresses(sender, item)
      PROVE  Idle
  <2>1. UNCHANGED <<pendingOperations, evidenceVars, tokenVars, pendingRefunds>>
    BY <1>6 DEF UpdateUsedTicketSequenceThreshold, HaltBridge, ResumeBridge,
                UpdateProhibitedXRPLAddresses
  <2>2. Kept
    BY <2>1 DEF Kept
  <2>. QED BY <2>1, <2>2, KeptTransfers DEF Idle, evidenceVars, tokenVars
<1>. QED BY <1>1, <1>2, <1>3, <1>4, <1>5, <1>6 DEF ControlNext, SignNext

\* A confirmed result settles its operation, as it happened on the XRPL.
LEMMA ConfirmSettles ==
  ASSUME TypeOK, TransfersOK, NEW sender, NEW e \in EvidenceInputs, BridgeConfirmOperation(sender, e)
  PROVE  Settles(ResultKey(e), e.transaction_result)
<1> DEFINE key == ResultKey(e)
<1>1. e \in Evidence
  BY InputAssumption
<1>2. ConfirmOperation(sender, e) /\ Happened(e)
  BY DEF BridgeConfirmOperation
<1>3. Settled(key)
  BY <1>1, <1>2, ConfirmEffect
<1>4. /\ key \in DOMAIN pendingOperations /\ e.kind = "XRPLTransactionResult"
      /\ handle_operation(pendingOperations[key], e.transaction_result, e.operation_result,
                          Without(txEvidences, e))
      /\ processedTxs \subseteq processedTxs'
      /\ cosmosTokens' = cosmosTokens
  BY <1>2 DEF ConfirmOperation, ResultAllowed, processedWith
<1>5. DOMAIN xrplTokens' = DOMAIN xrplTokens
  BY <1>4 DEF handle_operation, handle_trust_set_confirmation
<1>6. key \in Transfers => (e.transaction_result = "Accepted" <=> key \in executed)
  BY <1>2, <1>4 DEF Happened, IsTransfer, Transfers, PendingOfType
<1>7. /\ SettleFunds(pendingOperations[key], e.transaction_result)
      /\ executed' = executed \ {key}
      /\ UNCHANGED <<params, feeVars, ledger, deposits>>
  BY DEF BridgeConfirmOperation
<1> HIDE DEF key
<1>. QED BY <1>3, <1>4, <1>5, <1>6, <1>7, SettledTransfers DEF Settles, handle_operation, key

\* CancelPendingOperation settles a transfer that the XRPL did not execute.
LEMMA CancelSettles ==
  ASSUME TypeOK, TransfersOK, NEW sender, NEW key, BridgeCancelPendingOperation(sender, key)
  PROVE  Settles(key, "Invalid")
<1>1. CancelPendingOperation(sender, key) /\ key \notin executed
  BY DEF BridgeCancelPendingOperation
<1>2. Settled(key)
  BY <1>1, CancelEffect
<1>3. /\ key \in DOMAIN pendingOperations
      /\ \E operationResult :
           handle_operation(pendingOperations[key], "Invalid", operationResult, txEvidences)
      /\ UNCHANGED <<processedTxs, cosmosTokens>>
  BY <1>1 DEF CancelPendingOperation
<1>4. DOMAIN xrplTokens' = DOMAIN xrplTokens
  BY <1>3 DEF handle_operation, handle_trust_set_confirmation
<1>5. /\ SettleFunds(pendingOperations[key], "Invalid")
      /\ executed' = executed
      /\ UNCHANGED <<params, feeVars, ledger, deposits>>
  BY DEF BridgeCancelPendingOperation, xrplVars
<1>6. executed' = executed \ {key}
  BY <1>1, <1>5
<1>. QED BY <1>1, <1>2, <1>3, <1>4, <1>5, <1>6, SettledTransfers DEF Settles, handle_operation

\* A token is registered.
Registers(token, parameters) ==
  /\ token \in BridgedTokens /\ token \notin DOMAIN params /\ token # XRP
  /\ params' = Put(params, token, parameters)
  /\ parameters \in TokenParameters
  /\ LegalPrecision(parameters.sending_precision,
                    IF IsIssued(token) THEN XRPL_TOKENS_DECIMALS ELSE parameters.decimals)
  /\ ~IsIssued(token) => parameters.decimals <= MAX_COSMOS_TOKEN_DECIMALS
  /\ RegisteredTokens' = RegisteredTokens \cup {token}
  /\ UNCHANGED <<bank, feeVars, lost, xrplVars, processedTxs, pendingRefunds>>
  /\ TransfersKept

\* The parameters of a token are updated.
Updates(token, update) ==
  /\ token \in DOMAIN params
  /\ UpdateParams(token, update, IF IsIssued(token) THEN Supply(token) ELSE Held(token))
  /\ RegisteredTokens' = RegisteredTokens
  /\ UNCHANGED <<processedTxs, pendingRefunds>>
  /\ TransfersKept

\* What validate_sending_precision lets through can be truncated.
LEMMA PrecisionLegal ==
  ASSUME NEW p, NEW d \in Nat, d <= MAX_COSMOS_TOKEN_DECIMALS \/ d <= XRPL_TOKENS_DECIMALS,
         validate_sending_precision(p, d)
  PROVE  LegalPrecision(p, d)
  BY LimitsAssumption DEF validate_sending_precision, LegalPrecision

\* RegisterCosmosToken registers a token of the multisig account.
LEMMA RegisterCosmos ==
  ASSUME TypeOK, MultisigInv, ParamsOK, NEW sender, NEW denom \in CosmosDenom,
         NEW parameters \in ParamInputs, BridgeRegisterCosmosToken(sender, denom, parameters)
  PROVE  Registers(<<BridgeXRPLAddress, denom>>, parameters)
<1> DEFINE token == <<BridgeXRPLAddress, denom>>
<1>1. /\ validate_cosmos_token_decimals(parameters.decimals)
      /\ validate_sending_precision(parameters.sending_precision, parameters.decimals)
      /\ RegisterCosmosToken(sender, denom)
      /\ params' = Put(params, token, parameters)
      /\ UNCHANGED <<bank, feeVars, lost, xrplVars>>
  BY DEF BridgeRegisterCosmosToken
<1>2. /\ denom \notin DOMAIN cosmosTokens
      /\ cosmosTokens' = Put(cosmosTokens, denom, "Enabled")
      /\ UNCHANGED <<pendingOperations, processedTxs, xrplTokens, pendingRefunds>>
  BY <1>1 DEF RegisterCosmosToken, evidenceVars
<1>3. token \in BridgedTokens /\ token # XRP /\ ~IsIssued(token)
  BY IdentityAssumption DEF BridgedTokens, IsIssued
<1>4. token \notin RegisteredTokens
  BY <1>2 DEF RegisteredTokens, MultisigInv, MultisigAddressNotUsed
<1>5. DOMAIN cosmosTokens' = DOMAIN cosmosTokens \cup {denom}
  BY <1>2 DEF Put
<1>6. RegisteredTokens' = RegisteredTokens \cup {token}
  BY <1>2, <1>5 DEF RegisteredTokens
<1>7. parameters \in TokenParameters /\ parameters.decimals \in Nat
  BY AmountAssumption DEF TokenParameters
<1>8. LegalPrecision(parameters.sending_precision, parameters.decimals)
  BY <1>1, <1>7, PrecisionLegal DEF validate_cosmos_token_decimals
<1>9. TransfersKept
  BY <1>2, KeptTransfers DEF Kept
<1> HIDE DEF token
<1>. QED BY <1>1, <1>2, <1>3, <1>4, <1>6, <1>7, <1>8, <1>9
         DEF Registers, ParamsOK, validate_cosmos_token_decimals, token

\* RegisterXRPLToken registers a token of another issuer.
LEMMA RegisterXRPL ==
  ASSUME TypeOK, MultisigInv, ParamsOK, NEW sender, NEW token \in RegisterableTokens,
         NEW parameters \in ParamInputs, BridgeRegisterXRPLToken(sender, token, parameters)
  PROVE  Registers(token, [parameters EXCEPT !.decimals = XRPL_TOKENS_DECIMALS])
<1> DEFINE new == [parameters EXCEPT !.decimals = XRPL_TOKENS_DECIMALS]
           type == [type |-> "TrustSet", token |-> token]
<1>1. /\ validate_sending_precision(parameters.sending_precision, XRPL_TOKENS_DECIMALS)
      /\ RegisterXRPLToken(sender, token)
      /\ params' = Put(params, token, new)
      /\ UNCHANGED <<bank, feeVars, lost, xrplVars>>
  BY DEF BridgeRegisterXRPLToken
<1>2. type.type # "CosmosToXRPLTransfer"
  OBVIOUS
<1>3. parameters \in TokenParameters
  BY AmountAssumption
<1>4. new \in TokenParameters /\ new.sending_precision = parameters.sending_precision
  BY <1>3, LimitsAssumption DEF TokenParameters
<1> HIDE DEF new, type
<1>5. /\ token[1] \notin prohibited /\ token[2] # XRP[2] /\ token \notin DOMAIN xrplTokens
      /\ xrplTokens' = Put(xrplTokens, token, "Processing")
      /\ create_operation_on_ticket(type, config.bridge_state, pendingRotateKeys)
      /\ UNCHANGED <<processedTxs, cosmosTokens, pendingRefunds>>
  BY <1>1 DEF RegisterXRPLToken, StartTrustSet, evidenceVars, type
<1>6. TransfersKept
  BY <1>2, <1>5, StartEffect, StartedOther
<1>7. token \in BridgedTokens /\ token # XRP /\ IsIssued(token)
  BY <1>5 DEF BridgedTokens, IsIssued, MultisigInv
<1>8. token \notin RegisteredTokens
  BY <1>5, <1>7 DEF RegisteredTokens, IsIssued
<1>9. RegisteredTokens' = RegisteredTokens \cup {token}
  BY <1>5 DEF RegisteredTokens, Put
<1>10. LegalPrecision(new.sending_precision, XRPL_TOKENS_DECIMALS)
  BY <1>1, <1>4, PrecisionLegal, LimitsAssumption
<1>. QED BY <1>1, <1>4, <1>5, <1>6, <1>7, <1>8, <1>9, <1>10 DEF Registers, ParamsOK, new

\* UpdateXRPLToken and UpdateCosmosToken update the parameters of a known token.
LEMMA UpdateToken ==
  ASSUME TypeOK, MultisigInv, ParamsOK, NEW sender, NEW update,
         \/ \E t \in DOMAIN xrplTokens : BridgeUpdateXRPLToken(sender, t, update)
         \/ \E denom \in DOMAIN cosmosTokens : BridgeUpdateCosmosToken(sender, denom, update)
  PROVE  \E token : Updates(token, update)
<1>1. ASSUME UNCHANGED <<pendingOperations, evidenceVars, pendingRefunds>>,
             DOMAIN xrplTokens' = DOMAIN xrplTokens, DOMAIN cosmosTokens' = DOMAIN cosmosTokens
      PROVE  /\ UNCHANGED <<processedTxs, pendingRefunds>> /\ TransfersKept
             /\ RegisteredTokens' = RegisteredTokens
  BY <1>1, KeptTransfers DEF Kept, evidenceVars, RegisteredTokens
<1>2. ASSUME NEW t \in DOMAIN xrplTokens, BridgeUpdateXRPLToken(sender, t, update)
      PROVE  Updates(t, update)
  <2>1. /\ UNCHANGED <<pendingOperations, evidenceVars, pendingRefunds, cosmosTokens>>
        /\ DOMAIN xrplTokens' = DOMAIN xrplTokens
    <3>1. CASE update.state # None
      BY <1>2, <3>1 DEF BridgeUpdateXRPLToken, UpdateXRPLToken, Put
    <3>2. CASE update.state = None
      BY <1>2, <3>2 DEF BridgeUpdateXRPLToken, vars, tokenVars
    <3>. QED BY <3>1, <3>2
  <2>2. IsIssued(t) /\ t \in RegisteredTokens
    BY DEF IsIssued, MultisigInv, MultisigAddressNotUsed, RegisteredTokens
  <2>. QED BY <1>1, <1>2, <2>1, <2>2 DEF Updates, BridgeUpdateXRPLToken, ParamsOK
<1>3. ASSUME NEW denom \in DOMAIN cosmosTokens, BridgeUpdateCosmosToken(sender, denom, update)
      PROVE  Updates(<<BridgeXRPLAddress, denom>>, update)
  <2>1. /\ UNCHANGED <<pendingOperations, evidenceVars, pendingRefunds, xrplTokens>>
        /\ DOMAIN cosmosTokens' = DOMAIN cosmosTokens
    <3>1. CASE update.state # None
      BY <1>3, <3>1 DEF BridgeUpdateCosmosToken, UpdateCosmosToken, Put
    <3>2. CASE update.state = None
      BY <1>3, <3>2 DEF BridgeUpdateCosmosToken, vars, tokenVars
    <3>. QED BY <3>1, <3>2
  <2> DEFINE token == <<BridgeXRPLAddress, denom>>
  <2>2. ~IsIssued(token) /\ token \in RegisteredTokens
    BY DEF IsIssued, RegisteredTokens
  <2>3. UpdateParams(token, update, Held(token))
    BY <1>3 DEF BridgeUpdateCosmosToken
  <2> HIDE DEF token
  <2>4. Updates(token, update)
    BY <1>1, <2>1, <2>2, <2>3 DEF Updates, ParamsOK
  <2>. QED BY <2>4 DEF token
<1>. QED BY <1>2, <1>3

\* A deposit of the XRPL is paid out.
Credits(e) ==
  /\ e \in deposits /\ e.token \in DOMAIN params /\ e.amount \in Nat
  /\ get_tx_hash(e) \notin processedTxs
  /\ processedTxs' = processedTxs \cup {get_tx_hash(e)}
  /\ CreditAllowed(e)
  /\ handle_fee_collection(e.token, Credit(e).remainder)
  /\ ~IsIssued(e.token) => Credit(e).sent <= Held(e.token)
  /\ \E to \in BankAccount \ {ContractAddr} :
       bank' = IF IsIssued(e.token)
               THEN Mint(Mint(bank, e.token, ContractAddr,
                              params[e.token].bridging_fee + Credit(e).remainder),
                         e.token, to, Credit(e).sent)
               ELSE Pay(bank, e.token, ContractAddr, to, Credit(e).sent)
  /\ UNCHANGED <<params, lost, xrplVars, pendingRefunds, tokenVars>>
  /\ TransfersKept

\* ConfirmTransfer pays a deposit out once, to another account than the contract's,
\* however the relayers spell its hash.
LEMMA ConfirmCredits ==
  ASSUME BridgeInv, NEW sender, NEW e \in TransferInputs, BridgeConfirmTransfer(sender, e)
  PROVE  \E d \in TransferInputs : Credits(d)
<1> DEFINE d == [e EXCEPT !.tx_hash = UpperCase[@]]
<1>1. /\ e \in EvidenceInputs /\ e \in Evidence /\ e.kind = "XRPLToCosmosTransfer"
  BY InputAssumption DEF TransferInputs
<1>2. e \in TransferEvidence
  BY <1>1 DEF Evidence, ResultEvidence
<1>3. e.amount \in Nat /\ e.recipient \in Addr \cup {ContractAddr}
  BY <1>2, AmountAssumption DEF TransferEvidence
<1>4. ConfirmTransfer(sender, e) /\ Happened(e)
  BY DEF BridgeConfirmTransfer
<1>5. /\ get_tx_hash(e) \notin processedTxs
      /\ processedTxs' = processedTxs \cup {get_tx_hash(e)}
  BY <1>1, <1>4 DEF ConfirmTransfer, EvidenceAccepted, is_operation_valid, processedWith
<1>6. /\ UNCHANGED <<pendingOperations, pendingRefunds, tokenVars>>
      /\ e.recipient # ContractAddr
      /\ IF IsIssued(e.token) THEN XRPLTokenEnabled(e.token) ELSE CosmosTokenEnabled(e.token[2])
  BY <1>4 DEF ConfirmTransfer, TransferAllowed, IsIssued
<1>7. e.token \in DOMAIN params
  <2>1. CASE IsIssued(e.token)
    BY <1>6, <2>1 DEF XRPLTokenEnabled, BridgeInv, ParamsOK, RegisteredTokens
  <2>2. CASE ~IsIssued(e.token)
    <3>1. e.token \in Token
      BY <1>2 DEF TransferEvidence
    <3>2. e.token = <<BridgeXRPLAddress, e.token[2]>>
      BY <2>2, <3>1 DEF Token, IsIssued
    <3>. QED BY <1>6, <2>2, <3>2 DEF CosmosTokenEnabled, BridgeInv, ParamsOK, RegisteredTokens
  <2>. QED BY <2>1, <2>2
<1>8. TransfersKept
  BY <1>6, KeptTransfers DEF Kept
<1>9. d \in deposits /\ d \in TransferInputs
  BY <1>1, <1>4 DEF Happened, BridgeInv, DepositsOK
<1>10. Beneficiaries(e) \subseteq BankAccount \ {ContractAddr}
  BY <1>3, <1>6, BankAssumption, IdentityAssumption DEF Beneficiaries, BankAccount
<1>11. \E to \in BankAccount \ {ContractAddr} :
         bank' = IF IsIssued(e.token)
                 THEN Mint(Mint(bank, e.token, ContractAddr,
                                params[e.token].bridging_fee + Credit(e).remainder),
                           e.token, to, Credit(e).sent)
                 ELSE Pay(bank, e.token, ContractAddr, to, Credit(e).sent)
  BY <1>10 DEF BridgeConfirmTransfer
<1>12. /\ CreditAllowed(e)
       /\ handle_fee_collection(e.token, Credit(e).remainder)
       /\ ~IsIssued(e.token) => Credit(e).sent <= Held(e.token)
       /\ UNCHANGED <<params, lost, xrplVars>>
  BY DEF BridgeConfirmTransfer
<1>13. /\ d.token = e.token /\ d.amount = e.amount
       /\ get_tx_hash(d) = get_tx_hash(e)
  <2>1. e.tx_hash \in TxHash
    BY <1>2 DEF TransferEvidence
  <2>2. d.tx_hash = UpperCase[e.tx_hash] /\ d.token = e.token /\ d.amount = e.amount
    BY <1>2 DEF TransferEvidence
  <2>. QED BY <2>1, <2>2, IdentityAssumption DEF get_tx_hash
<1> HIDE DEF d
<1>14. Credit(d) = Credit(e) /\ (CreditAllowed(d) <=> CreditAllowed(e))
  BY <1>13 DEF Credit, CreditAllowed
<1>15. Credits(d)
  BY <1>3, <1>5, <1>6, <1>7, <1>8, <1>9, <1>11, <1>12, <1>13, <1>14 DEF Credits
<1>. QED BY <1>9, <1>15

\* Coins are sent to the XRPL.
Sends(deposit, key) ==
  LET token == deposit.token
      amounts == OperationAmount(deposit)
  IN /\ token \in DOMAIN params
     /\ amounts \in Amount
     /\ deposit.amount <= bank[token][deposit.sender]
     /\ DepositAllowed(deposit)
     /\ TransferAdded(key, [type |-> "CosmosToXRPLTransfer", token |-> token, amount |-> amounts,
                            sender |-> deposit.sender, recipient |-> deposit.recipient])
     /\ handle_fee_collection(token, Sent(deposit).remainder)
     /\ bank' = Pay(bank, token, deposit.sender, ContractAddr, deposit.amount)
     /\ IsIssued(token) \/ bank'[token][ContractAddr] <= params[token].max_holding_amount
     /\ UNCHANGED <<params, lost, xrplVars, pendingRefunds, processedTxs, tokenVars>>

\* SendToXRPL starts a transfer.
LEMMA SendSends ==
  ASSUME BridgeInv, NEW deposit, BridgeSendToXRPL(deposit)
  PROVE  \E key \in Nat : Sends(deposit, key)
<1> DEFINE send == [sender |-> deposit.sender, token |-> deposit.token,
                    amount |-> OperationAmount(deposit), recipient |-> deposit.recipient]
           type == [type |-> "CosmosToXRPLTransfer", token |-> deposit.token,
                    amount |-> OperationAmount(deposit),
                    sender |-> deposit.sender, recipient |-> deposit.recipient]
<1>1. SendToXRPL(send) /\ send \in SendInputs
  BY DEF BridgeSendToXRPL
<1>2. OperationAmount(deposit) \in Amount
  BY <1>1, InputAssumption
<1>3. Transfer(send) = type /\ type.type = "CosmosToXRPLTransfer"
  BY DEF Transfer
<1>4. /\ deposit.token \in DOMAIN params
      /\ deposit.amount <= bank[deposit.token][deposit.sender]
      /\ DepositAllowed(deposit)
      /\ handle_fee_collection(deposit.token, Sent(deposit).remainder)
      /\ bank' = Pay(bank, deposit.token, deposit.sender, ContractAddr, deposit.amount)
      /\ IsIssued(deposit.token)
           \/ bank'[deposit.token][ContractAddr] <= params[deposit.token].max_holding_amount
      /\ UNCHANGED <<params, lost, xrplVars>>
  BY DEF BridgeSendToXRPL
<1> HIDE DEF send, type
<1>5. /\ create_operation_on_ticket(type, config.bridge_state, pendingRotateKeys)
      /\ UNCHANGED <<pendingRefunds, processedTxs, tokenVars>>
  BY <1>1, <1>3 DEF SendToXRPL, evidenceVars
<1>6. PICK key \in Nat : TransferAdded(key, type)
  BY <1>3, <1>5, StartEffect, StartedTransfer DEF BridgeInv, TransfersOK
<1>7. Sends(deposit, key)
  BY <1>2, <1>4, <1>5, <1>6 DEF Sends, type
<1>. QED BY <1>7

\* Every step of the bridge is one of these.
LEMMA BridgeCases ==
  ASSUME BridgeInv, [BridgeNext]_bridgeVars
  PROVE  \/ Idle
         \/ \E e \in TransferInputs : Credits(e)
         \/ \E deposit \in DepositInputs, key \in Nat : Sends(deposit, key)
         \/ \E key, result : Settles(key, result)
         \/ \E sender \in Addr : \E id : BridgeClaimRefund(sender, id)
         \/ \E sender \in Addr, amounts \in ClaimInputs : ClaimRelayerFees(sender, amounts)
         \/ \E token, parameters : Registers(token, parameters)
         \/ \E token : \E update \in UpdateInputs : Updates(token, update)
         \/ \E sender \in Addr, mint \in MintInputs : MintCosmosToken(sender, mint)
         \/ \E e \in TransferInputs : XRPLDeposit(e)
         \/ \E key \in DOMAIN pendingOperations : XRPLExecute(key)
<1>1. ASSUME UNCHANGED fundVars,
             UNCHANGED <<pendingOperations, processedTxs, pendingRefunds, tokenVars>>
      PROVE  Idle
  BY <1>1, KeptTransfers DEF Idle, Kept, tokenVars
<1>2. CASE UNCHANGED bridgeVars
  BY <1>1, <1>2 DEF bridgeVars, vars, evidenceVars
<1>3. CASE Tick /\ UNCHANGED fundVars
  BY <1>1, <1>3 DEF Tick, evidenceVars
<1>4. ASSUME NEW sender \in Addr, ControlNext(sender) \/ SignNext(sender), UNCHANGED fundVars
      PROVE  Idle
  BY <1>4, ControlIdle DEF BridgeInv
<1>5. ASSUME NEW sender, NEW e, BridgeRecordEvidence(sender, e) PROVE Idle
  BY <1>1, <1>5 DEF BridgeRecordEvidence, RecordEvidence
<1>6. CASE XRPLNext
  BY <1>6 DEF XRPLNext
<1>7. ASSUME NEW sender \in Addr, FundsNext(sender)
      PROVE  \/ Idle
             \/ \E e \in TransferInputs : Credits(e)
             \/ \E deposit \in DepositInputs, key \in Nat : Sends(deposit, key)
             \/ \E key, result : Settles(key, result)
             \/ \E id : BridgeClaimRefund(sender, id)
             \/ \E amounts \in ClaimInputs : ClaimRelayerFees(sender, amounts)
             \/ \E token, parameters : Registers(token, parameters)
             \/ \E token : \E update \in UpdateInputs : Updates(token, update)
             \/ \E mint \in MintInputs : MintCosmosToken(sender, mint)
  <2>1. ASSUME NEW e \in TransferInputs, BridgeConfirmTransfer(sender, e)
        PROVE  \E d \in TransferInputs : Credits(d)
    BY <2>1, ConfirmCredits
  <2>2. ASSUME NEW e \in EvidenceInputs, BridgeConfirmOperation(sender, e)
        PROVE  \E key, result : Settles(key, result)
    BY <2>2, ConfirmSettles DEF BridgeInv
  <2>3. ASSUME NEW key, BridgeCancelPendingOperation(sender, key)
        PROVE  \E i, result : Settles(i, result)
    BY <2>3, CancelSettles DEF BridgeInv
  <2>4. ASSUME NEW deposit, BridgeSendToXRPL(deposit) PROVE \E key \in Nat : Sends(deposit, key)
    BY <2>4, SendSends
  <2>5. ASSUME NEW denom \in CosmosDenom, NEW parameters \in ParamInputs,
               BridgeRegisterCosmosToken(sender, denom, parameters)
        PROVE  \E token, new : Registers(token, new)
    BY <2>5, RegisterCosmos DEF BridgeInv
  <2>6. ASSUME NEW token \in RegisterableTokens, NEW parameters \in ParamInputs,
               BridgeRegisterXRPLToken(sender, token, parameters)
        PROVE  \E t, new : Registers(t, new)
    BY <2>6, RegisterXRPL DEF BridgeInv
  <2>7. ASSUME NEW update \in UpdateInputs,
               \/ \E t \in DOMAIN xrplTokens : BridgeUpdateXRPLToken(sender, t, update)
               \/ \E denom \in DOMAIN cosmosTokens : BridgeUpdateCosmosToken(sender, denom, update)
        PROVE  \E token : Updates(token, update)
    BY <2>7, UpdateToken DEF BridgeInv
  <2>. QED BY <1>5, <1>7, <2>1, <2>2, <2>3, <2>4, <2>5, <2>6, <2>7 DEF FundsNext
<1>. QED BY <1>2, <1>3, <1>4, <1>6, <1>7 DEF BridgeNext

-----------------------------------------------------------------------------
\* The amounts of a transfer

\* The amounts of an operation are numbers.
LEMMA AmountTyped ==
  ASSUME NEW amounts \in Amount
  PROVE  /\ amounts.amount \in Nat /\ amounts.max_amount \in Nat \cup {None}
         /\ AmountSent(amounts) \in Nat
  BY AmountAssumption DEF AmountSent

\* A legal token: its fee and its decimals
LEMMA TokenLegal ==
  ASSUME ParamsOK, NEW t \in DOMAIN params
  PROVE  /\ t \in BridgedTokens
         /\ params[t].bridging_fee \in Nat /\ params[t].max_holding_amount \in Nat
         /\ params[t].decimals \in Nat
         /\ LegalPrecision(params[t].sending_precision, Decimals(t))
         /\ ~IsIssued(t) => /\ Decimals(t) = params[t].decimals
                            /\ params[t].decimals <= MAX_COSMOS_TOKEN_DECIMALS
                            /\ t # XRP
<1>1. IsIssued(XRP)
  BY IdentityAssumption DEF IsIssued
<1>. QED BY <1>1 DEF ParamsOK, TokenParameters, Decimals

\* What SendToXRPL takes is in transit or a fee, and can be refunded exactly.
LEMMA SendAmounts ==
  ASSUME ParamsOK, NEW deposit \in DepositInputs, NEW key, Sends(deposit, key)
  PROVE  LET t == deposit.token
             coin == CoinOf(params[t].decimals, t, OperationAmount(deposit))
         IN /\ Payable(params, t, OperationAmount(deposit))
            /\ Sent(deposit).remainder \in Nat
            /\ deposit.amount \in Nat
            /\ deposit.amount = coin + params[t].bridging_fee + Sent(deposit).remainder
<1> DEFINE t == deposit.token
           fee == params[t].bridging_fee
           precision == params[t].sending_precision
           amounts == OperationAmount(deposit)
           coin == CoinOf(params[t].decimals, t, amounts)
           after == deposit.amount - fee
<1>1. /\ deposit.amount \in Nat /\ deposit.deliver_amount \in Nat \cup {None}
  BY AmountAssumption
<1>2. t \in DOMAIN params /\ amounts \in Amount /\ DepositAllowed(deposit)
  BY DEF Sends
<1>3. /\ fee \in Nat /\ LegalPrecision(precision, Decimals(t))
      /\ ~IsIssued(t) => /\ Decimals(t) = params[t].decimals
                         /\ params[t].decimals <= MAX_COSMOS_TOKEN_DECIMALS
                         /\ t # XRP
  BY <1>2, TokenLegal
<1>4. fee <= deposit.amount /\ after \in Nat
  BY <1>1, <1>2, <1>3 DEF DepositAllowed, CanCoverFees
<1>5. /\ amounts.amount = (IF deposit.deliver_amount = None THEN Sent(deposit).sent
                           ELSE TruncateDeposit(t, deposit.deliver_amount).sent)
      /\ amounts.max_amount = (IF t = XRP THEN None ELSE Sent(deposit).sent)
  BY DEF OperationAmount
<1>6. CASE IsIssued(t)
  <2> DEFINE cut == truncate_amount(precision, Decimals(t), after)
             deliver == deposit.deliver_amount
             part == truncate_amount(precision, Decimals(t), deliver)
  <2>1. Sent(deposit) = cut
    BY <1>6 DEF Sent, TruncateDeposit, AfterFees
  <2>2. /\ CanTruncate(precision, Decimals(t), after)
        /\ deliver # None => t # XRP /\ deliver <= after
    BY <1>2, <1>6 DEF DepositAllowed, CanTruncateDeposit, AfterFees
  <2>3. /\ cut.sent \in 0 .. after /\ cut.remainder \in Nat /\ cut.sent + cut.remainder = after
        /\ cut.sent > 0
    BY <1>3, <1>4, <2>2, Truncated
  <2>4. deliver # None => deliver \in Nat /\ part.sent <= cut.sent
    BY <1>1, <1>3, <1>4, <2>2, TruncatedMonotone
  <2>5. TruncateDeposit(t, deliver) = part
    BY DEF TruncateDeposit
  <2> HIDE DEF cut, part
  <2>6. AmountSent(amounts) = cut.sent /\ amounts.amount <= cut.sent
    BY <1>1, <1>5, <2>1, <2>2, <2>3, <2>4, <2>5, IdentityAssumption DEF AmountSent
  <2>7. coin = cut.sent
    BY <1>6, <2>6 DEF CoinOf
  <2>8. t # XRP => amounts.max_amount # None
    BY <1>5, <2>1, <2>3, IdentityAssumption
  <2>9. Payable(params, t, amounts)
    BY <1>2, <1>6, <2>3, <2>6, <2>7, <2>8 DEF Payable
  <2> HIDE DEF coin, amounts
  <2>. QED BY <1>1, <1>3, <1>4, <2>1, <2>3, <2>7, <2>9 DEF coin, amounts
<1>7. CASE ~IsIssued(t)
  <2> DEFINE d == params[t].decimals
             cut == truncate_amount(precision, d, after)
             out == truncate_and_convert_amount(precision, d, XRPL_TOKENS_DECIMALS,
                                                deposit.amount, fee)
  <2>1. Sent(deposit) = out
    BY <1>7 DEF Sent
  <2>2. /\ CanTruncateAndConvert(precision, d, XRPL_TOKENS_DECIMALS, deposit.amount, fee)
        /\ deposit.deliver_amount = None
    BY <1>2, <1>7 DEF DepositAllowed
  <2>3. CanTruncate(precision, d, after)
    BY <2>2 DEF CanTruncateAndConvert
  <2>4. LegalPrecision(precision, d) /\ d <= MAX_COSMOS_TOKEN_DECIMALS /\ t # XRP
    BY <1>3, <1>7
  <2>5. /\ convert_amount_decimals(XRPL_TOKENS_DECIMALS, d, out.sent) = cut.sent
        /\ out.remainder = cut.remainder
        /\ Exact(d, out.sent)
    BY <1>1, <1>3, <2>2, <2>4, ConversionBack
  <2>6. /\ cut.sent \in 0 .. after /\ cut.remainder \in Nat /\ cut.sent + cut.remainder = after
        /\ cut.sent > 0
    BY <1>4, <2>3, <2>4, Truncated
  <2> HIDE DEF cut, out
  <2>7. amounts.amount = out.sent /\ amounts.max_amount = out.sent
    BY <1>5, <2>1, <2>2, <2>4
  <2>8. coin = cut.sent
    BY <1>7, <2>5, <2>7 DEF CoinOf
  <2>9. out.sent \in Nat
    BY <2>5 DEF Exact
  <2>10. AmountSent(amounts) = out.sent /\ amounts.max_amount # None
    BY <2>7, <2>9, IdentityAssumption DEF AmountSent
  <2>11. Payable(params, t, amounts)
    BY <1>2, <1>7, <2>5, <2>6, <2>7, <2>8, <2>9, <2>10 DEF Payable
  <2> HIDE DEF coin, amounts
  <2>. QED BY <1>1, <1>3, <1>4, <2>1, <2>5, <2>6, <2>8, <2>11 DEF coin, amounts
<1>. QED BY <1>6, <1>7

\* What a deposit of the XRPL is worth on Cosmos is paid out or a fee.
LEMMA CreditAmounts ==
  ASSUME ParamsOK, NEW e, Credits(e)
  PROVE  LET t == e.token
             worth == IF IsIssued(t) THEN e.amount
                      ELSE convert_amount_decimals(XRPL_TOKENS_DECIMALS, params[t].decimals,
                                                   e.amount)
         IN /\ Credit(e).sent \in Nat \ {0} /\ Credit(e).remainder \in Nat
            /\ worth \in Nat
            /\ worth = Credit(e).sent + params[t].bridging_fee + Credit(e).remainder
<1> DEFINE t == e.token
           fee == params[t].bridging_fee
           precision == params[t].sending_precision
           d == params[t].decimals
           converted == convert_amount_decimals(XRPL_TOKENS_DECIMALS, d, e.amount)
<1>1. t \in DOMAIN params /\ e.amount \in Nat /\ CreditAllowed(e)
  BY DEF Credits
<1>2. /\ fee \in Nat /\ LegalPrecision(precision, Decimals(t))
      /\ ~IsIssued(t) => /\ Decimals(t) = d
                         /\ d <= MAX_COSMOS_TOKEN_DECIMALS
  BY <1>1, TokenLegal
<1>3. CASE IsIssued(t)
  <2> DEFINE after == e.amount - fee
             cut == truncate_amount(precision, Decimals(t), after)
  <2>1. Credit(e) = cut
    BY <1>3 DEF Credit
  <2>2. fee <= e.amount /\ CanTruncate(precision, Decimals(t), after)
    BY <1>1, <1>3 DEF CreditAllowed, CanCoverFees
  <2>3. after \in Nat
    BY <1>1, <1>2, <2>2
  <2>4. /\ cut.sent \in 0 .. after /\ cut.remainder \in Nat /\ cut.sent + cut.remainder = after
        /\ cut.sent > 0
    BY <1>2, <2>2, <2>3, Truncated
  <2> HIDE DEF cut
  <2>. QED BY <1>1, <1>2, <1>3, <2>1, <2>3, <2>4
<1>4. CASE ~IsIssued(t)
  <2> DEFINE after == converted - fee
             cut == truncate_amount(precision, d, after)
  <2>1. Credit(e) = cut
    BY <1>4 DEF Credit, convert_and_truncate_amount
  <2>2. fee <= converted /\ CanTruncate(precision, d, after)
    BY <1>1, <1>4 DEF CreditAllowed, CanConvertAndTruncate, CanCoverFees
  <2>3. LegalPrecision(precision, d) /\ d <= MAX_COSMOS_TOKEN_DECIMALS
    BY <1>2, <1>4
  <2>4. converted \in Nat
    BY <1>1, <2>3, ConvertSum
  <2>5. after \in Nat
    BY <1>2, <2>2, <2>4
  <2>6. /\ cut.sent \in 0 .. after /\ cut.remainder \in Nat /\ cut.sent + cut.remainder = after
        /\ cut.sent > 0
    BY <2>2, <2>3, <2>5, Truncated
  <2> HIDE DEF cut, converted
  <2>. QED BY <1>1, <1>2, <1>4, <2>1, <2>4, <2>5, <2>6 DEF converted
<1>. QED BY <1>3, <1>4

-----------------------------------------------------------------------------
\* Every step keeps this order.

\* Tokens are added and updated, and keep their decimals.
SameDecimals(p, q) ==
  DOMAIN p \subseteq DOMAIN q /\ \A t \in DOMAIN p : q[t].decimals = p[t].decimals

\* What is payable stays so, and for the same coins.
LEMMA PayableKept ==
  ASSUME NEW p, NEW q, SameDecimals(p, q), NEW t, NEW amounts, Payable(p, t, amounts)
  PROVE  Payable(q, t, amounts) /\ q[t].decimals = p[t].decimals
  BY DEF SameDecimals, Payable

\* A registration keeps the parameters in order.
LEMMA ParamsRegister ==
  ASSUME ParamsOK, NEW token, NEW parameters, Registers(token, parameters)
  PROVE  ParamsOK' /\ SameDecimals(params, params')
<1>1. /\ DOMAIN params' = DOMAIN params \cup {token}
      /\ params'[token] = parameters
      /\ \A t \in DOMAIN params : params'[t] = params[t]
      /\ token \in BridgedTokens
      /\ RegisteredTokens' = RegisteredTokens \cup {token}
  BY DEF Registers, Put
<1>2. ASSUME NEW t \in DOMAIN params
      PROVE  /\ params'[t] \in TokenParameters
             /\ LegalPrecision(params'[t].sending_precision, Decimals(t)')
             /\ ~IsIssued(t) => params'[t].decimals <= MAX_COSMOS_TOKEN_DECIMALS
  <2>1. Decimals(t)' = Decimals(t)
    BY <1>1 DEF Decimals
  <2>. QED BY <1>1, <2>1 DEF ParamsOK
<1>3. /\ parameters \in TokenParameters
      /\ LegalPrecision(parameters.sending_precision, Decimals(token)')
      /\ ~IsIssued(token) => parameters.decimals <= MAX_COSMOS_TOKEN_DECIMALS
  BY <1>1 DEF Registers, Decimals
<1>. QED BY <1>1, <1>2, <1>3 DEF ParamsOK, SameDecimals

\* An update keeps the parameters in order.
LEMMA ParamsUpdate ==
  ASSUME ParamsOK, NEW token, NEW update \in UpdateInputs, Updates(token, update)
  PROVE  /\ ParamsOK' /\ SameDecimals(params, params')
         /\ \A t \in DOMAIN params \ {token} : params'[t] = params[t]
         /\ params'[token].max_holding_amount =
              Or(update.max_holding_amount, params[token].max_holding_amount)
<1> DEFINE old == params[token]
           new == [old EXCEPT
                     !.sending_precision = Or(update.sending_precision, old.sending_precision),
                     !.bridging_fee = Or(update.bridging_fee, old.bridging_fee),
                     !.max_holding_amount = Or(update.max_holding_amount, old.max_holding_amount)]
<1>1. /\ token \in DOMAIN params
      /\ update.sending_precision # None =>
           validate_sending_precision(update.sending_precision, Decimals(token))
      /\ RegisteredTokens' = RegisteredTokens
  BY DEF Updates, UpdateParams
<1>2. params' = [params EXCEPT ![token] = new]
  BY DEF Updates, UpdateParams
<1>3. /\ update.sending_precision \in Int \cup {None}
      /\ update.bridging_fee \in Nat \cup {None}
      /\ update.max_holding_amount \in Nat \cup {None}
  BY AmountAssumption
<1>4. /\ old \in TokenParameters
      /\ LegalPrecision(old.sending_precision, Decimals(token))
      /\ ~IsIssued(token) => old.decimals <= MAX_COSMOS_TOKEN_DECIMALS
  BY <1>1 DEF ParamsOK
<1>5. /\ new \in TokenParameters /\ new.decimals = old.decimals
      /\ new.sending_precision = Or(update.sending_precision, old.sending_precision)
      /\ new.max_holding_amount = Or(update.max_holding_amount, old.max_holding_amount)
  BY <1>3, <1>4 DEF TokenParameters, Or
<1> HIDE DEF new
<1>6. /\ DOMAIN params' = DOMAIN params
      /\ params'[token] = new
      /\ \A t \in DOMAIN params \ {token} : params'[t] = params[t]
  BY <1>1, <1>2
<1>7. \A t \in DOMAIN params : params'[t].decimals = params[t].decimals
  BY <1>5, <1>6
<1>8. \A t \in DOMAIN params : Decimals(t)' = Decimals(t)
  BY <1>7 DEF Decimals
<1>9. LegalPrecision(new.sending_precision, Decimals(token))
  BY <1>1, <1>4, <1>5, PrecisionLegal DEF Or, LegalPrecision
<1>10. ASSUME NEW t \in DOMAIN params
       PROVE  /\ params'[t] \in TokenParameters
              /\ LegalPrecision(params'[t].sending_precision, Decimals(t)')
              /\ ~IsIssued(t) => params'[t].decimals <= MAX_COSMOS_TOKEN_DECIMALS
  BY <1>1, <1>4, <1>5, <1>6, <1>7, <1>8, <1>9 DEF ParamsOK
<1>11. ParamsOK'
  BY <1>1, <1>6, <1>10 DEF ParamsOK
<1>. QED BY <1>5, <1>6, <1>7, <1>11 DEF SameDecimals

\* So does every step.
LEMMA ParamsStep ==
  ASSUME BridgeInv, [BridgeNext]_bridgeVars
  PROVE  ParamsOK' /\ SameDecimals(params, params')
<1>1. ParamsOK
  BY DEF BridgeInv
<1>2. ASSUME UNCHANGED params, DOMAIN xrplTokens' = DOMAIN xrplTokens,
             UNCHANGED cosmosTokens
      PROVE  ParamsOK' /\ SameDecimals(params, params')
  <2>1. RegisteredTokens' = RegisteredTokens
    BY <1>2 DEF RegisteredTokens
  <2>2. \A t : Decimals(t)' = Decimals(t)
    BY <1>2 DEF Decimals
  <2>. QED BY <1>1, <1>2, <2>1, <2>2 DEF ParamsOK, SameDecimals
<1>3. CASE Idle
  BY <1>2, <1>3 DEF Idle, fundVars
<1>4. ASSUME NEW e, Credits(e) PROVE ParamsOK' /\ SameDecimals(params, params')
  BY <1>2, <1>4 DEF Credits, tokenVars
<1>5. ASSUME NEW deposit, NEW key, Sends(deposit, key)
      PROVE  ParamsOK' /\ SameDecimals(params, params')
  BY <1>2, <1>5 DEF Sends, tokenVars
<1>6. ASSUME NEW key, NEW result, Settles(key, result)
      PROVE  ParamsOK' /\ SameDecimals(params, params')
  BY <1>2, <1>6 DEF Settles
<1>7. ASSUME NEW sender, NEW id, BridgeClaimRefund(sender, id)
      PROVE  ParamsOK' /\ SameDecimals(params, params')
  BY <1>2, <1>7 DEF BridgeClaimRefund, ClaimRefund, tokenVars
<1>8. ASSUME NEW sender, NEW item, ClaimRelayerFees(sender, item) \/ MintCosmosToken(sender, item)
      PROVE  ParamsOK' /\ SameDecimals(params, params')
  BY <1>2, <1>8 DEF ClaimRelayerFees, MintCosmosToken, vars, tokenVars
<1>9. ASSUME NEW item, XRPLDeposit(item) \/ XRPLExecute(item)
      PROVE  ParamsOK' /\ SameDecimals(params, params')
  BY <1>2, <1>9 DEF XRPLDeposit, XRPLExecute, vars, tokenVars
<1>. QED BY <1>1, <1>3, <1>4, <1>5, <1>6, <1>7, <1>8, <1>9, BridgeCases,
            ParamsRegister, ParamsUpdate

\* The transfers before and after a step
LEMMA TransfersCases ==
  ASSUME BridgeInv, [BridgeNext]_bridgeVars
  PROVE  \/ /\ TransfersKept
            /\ \/ executed' = executed
               \/ \E key \in Transfers : executed' = executed \cup {key}
         \/ /\ executed' = executed
            /\ \E deposit \in DepositInputs, key \in Nat : Sends(deposit, key)
         \/ \E key \in Transfers : TransferRemoved(key) /\ executed' = executed \ {key}
<1>1. CASE Idle
  BY <1>1 DEF Idle, fundVars, xrplVars
<1>2. ASSUME NEW e, Credits(e) PROVE TransfersKept /\ executed' = executed
  BY <1>2 DEF Credits, xrplVars
<1>3. ASSUME NEW deposit, NEW key, Sends(deposit, key) PROVE executed' = executed
  BY <1>3 DEF Sends, xrplVars
<1>4. ASSUME NEW key, NEW result, Settles(key, result)
      PROVE  \/ TransfersKept /\ executed' = executed
             \/ key \in Transfers /\ TransferRemoved(key) /\ executed' = executed \ {key}
  BY <1>4 DEF Settles, BridgeInv, TransfersOK
<1>5. ASSUME UNCHANGED pendingOperations PROVE TransfersKept
  BY <1>5, KeptTransfers DEF Kept
<1>6. ASSUME NEW sender, NEW item,
             \/ BridgeClaimRefund(sender, item)
             \/ ClaimRelayerFees(sender, item)
             \/ MintCosmosToken(sender, item)
      PROVE  TransfersKept /\ executed' = executed
  BY <1>5, <1>6 DEF BridgeClaimRefund, ClaimRefund, ClaimRelayerFees, MintCosmosToken,
                    vars, xrplVars
<1>7. ASSUME NEW token, NEW item, Registers(token, item) \/ Updates(token, item)
      PROVE  TransfersKept /\ executed' = executed
  BY <1>7 DEF Registers, Updates, UpdateParams, xrplVars
<1>8. ASSUME NEW e, XRPLDeposit(e) PROVE TransfersKept /\ executed' = executed
  BY <1>5, <1>8 DEF XRPLDeposit, vars
<1>9. ASSUME NEW key \in DOMAIN pendingOperations, XRPLExecute(key)
      PROVE  TransfersKept /\ key \in Transfers /\ executed' = executed \cup {key}
  BY <1>5, <1>9 DEF XRPLExecute, vars, IsTransfer, Transfers, PendingOfType
<1>. QED BY <1>1, <1>2, <1>3, <1>4, <1>6, <1>7, <1>8, <1>9, BridgeCases

\* A step keeps the pending transfers payable.
LEMMA TransfersStep ==
  ASSUME BridgeInv, [BridgeNext]_bridgeVars
  PROVE  TransfersOK'
<1>1. TransfersOK /\ ParamsOK /\ SameDecimals(params, params')
  BY ParamsStep DEF BridgeInv
<1>2. \A key \in Transfers : Payable(params', pendingOperations[key].operation_type.token,
                                     pendingOperations[key].operation_type.amount)
  BY <1>1, PayableKept DEF TransfersOK
<1>3. ASSUME TransfersKept, executed' \subseteq Transfers PROVE TransfersOK'
  BY <1>1, <1>2, <1>3 DEF TransfersOK, TransfersKept
<1>4. ASSUME NEW key, TransferRemoved(key), executed' = executed \ {key} PROVE TransfersOK'
  <2>1. IsFiniteSet(Transfers')
    BY <1>1, <1>4, FS_RemoveElement DEF TransfersOK, TransferRemoved
  <2>. QED BY <1>1, <1>2, <1>4, <2>1 DEF TransfersOK, TransferRemoved
<1>5. ASSUME NEW deposit \in DepositInputs, NEW key, Sends(deposit, key), executed' = executed
      PROVE  TransfersOK'
  <2> DEFINE type == [type |-> "CosmosToXRPLTransfer", token |-> deposit.token,
                      amount |-> OperationAmount(deposit),
                      sender |-> deposit.sender, recipient |-> deposit.recipient]
  <2>1. type.token = deposit.token /\ type.amount = OperationAmount(deposit)
    OBVIOUS
  <2>2. TransferAdded(key, type)
    BY <1>5 DEF Sends
  <2> HIDE DEF type
  <2>3. Payable(params, type.token, type.amount)
    BY <1>1, <1>5, <2>1, SendAmounts
  <2>4. Payable(params', type.token, type.amount)
    BY <1>1, <2>3, PayableKept
  <2>5. IsFiniteSet(Transfers')
    BY <1>1, <2>2, FS_AddElement DEF TransfersOK, TransferAdded
  <2>. QED BY <1>1, <1>2, <1>5, <2>2, <2>4, <2>5 DEF TransfersOK, TransferAdded
<1>. QED BY <1>1, <1>3, <1>4, <1>5, TransfersCases DEF TransfersOK

\* The refunds before and after a step
LEMMA RefundsCases ==
  ASSUME BridgeInv, [BridgeNext]_bridgeVars
  PROVE  \/ pendingRefunds' = pendingRefunds
         \/ \E key \in Transfers : \E id :
              pendingRefunds' = Put(pendingRefunds, id,
                                    [token |-> pendingOperations[key].operation_type.token,
                                     amount |-> pendingOperations[key].operation_type.amount])
         \/ \E k \in DOMAIN pendingRefunds : pendingRefunds' = Without(pendingRefunds, k)
<1>1. ASSUME NEW key, NEW result, Settles(key, result)
      PROVE  \/ pendingRefunds' = pendingRefunds
             \/ key \in Transfers /\ \E id :
                  pendingRefunds' = Put(pendingRefunds, id,
                                        [token |-> pendingOperations[key].operation_type.token,
                                         amount |-> pendingOperations[key].operation_type.amount])
  BY <1>1 DEF Settles, handle_cosmos_to_xrpl_transfer_confirmation, Transfers, PendingOfType
<1>2. ASSUME NEW sender, NEW id, BridgeClaimRefund(sender, id)
      PROVE  \E k \in DOMAIN pendingRefunds : pendingRefunds' = Without(pendingRefunds, k)
  BY <1>2 DEF BridgeClaimRefund, ClaimRefund
<1>3. ASSUME NEW item, NEW other,
             \/ Idle \/ Credits(item) \/ Sends(item, other)
             \/ ClaimRelayerFees(other, item) \/ MintCosmosToken(other, item)
             \/ Registers(item, other) \/ Updates(item, other)
             \/ XRPLDeposit(item) \/ XRPLExecute(item)
      PROVE  pendingRefunds' = pendingRefunds
  BY <1>3 DEF Idle, Credits, Sends, ClaimRelayerFees, MintCosmosToken, Registers, Updates,
              XRPLDeposit, XRPLExecute, vars
<1>. QED BY <1>1, <1>2, <1>3, BridgeCases

\* A step keeps the refunds payable.
LEMMA RefundsStep ==
  ASSUME BridgeInv, [BridgeNext]_bridgeVars
  PROVE  RefundsOK'
<1>1. RefundsOK /\ TransfersOK /\ SameDecimals(params, params')
  BY ParamsStep DEF BridgeInv
<1>2. \A k \in DOMAIN pendingRefunds :
        Payable(params', pendingRefunds[k].token, pendingRefunds[k].amount)
  BY <1>1, PayableKept DEF RefundsOK
<1>3. CASE pendingRefunds' = pendingRefunds
  BY <1>1, <1>2, <1>3 DEF RefundsOK
<1>4. ASSUME NEW key \in Transfers, NEW id,
             pendingRefunds' = Put(pendingRefunds, id,
                                   [token |-> pendingOperations[key].operation_type.token,
                                    amount |-> pendingOperations[key].operation_type.amount])
      PROVE  RefundsOK'
  <2> DEFINE new == [token |-> pendingOperations[key].operation_type.token,
                     amount |-> pendingOperations[key].operation_type.amount]
  <2>1. Payable(params', new.token, new.amount)
    BY <1>1, PayableKept DEF TransfersOK
  <2> HIDE DEF new
  <2>2. /\ DOMAIN pendingRefunds' = DOMAIN pendingRefunds \cup {id}
        /\ pendingRefunds'[id] = new
        /\ \A k \in DOMAIN pendingRefunds : k # id => pendingRefunds'[k] = pendingRefunds[k]
    BY <1>4 DEF Put, new
  <2>3. IsFiniteSet(DOMAIN pendingRefunds')
    BY <1>1, <2>2, FS_AddElement DEF RefundsOK
  <2>. QED BY <1>2, <2>1, <2>2, <2>3 DEF RefundsOK
<1>5. ASSUME NEW k \in DOMAIN pendingRefunds, pendingRefunds' = Without(pendingRefunds, k)
      PROVE  RefundsOK'
  <2>1. /\ DOMAIN pendingRefunds' = DOMAIN pendingRefunds \ {k}
        /\ \A i \in DOMAIN pendingRefunds \ {k} : pendingRefunds'[i] = pendingRefunds[i]
    BY <1>5, WithoutEntries
  <2>2. IsFiniteSet(DOMAIN pendingRefunds')
    BY <1>1, <2>1, FS_RemoveElement DEF RefundsOK
  <2>. QED BY <1>2, <2>1, <2>2 DEF RefundsOK
<1>. QED BY <1>3, <1>4, <1>5, RefundsCases

\* A step adds a deposit of a new transaction, or none.
LEMMA DepositsStep ==
  ASSUME BridgeInv, [BridgeNext]_bridgeVars
  PROVE  DepositsOK'
<1>1. DepositsOK
  BY DEF BridgeInv
<1>2. CASE deposits' = deposits
  BY <1>1, <1>2 DEF DepositsOK, get_tx_hash
<1>3. ASSUME NEW e \in TransferInputs, XRPLDeposit(e) PROVE DepositsOK'
  <2>1. /\ deposits' = deposits \cup {e} /\ get_tx_hash(e) = e.tx_hash
        /\ \A d \in deposits : get_tx_hash(d) # get_tx_hash(e)
    BY <1>1, <1>3 DEF XRPLDeposit, DepositsOK, get_tx_hash
  <2>2. IsFiniteSet(deposits')
    BY <1>1, <2>1, FS_AddElement DEF DepositsOK
  <2>. QED BY <1>1, <2>1, <2>2 DEF DepositsOK, get_tx_hash
<1>4. ASSUME NEW item, NEW other,
             \/ Idle \/ Credits(item) \/ Sends(item, other) \/ Settles(item, other)
             \/ BridgeClaimRefund(other, item)
             \/ ClaimRelayerFees(other, item) \/ MintCosmosToken(other, item)
             \/ Registers(item, other) \/ Updates(item, other) \/ XRPLExecute(item)
      PROVE  deposits' = deposits
  BY <1>4 DEF Idle, Credits, Sends, Settles, BridgeClaimRefund, ClaimRelayerFees,
              MintCosmosToken, Registers, Updates, UpdateParams, XRPLExecute, fundVars, xrplVars
<1>. QED BY <1>2, <1>3, <1>4, BridgeCases

\* The bridge keeps this order.
LEMMA BridgeInvStep == BridgeInv /\ [BridgeNext]_bridgeVars => BridgeInv'
<1> SUFFICES ASSUME BridgeInv, [BridgeNext]_bridgeVars PROVE BridgeInv'
  OBVIOUS
<1>1. [Next]_vars
  BY BridgeStep
<1>2. TypeOK' /\ SoundState' /\ MultisigInv'
  BY <1>1, TypeStep, RelayersStep, MultisigStep DEF BridgeInv
<1>. QED BY <1>2, ParamsStep, TransfersStep, RefundsStep, DepositsStep DEF BridgeInv

\* A new contract has XRP registered and owes nothing.
LEMMA BridgeInvInit == BridgeInit => BridgeInv
<1> SUFFICES ASSUME BridgeInit PROVE BridgeInv
  OBVIOUS
<1>1. TypeOK
  BY TypeInit DEF BridgeInit
<1>2. SoundState
  BY InstantiateAssumption DEF BridgeInit, Init, SoundState, Sound, validate_relayers
<1>3. MultisigInv
  BY IdentityAssumption, InstantiateAssumption
     DEF BridgeInit, Init, MultisigInv, MultisigAddressNotUsed, PendingOfType, validate_relayers
<1>4. ParamsOK
  <2>1. /\ DOMAIN params = {XRP} /\ params[XRP] = InitParams
        /\ DOMAIN xrplTokens = {XRP} /\ DOMAIN cosmosTokens = {}
    BY DEF BridgeInit, Init
  <2>2. IsIssued(XRP) /\ XRP \in BridgedTokens
    BY IdentityAssumption DEF IsIssued, BridgedTokens
  <2>3. LegalPrecision(InitParams.sending_precision, XRP_DECIMALS)
    BY PrecisionLegal, BankAssumption, LimitsAssumption
  <2>. QED BY <2>1, <2>2, <2>3, BankAssumption DEF ParamsOK, RegisteredTokens, Decimals
<1>5. TransfersOK /\ RefundsOK /\ DepositsOK
  BY FS_EmptySet
     DEF BridgeInit, Init, TransfersOK, RefundsOK, DepositsOK, Transfers, PendingOfType
<1>. QED BY <1>1, <1>2, <1>3, <1>4, <1>5 DEF BridgeInv

\* Throughout, the parameters are those of the registered tokens and legal, every
\* pending transfer and every refund is for coins that can be paid exactly, and an
\* XRPL transaction is deposited once.
THEOREM BridgeInOrder == BridgeSpec => []BridgeInv
  BY BridgeInvInit, BridgeInvStep, PTL DEF BridgeSpec

=============================================================================
