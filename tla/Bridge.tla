------------------------------- MODULE Bridge --------------------------------
(***************************************************************************)
(* The coins of the bridge.  Every action of Operations is taken here      *)
(* together with what its message does to balances, fees and parameters of *)
(* tokens, so a behaviour of Bridge is one of Operations.                  *)
(*                                                                         *)
(* A coin's denom is the key of its token: of an XRPL token the bridge     *)
(* mints and burns the denom it created for the key, of a Cosmos token it  *)
(* escrows the denom.  The Amount of Operations is, of an evidence, a      *)
(* number, and of an operation the pair of its amount and max_amount.      *)
(*                                                                         *)
(* The XRPL is outside the repository: `ledger', `deposits' and `executed' *)
(* say what happened there, and relayers report what happened.             *)
(***************************************************************************)
EXTENDS Operations, Amounts

CONSTANTS
  EntryPoint,           \* config.osor_entry_point, or None
  InitParams,           \* the parameters of XRP
  InitBank,             \* the balances of Cosmos tokens
  DepositInputs,        \* [sender, token, amount, deliver_amount, recipient] of SendToXRPL
  ParamInputs,          \* [decimals, sending_precision, bridging_fee, max_holding_amount]
  UpdateInputs,         \* the optional fields of UpdateXRPLToken and UpdateCosmosToken
  ClaimInputs,          \* functions from tokens to amounts, of ClaimRelayerFees
  MintInputs,           \* [token, address, amount] of MintCosmosToken
  MaxSupply             \* bound: coins of a token with MintCosmosToken

BankAccount == Addr \cup {ContractAddr, EntryPoint}

IsIssued(token) == token[1] # BridgeXRPLAddress

\* The tokens whose coins are looked at
BridgedTokens == {XRP} \cup RegisterableTokens \cup ({BridgeXRPLAddress} \X CosmosDenom)

TokenParameters ==
  [decimals : Nat, sending_precision : Int, bridging_fee : Nat, max_holding_amount : Nat]

ASSUME AmountAssumption ==
  /\ Amount \subseteq [amount : Nat, max_amount : Nat \cup {None}]
  /\ XRPLAmount \subseteq Nat
  /\ DepositInputs \subseteq [sender : Addr, token : Token, amount : Nat,
                              deliver_amount : Nat \cup {None}, recipient : XRPLAddress]
  /\ ParamInputs \subseteq TokenParameters
  /\ UpdateInputs \subseteq [state : TokenState \cup {None}, sending_precision : Int \cup {None},
                             bridging_fee : Nat \cup {None}, max_holding_amount : Nat \cup {None}]
  /\ \A amounts \in ClaimInputs :
       DOMAIN amounts \subseteq BridgedTokens /\ amounts \in [DOMAIN amounts -> Nat]
  /\ MintInputs \subseteq [token : {BridgeXRPLAddress} \X CosmosDenom, address : Addr, amount : Nat]

\* The contract starts without coins, and nobody has coins that it is yet to mint.
ASSUME BankAssumption ==
  /\ IsFiniteSet(Addr)
  /\ EntryPoint # ContractAddr
  /\ InitParams \in TokenParameters
  /\ validate_sending_precision(InitParams.sending_precision, XRP_DECIMALS)
  /\ InitBank \in [BridgedTokens -> [BankAccount -> Nat]]
  /\ \A t \in BridgedTokens, a \in BankAccount :
       a = ContractAddr \/ IsIssued(t) => InitBank[t][a] = 0

VARIABLES
  bank,                 \* balances, by token and account
  params,               \* the rest of XRPL_TOKENS and COSMOS_TOKENS
  feesCollected,        \* FEES_COLLECTED
  feeRemainders,        \* FEE_REMAINDERS, zero where there is none
  lost,                 \* (history) refunds that were stored over
  ledger,               \* (XRPL) the multisig's holding of an XRPL token, the circulating
                        \*   amount of a Cosmos token
  deposits,             \* (XRPL) transfers to the multisig, each an evidence to report
  executed              \* (XRPL) operations whose transaction succeeded, not yet confirmed

feeVars == <<feesCollected, feeRemainders>>
xrplVars == <<ledger, deposits, executed>>
fundVars == <<bank, params, feeVars, lost, xrplVars>>

NoCoins == [t \in BridgedTokens |-> 0]

TransferInputs == {e \in EvidenceInputs : e.kind = "XRPLToCosmosTransfer"}

BridgeInit ==
  /\ Init
  /\ bank = InitBank
  /\ params = [t \in {XRP} |-> InitParams]
  /\ feesCollected = [a \in {} |-> 0]
  /\ feeRemainders = NoCoins
  /\ lost = NoCoins
  /\ ledger = NoCoins
  /\ deposits = {}
  /\ executed = {}

-----------------------------------------------------------------------------
\* The bank and the token factory

Mint(balances, token, to, amount) == [balances EXCEPT ![token][to] = @ + amount]

Burn(balances, token, from, amount) == [balances EXCEPT ![token][from] = @ - amount]

Pay(balances, token, from, to, amount) ==
  Mint(Burn(balances, token, from, amount), token, to, amount)

Supply(token) == SumFunctionOnSet(bank[token], BankAccount)

Held(token) == bank[token][ContractAddr]

\* The decimals of a token on Cosmos
Decimals(token) ==
  IF ~IsIssued(token) THEN params[token].decimals
  ELSE IF token = XRP THEN XRP_DECIMALS ELSE XRPL_TOKENS_DECIMALS

IsTransfer(key) == pendingOperations[key].operation_type.type = "CosmosToXRPLTransfer"

-----------------------------------------------------------------------------
\* Fees

FeesOf(address) ==
  IF address \in DOMAIN feesCollected THEN feesCollected[address] ELSE NoCoins

\* Mutant: the remainder of the last collection is forgotten.
handle_fee_collection_ForgetsRemainder(token, remainder) ==
  LET fee == params[token].bridging_fee + remainder
      relayers == Cardinality(config.relayers)
      share == amount_for_each_relayer(fee, relayers)
  IN /\ feesCollected' = [a \in DOMAIN feesCollected \cup relayerAddresses |->
                            IF a \in relayerAddresses
                            THEN [FeesOf(a) EXCEPT ![token] = @ + share]
                            ELSE feesCollected[a]]
     /\ feeRemainders' = [feeRemainders EXCEPT ![token] = fee_remainder(fee, relayers)]

\* Mutant: the fee is split by itself and its remainder put to the others.
handle_fee_collection_PilesUp(token, remainder) ==
  LET fee == params[token].bridging_fee + remainder
      relayers == Cardinality(config.relayers)
      share == amount_for_each_relayer(fee, relayers)
  IN /\ feesCollected' = [a \in DOMAIN feesCollected \cup relayerAddresses |->
                            IF a \in relayerAddresses
                            THEN [FeesOf(a) EXCEPT ![token] = @ + share]
                            ELSE feesCollected[a]]
     /\ feeRemainders' = [feeRemainders EXCEPT ![token] = @ + fee_remainder(fee, relayers)]

\* handle_fee_collection and collect_fees: the fee and what truncation cut off
\* are split between the relayers in office.
handle_fee_collection(token, remainder) ==
  LET fee == params[token].bridging_fee + remainder
      total == fee + feeRemainders[token]
      relayers == Cardinality(config.relayers)
      share == amount_for_each_relayer(total, relayers)
  IN IF fee = 0
     THEN UNCHANGED feeVars
     ELSE /\ feesCollected' =
               IF share = 0 THEN feesCollected
               ELSE [a \in DOMAIN feesCollected \cup relayerAddresses |->
                       IF a \in relayerAddresses
                       THEN [FeesOf(a) EXCEPT ![token] = @ + share]
                       ELSE feesCollected[a]]
          /\ feeRemainders' = [feeRemainders EXCEPT ![token] = fee_remainder(total, relayers)]

\* Mutant: the subtraction is not checked.
substract_relayer_fees_Unchecked(sender, amounts) ==
  feesCollected' = [feesCollected EXCEPT ![sender] =
                      [t \in BridgedTokens |-> IF t \in DOMAIN amounts THEN @[t] - amounts[t] ELSE @[t]]]

substract_relayer_fees(sender, amounts) ==
  /\ \A t \in DOMAIN amounts : feesCollected[sender][t] >= amounts[t]
  /\ feesCollected' = [feesCollected EXCEPT ![sender] =
                         [t \in BridgedTokens |-> IF t \in DOMAIN amounts THEN @[t] - amounts[t] ELSE @[t]]]

ClaimRelayerFees(sender, amounts) ==
  /\ assert_bridge_active
  /\ sender \in DOMAIN feesCollected
  /\ substract_relayer_fees(sender, amounts)
  /\ \A t \in DOMAIN amounts : amounts[t] <= Held(t)
  /\ bank' = [t \in BridgedTokens |-> IF t \in DOMAIN amounts
                              THEN Pay(bank, t, ContractAddr, sender, amounts[t])[t]
                              ELSE bank[t]]
  /\ UNCHANGED <<vars, params, feeRemainders, lost, xrplVars>>

-----------------------------------------------------------------------------
\* From the XRPL to Cosmos

\* Relayers report what happened on the XRPL, each with the hash as it spells it.
Happened(e) ==
  IF e.kind = "XRPLToCosmosTransfer" THEN [e EXCEPT !.tx_hash = UpperCase[@]] \in deposits
  ELSE IsTransfer(ResultKey(e)) =>
         (e.transaction_result = "Accepted" <=> ResultKey(e) \in executed)

\* A transaction of the XRPL pays the multisig; its hash is in upper case.  Of a
\* Cosmos token only what circulates can be paid.
XRPLDeposit(e) ==
  /\ e.tx_hash = UpperCase[e.tx_hash]
  /\ \A d \in deposits : d.tx_hash # e.tx_hash
  /\ IF IsIssued(e.token)
     THEN ledger' = [ledger EXCEPT ![e.token] = @ + e.amount]
     ELSE e.amount <= ledger[e.token] /\ ledger' = [ledger EXCEPT ![e.token] = @ - e.amount]
  /\ deposits' = deposits \cup {e}
  /\ UNCHANGED <<vars, bank, params, feeVars, lost, executed>>

\* Mutant: the limit is compared with the supply alone.
CreditAllowed_ComparesSupply(e) ==
  LET token == params[e.token]
  IN IF IsIssued(e.token)
     THEN /\ CanCoverFees(e.amount, token.bridging_fee)
          /\ CanTruncate(token.sending_precision, Decimals(e.token),
                         e.amount - token.bridging_fee)
          /\ Supply(e.token) <= token.max_holding_amount
     ELSE CanConvertAndTruncate(token.sending_precision, XRPL_TOKENS_DECIMALS, token.decimals,
                                e.amount, token.bridging_fee)

\* The amount covers the fee and is not zero after truncation, and minting it
\* does not exceed the maximum holding amount.  Checked at every vote.
CreditAllowed(e) ==
  LET token == params[e.token]
  IN IF IsIssued(e.token)
     THEN /\ CanCoverFees(e.amount, token.bridging_fee)
          /\ CanTruncate(token.sending_precision, Decimals(e.token),
                         e.amount - token.bridging_fee)
          /\ e.amount + Supply(e.token) \in Uint128
          /\ e.amount + Supply(e.token) <= token.max_holding_amount
     ELSE CanConvertAndTruncate(token.sending_precision, XRPL_TOKENS_DECIMALS, token.decimals,
                                e.amount, token.bridging_fee)

\* The amount sent to the recipient and the remainder
Credit(e) ==
  LET token == params[e.token]
  IN IF IsIssued(e.token)
     THEN truncate_amount(token.sending_precision, Decimals(e.token),
                          e.amount - token.bridging_fee)
     ELSE convert_and_truncate_amount(token.sending_precision, XRPL_TOKENS_DECIMALS,
                                      token.decimals, e.amount, token.bridging_fee)

\* Mutant: the reply to a failed swap reports success and the coins stay behind.
Beneficiaries_ReplySwallowsError(e) ==
  IF e.memo # "" /\ EntryPoint # None THEN {EntryPoint, ContractAddr} ELSE {e.recipient}

\* Who is paid: the recipient, or the entry point that makes the swap of the memo.
\* When the swap fails, `reply' loads TEMP_UNIVERSAL_SWAP, which no handler stores,
\* so it fails too and the whole message is undone.
Beneficiaries(e) ==
  IF e.memo # "" /\ EntryPoint # None THEN {EntryPoint} ELSE {e.recipient}

BridgeRecordEvidence(sender, e) ==
  /\ RecordEvidence(sender, e)
  /\ Happened(e)
  /\ e.kind = "XRPLToCosmosTransfer" => CreditAllowed(e)
  /\ UNCHANGED fundVars

\* The coins of an XRPL token are minted, fees to the contract; those of a Cosmos
\* token are paid from the escrow, where the fees stay.
BridgeConfirmTransfer(sender, e) ==
  LET credit == Credit(e)
  IN /\ ConfirmTransfer(sender, e)
     /\ Happened(e)
     /\ CreditAllowed(e)
     /\ handle_fee_collection(e.token, credit.remainder)
     /\ ~IsIssued(e.token) => credit.sent <= Held(e.token)
     /\ \E to \in Beneficiaries(e) :
          bank' = IF IsIssued(e.token)
                  THEN Mint(Mint(bank, e.token, ContractAddr,
                                 params[e.token].bridging_fee + credit.remainder),
                            e.token, to, credit.sent)
                  ELSE Pay(bank, e.token, ContractAddr, to, credit.sent)
     /\ UNCHANGED <<params, lost, xrplVars>>

-----------------------------------------------------------------------------
\* From Cosmos to the XRPL

\* What send_to_xrpl computes from the coins it receives
AfterFees(deposit) == deposit.amount - params[deposit.token].bridging_fee

TruncateDeposit(token, amount) ==
  truncate_amount(params[token].sending_precision, Decimals(token), amount)

CanTruncateDeposit(token, amount) ==
  CanTruncate(params[token].sending_precision, Decimals(token), amount)

DepositAllowed(deposit) ==
  LET token == deposit.token
      deliver == deposit.deliver_amount
  IN /\ CanTruncateDeposit(token, deposit.amount)
     /\ CanCoverFees(deposit.amount, params[token].bridging_fee)
     /\ IF IsIssued(token)
        THEN /\ CanTruncateDeposit(token, AfterFees(deposit))
             /\ deliver # None =>
                  /\ token # XRP
                  /\ deliver <= deposit.amount
                  /\ deliver <= AfterFees(deposit)
                  /\ CanTruncateDeposit(token, deliver)
        ELSE /\ deliver = None
             /\ CanTruncateAndConvert(params[token].sending_precision, params[token].decimals,
                                      XRPL_TOKENS_DECIMALS, deposit.amount,
                                      params[token].bridging_fee)

\* The amount to deliver and the maximum to spend, both in XRPL decimals, and the
\* remainder that goes to the fees.
Sent(deposit) ==
  LET token == deposit.token
  IN IF IsIssued(token)
     THEN TruncateDeposit(token, AfterFees(deposit))
     ELSE truncate_and_convert_amount(params[token].sending_precision, params[token].decimals,
                                      XRPL_TOKENS_DECIMALS, deposit.amount,
                                      params[token].bridging_fee)

OperationAmount(deposit) ==
  [amount |-> IF deposit.deliver_amount = None THEN Sent(deposit).sent
              ELSE TruncateDeposit(deposit.token, deposit.deliver_amount).sent,
   max_amount |-> IF deposit.token = XRP THEN None ELSE Sent(deposit).sent]

BridgeSendToXRPL(deposit) ==
  LET token == deposit.token
      amounts == OperationAmount(deposit)
      send == [sender |-> deposit.sender, token |-> token, amount |-> amounts,
               recipient |-> deposit.recipient]
  IN /\ token \in DOMAIN params
     /\ deposit.amount <= bank[token][deposit.sender]
     /\ DepositAllowed(deposit)
     /\ send \in SendInputs
     /\ SendToXRPL(send)
     /\ validate_xrpl_amount(amounts.amount)
     /\ amounts.max_amount # None => validate_xrpl_amount(amounts.max_amount)
     /\ handle_fee_collection(token, Sent(deposit).remainder)
     /\ bank' = Pay(bank, token, deposit.sender, ContractAddr, deposit.amount)
     /\ IsIssued(token) \/ bank'[token][ContractAddr] <= params[token].max_holding_amount
     /\ UNCHANGED <<params, lost, xrplVars>>

\* What an operation took from its sender, in XRPL decimals and as a coin
AmountSent(amounts) == IF amounts.max_amount = None THEN amounts.amount ELSE amounts.max_amount

RefundCoin(token, amounts) ==
  IF IsIssued(token) THEN AmountSent(amounts)
  ELSE convert_amount_decimals(XRPL_TOKENS_DECIMALS, params[token].decimals, amounts.max_amount)

\* The transaction of a transfer succeeds on the XRPL.  It delivers the amount and,
\* with a token that has a transfer rate, may cost up to max_amount: the least and
\* the most are looked at.
XRPLExecute(key) ==
  LET transfer == pendingOperations[key].operation_type
      token == transfer.token
  IN /\ IsTransfer(key)
     /\ key \notin executed
     /\ \E spent \in {transfer.amount.amount, AmountSent(transfer.amount)} :
          IF IsIssued(token)
          THEN spent <= ledger[token] /\ ledger' = [ledger EXCEPT ![token] = @ - spent]
          ELSE ledger' = [ledger EXCEPT ![token] = @ + spent]
     /\ executed' = executed \cup {key}
     /\ UNCHANGED <<vars, bank, params, feeVars, lost, deposits>>

\* A refund that a transfer's failure stores over is lost, whatever its token.
LostWith(operation) ==
  LET id == <<operation.operation_type.sender, operation.id>>
      old == pendingRefunds[id]
  IN IF id \in DOMAIN pendingRefunds
     THEN [lost EXCEPT ![old.token] = @ + RefundCoin(old.token, old.amount)]
     ELSE lost

\* Mutant: the coins of an accepted transfer are not burnt.
SettleFunds_NoBurn(operation, result) ==
  LET transfer == operation.operation_type
  IN /\ bank' = bank
     /\ lost' = IF transfer.type = "CosmosToXRPLTransfer" /\ result # "Accepted"
                THEN LostWith(operation) ELSE lost

\* handle_cosmos_to_xrpl_transfer_confirmation: the coins of an XRPL token that
\* was accepted are burnt; a refund is only stored.
SettleFunds(operation, result) ==
  LET transfer == operation.operation_type
      token == transfer.token
  IN IF transfer.type = "CosmosToXRPLTransfer"
     THEN IF result = "Accepted"
          THEN /\ lost' = lost
               /\ IF IsIssued(token)
                  THEN /\ AmountSent(transfer.amount) <= Held(token)
                       /\ bank' = Burn(bank, token, ContractAddr, AmountSent(transfer.amount))
                  ELSE bank' = bank
          ELSE /\ ~IsIssued(token) =>
                    CanConvert(XRPL_TOKENS_DECIMALS, params[token].decimals,
                               transfer.amount.max_amount)
               /\ bank' = bank
               /\ lost' = LostWith(operation)
     ELSE UNCHANGED <<bank, lost>>

BridgeConfirmOperation(sender, e) ==
  LET key == ResultKey(e)
  IN /\ ConfirmOperation(sender, e)
     /\ Happened(e)
     /\ SettleFunds(pendingOperations[key], e.transaction_result)
     /\ executed' = executed \ {key}
     /\ UNCHANGED <<params, feeVars, ledger, deposits>>

\* The owner cancels what is not on the XRPL.
BridgeCancelPendingOperation(sender, key) ==
  /\ key \notin executed
  /\ CancelPendingOperation(sender, key)
  /\ SettleFunds(pendingOperations[key], "Invalid")
  /\ UNCHANGED <<params, feeVars, xrplVars>>

BridgeClaimRefund(sender, id) ==
  LET refund == pendingRefunds[<<sender, id>>]
      coin == RefundCoin(refund.token, refund.amount)
  IN /\ ClaimRefund(sender, id)
     /\ coin <= Held(refund.token)
     /\ bank' = Pay(bank, refund.token, ContractAddr, sender, coin)
     /\ UNCHANGED <<params, feeVars, lost, xrplVars>>

-----------------------------------------------------------------------------
\* Parameters of tokens

BridgeRegisterCosmosToken(sender, denom, parameters) ==
  /\ validate_cosmos_token_decimals(parameters.decimals)
  /\ validate_sending_precision(parameters.sending_precision, parameters.decimals)
  /\ RegisterCosmosToken(sender, denom)
  /\ params' = Put(params, <<BridgeXRPLAddress, denom>>, parameters)
  /\ UNCHANGED <<bank, feeVars, lost, xrplVars>>

BridgeRegisterXRPLToken(sender, token, parameters) ==
  /\ validate_sending_precision(parameters.sending_precision, XRPL_TOKENS_DECIMALS)
  /\ RegisterXRPLToken(sender, token)
  /\ params' = Put(params, token, [parameters EXCEPT !.decimals = XRPL_TOKENS_DECIMALS])
  /\ UNCHANGED <<bank, feeVars, lost, xrplVars>>

\* Mutant: a limit below what is held is accepted.
set_token_max_holding_amount_Any(current_bridged_amount, target) == TRUE

set_token_max_holding_amount(current_bridged_amount, target) ==
  target # None => current_bridged_amount <= target

Or(new, old) == IF new = None THEN old ELSE new

\* The optional fields that UpdateXRPLToken and UpdateCosmosToken share
UpdateParams(token, update, current_bridged_amount) ==
  /\ update.sending_precision # None =>
       validate_sending_precision(update.sending_precision, Decimals(token))
  /\ set_token_max_holding_amount(current_bridged_amount, update.max_holding_amount)
  /\ params' = [params EXCEPT
       ![token].sending_precision = Or(update.sending_precision, @),
       ![token].bridging_fee = Or(update.bridging_fee, @),
       ![token].max_holding_amount = Or(update.max_holding_amount, @)]
  /\ UNCHANGED <<bank, feeVars, lost, xrplVars>>

\* Without a state the message changes parameters only.
BridgeUpdateXRPLToken(sender, token, update) ==
  /\ IF update.state # None
     THEN UpdateXRPLToken(sender, token, update.state)
     ELSE /\ check_authorization(sender, "UpdateXRPLToken")
          /\ assert_bridge_active
          /\ token \in DOMAIN xrplTokens
          /\ UNCHANGED vars
  /\ UpdateParams(token, update, Supply(token))

BridgeUpdateCosmosToken(sender, denom, update) ==
  LET token == <<BridgeXRPLAddress, denom>>
  IN /\ IF update.state # None
        THEN UpdateCosmosToken(sender, denom, update.state)
        ELSE /\ check_authorization(sender, "UpdateCosmosToken")
             /\ assert_bridge_active
             /\ denom \in DOMAIN cosmosTokens
             /\ UNCHANGED vars
     /\ UpdateParams(token, update, Held(token))

\* MintCosmosToken, of a coin that the token factory lets the contract mint
MintCosmosToken(sender, mint) ==
  /\ check_authorization(sender, "MintCosmosToken")
  /\ Supply(mint.token) + mint.amount <= MaxSupply
  /\ bank' = Mint(bank, mint.token, mint.address, mint.amount)
  /\ UNCHANGED <<vars, params, feeVars, lost, xrplVars>>

-----------------------------------------------------------------------------
FundsNext(sender) ==
  \/ \E e \in EvidenceInputs : BridgeRecordEvidence(sender, e)
  \/ \E e \in TransferInputs : BridgeConfirmTransfer(sender, e)
  \/ \E e \in EvidenceInputs : BridgeConfirmOperation(sender, e)
  \/ \E deposit \in DepositInputs : deposit.sender = sender /\ BridgeSendToXRPL(deposit)
  \/ \E id \in {k[2] : k \in DOMAIN pendingRefunds} : BridgeClaimRefund(sender, id)
  \/ \E amounts \in ClaimInputs : ClaimRelayerFees(sender, amounts)
  \/ \E key \in DOMAIN pendingOperations : BridgeCancelPendingOperation(sender, key)
  \/ \E denom \in CosmosDenom, parameters \in ParamInputs :
        BridgeRegisterCosmosToken(sender, denom, parameters)
  \/ \E token \in RegisterableTokens, parameters \in ParamInputs :
        BridgeRegisterXRPLToken(sender, token, parameters)
  \/ \E token \in DOMAIN xrplTokens, update \in UpdateInputs :
        BridgeUpdateXRPLToken(sender, token, update)
  \/ \E denom \in DOMAIN cosmosTokens, update \in UpdateInputs :
        BridgeUpdateCosmosToken(sender, denom, update)
  \/ \E mint \in MintInputs : MintCosmosToken(sender, mint)

XRPLNext ==
  \/ \E e \in TransferInputs : XRPLDeposit(e)
  \/ \E key \in DOMAIN pendingOperations : XRPLExecute(key)

BridgeNext ==
  \/ \E sender \in Addr : FundsNext(sender)
  \/ \E sender \in Addr : ControlNext(sender) /\ UNCHANGED fundVars
  \/ \E sender \in Addr : SignNext(sender) /\ UNCHANGED fundVars
  \/ Tick /\ UNCHANGED fundVars
  \/ XRPLNext

bridgeVars == <<vars, fundVars>>

BridgeSpec == BridgeInit /\ [][BridgeNext]_bridgeVars

-----------------------------------------------------------------------------
\* Properties

\* One type invariant: balances, fees and remainders are amounts.
FundsTypeOK ==
  /\ bank \in [BridgedTokens -> [BankAccount -> Nat]]
  /\ feesCollected \in [DOMAIN feesCollected -> [BridgedTokens -> Nat]]
  /\ feeRemainders \in [BridgedTokens -> Nat]
  /\ lost \in [BridgedTokens -> Nat]
  /\ ledger \in [BridgedTokens -> Nat]
  /\ executed \subseteq DOMAIN pendingOperations

\* The coins in the contract, by what they are for.  A Cosmos token that reached
\* the XRPL circulates there, and may come back before its result is confirmed,
\* so it is escrow from then on; an XRPL token is in transit until it is burnt.
TransfersInTransit(token) ==
  {key \in DOMAIN pendingOperations :
     IsTransfer(key) /\ pendingOperations[key].operation_type.token = token
       /\ (IsIssued(token) \/ key \notin executed)}

InTransit(token) ==
  SumFunction([key \in TransfersInTransit(token) |->
                 RefundCoin(token, pendingOperations[key].operation_type.amount)])

RefundsOf(token) == {k \in DOMAIN pendingRefunds : pendingRefunds[k].token = token}

Refundable(token) ==
  SumFunction([k \in RefundsOf(token) |-> RefundCoin(token, pendingRefunds[k].amount)])

FeesOwed(token) ==
  feeRemainders[token] + SumFunction([a \in DOMAIN feesCollected |-> feesCollected[a][token]])

Escrow(token) ==
  Held(token) - InTransit(token) - Refundable(token) - FeesOwed(token) - lost[token]

CustodyOf == INSTANCE Custody WITH
  Denom <- BridgedTokens,
  Issued <- {t \in BridgedTokens : IsIssued(t)},
  account <- [t \in BridgedTokens |->
                [held |-> Held(t), transit |-> InTransit(t), refundable |-> Refundable(t),
                 fees |-> FeesOwed(t), escrow |-> Escrow(t), lost |-> lost[t]]]

\* The bridge implements Custody: every message moves coins of one token between
\* the parts as Custody allows, through truncation, conversion, fee splits over
\* rotations, failed swaps, refunds and cancellations.  So an XRPL token is held
\* only as far as it is owed, and nobody's claim is paid with another's coins.
CoinsInCustody == CustodyOf!Spec

Uncredited(token) == {e \in deposits : e.token = token /\ get_tx_hash(e) \notin processedTxs}

UncreditedDeposits(token) == SumFunction([e \in Uncredited(token) |-> e.amount])

Unconfirmed(token) == {key \in executed : pendingOperations[key].operation_type.token = token}

UnconfirmedSpending(token) ==
  SumFunction([key \in Unconfirmed(token) |->
                 AmountSent(pendingOperations[key].operation_type.amount)])

\* Collections over any number of fees, claims and rotations leave less than a coin
\* for each relayer undivided: fees do not pile up where no relayer can claim them.
FeeRemaindersAreDust ==
  \A token \in BridgedTokens : feeRemainders[token] < MAX_RELAYERS

\* What one chain represents the other one holds: the coins minted for an XRPL
\* token, save those about to be burnt, are held by the multisig account, and the
\* escrow covers what circulates of a Cosmos token or is on its way back.  A deposit
\* is credited once, however the relayers spell its hash.  The amounts are those of
\* the messages: the ledger neither rounds them nor charges the multisig XRP fees.
CirculationBacked ==
  \A token \in DOMAIN params :
    IF IsIssued(token)
    THEN Supply(token) + UncreditedDeposits(token) <= ledger[token] + UnconfirmedSpending(token)
    ELSE convert_amount_decimals(XRPL_TOKENS_DECIMALS, params[token].decimals,
                                 ledger[token] + UncreditedDeposits(token)) <= Escrow(token)

\* Evidences that were checked vote by vote and limits that the owner lowers never
\* take the bridge above a token's maximum holding amount.
WithinMaxHolding ==
  \A token \in DOMAIN params :
    (IF IsIssued(token) THEN Supply(token) ELSE Held(token)) <= params[token].max_holding_amount

=============================================================================
