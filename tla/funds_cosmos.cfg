SPECIFICATION BridgeSpec
CONSTANTS
  o = o  r1 = r1  r2 = r2  r3 = r3  r4 = r4  contract = contract  entry = entry
  None = None
  Addr = {o, r1, r2}
  Owner = o
  ContractAddr = contract
  EntryPoint = entry
  XRPLAddress = {"bridge", "zero", "x1", "x2"}
  BridgeXRPLAddress = "bridge"
  Currency = {"XRP", "USD", "osmo"}
  CosmosDenom = {"osmo"}
  XRP <- MCXRP
  Amount <- OperationAmounts
  XRPLAmount = {2}
  TxHash = {"A", "B", "C", "X", "x"}
  UpperCase <- DepositSpelling
  InitRelayers <- TwoRelayers
  InitEvidenceThreshold = 1
  InitUsedTicketThreshold = 4
  InitBaseFee = 10
  InitProhibited = {"zero"}
  EvidenceInputs <- CosmosEvidences
  SendInputs <- CosmosSends
  Rotations <- RotateToR1
  AccountSequences = {101}
  TicketNumbers = {5}
  BaseFees = {}
  UsedTicketThresholds = {}
  ProhibitedInputs = {}
  Migrations = {}
  RegisterableTokens = {}
  MAX_TICKETS = 5
  MAX_RELAYERS = 2
  MaxVersion = 1
  MaxTime = 1
  XRP_DECIMALS = 1
  XRPL_TOKENS_DECIMALS = 1
  MIN_SENDING_PRECISION <- MinPrecision
  MAX_SENDING_PRECISION = 1
  MAX_COSMOS_TOKEN_DECIMALS = 2
  XRPL_MAX_TRUNCATED_AMOUNT_LENGTH = 1
  UINT128_MAX = 500
  UINT128_DIGITS = 3
  InitParams <- XRPParams
  InitBank <- CosmosBank
  DepositInputs <- CosmosDeposits
  ParamInputs <- CosmosParams
  UpdateInputs <- CosmosUpdates
  ClaimInputs <- CosmosClaims
  MintInputs <- CosmosMints
  MaxSupply = 60
INVARIANTS
  CirculationBacked
  WithinMaxHolding
  FeeRemaindersAreDust
PROPERTIES
  CoinsInCustody
