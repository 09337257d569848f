SPECIFICATION BridgeSpec
CONSTANTS
  o = o  r1 = r1  r2 = r2  r3 = r3  r4 = r4  contract = contract  entry = entry
  None = None
  Addr = {o, r1, r2}
  Owner = o
  ContractAddr = contract
  EntryPoint = entry
  XRPLAddress = {"bridge", "zero", "iss", "x1", "x2"}
  BridgeXRPLAddress = "bridge"
  Currency = {"XRP", "USD", "osmo"}
  CosmosDenom = {}
  XRP <- MCXRP
  Amount <- OperationAmounts
  XRPLAmount = {57, 35}
  TxHash = {"A", "B", "C", "X", "Y"}
  UpperCase <- Identity
  InitRelayers <- TwoRelayers
  InitEvidenceThreshold = 2
  InitUsedTicketThreshold = 4
  InitBaseFee = 10
  InitProhibited = {"zero"}
  EvidenceInputs <- IssuedEvidences
  SendInputs <- IssuedSends
  Rotations = {}
  AccountSequences = {101}
  TicketNumbers = {5}
  BaseFees = {}
  UsedTicketThresholds = {}
  ProhibitedInputs = {}
  Migrations = {}
  RegisterableTokens <- USDOnly
  MAX_TICKETS = 5
  MAX_RELAYERS = 3
  MaxVersion = 0
  MaxTime = 0
  XRP_DECIMALS = 1
  XRPL_TOKENS_DECIMALS = 1
  MIN_SENDING_PRECISION <- MinPrecision
  MAX_SENDING_PRECISION = 1
  MAX_COSMOS_TOKEN_DECIMALS = 2
  XRPL_MAX_TRUNCATED_AMOUNT_LENGTH = 1
  UINT128_MAX = 500
  UINT128_DIGITS = 3
  InitParams <- XRPParams
  InitBank <- IssuedBank
  DepositInputs <- IssuedDeposits
  ParamInputs <- IssuedParams
  UpdateInputs <- IssuedUpdates
  ClaimInputs <- IssuedClaims
  MintInputs = {}
  MaxSupply = 0
INVARIANTS
  FundsTypeOK
  CirculationBacked
  WithinMaxHolding
PROPERTIES
  CoinsInCustody
