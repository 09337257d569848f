SPECIFICATION MigratingSpec
CONSTANTS
  o = o  r1 = r1  r2 = r2  r3 = r3  r4 = r4  contract = contract
  None = None
  Addr = {o, r1, r2}
  Owner = o
  ContractAddr = contract
  XRPLAddress = {"bridge", "zero", "x1"}
  BridgeXRPLAddress = "bridge"
  Currency = {"XRP", "osmo"}
  CosmosDenom = {"osmo"}
  XRP <- MCXRP
  Amount = {7}
  XRPLAmount = {7}
  TxHash = {"A", "B", "C", "D", "E"}
  UpperCase <- Identity
  InitRelayers <- OneRelayer
  InitEvidenceThreshold = 1
  InitUsedTicketThreshold = 2
  InitBaseFee = 10
  InitProhibited = {"zero"}
  EvidenceInputs <- TicketEvidences
  SendInputs <- TicketSends
  Rotations = {}
  AccountSequences = {101, 102}
  TicketNumbers = {3, None}
  BaseFees = {}
  UsedTicketThresholds = {3}
  ProhibitedInputs = {}
  Migrations <- ToR2
  RegisterableTokens = {}
  MAX_TICKETS = 5
  MAX_RELAYERS = 3
  MaxVersion = 1
  MaxTime = 0
INVARIANTS
  TypeOK
  TicketUpdateFlag
  TicketsHeldOnce
PROPERTIES
  TransferAcceptedOrRefunded
  HaltedBridgeIsQuiet
