SPECIFICATION Spec
CONSTANTS
  o = o  r1 = r1  r2 = r2  r3 = r3  r4 = r4  contract = contract
  None = None
  Addr = {o, r1}
  Owner = o
  ContractAddr = contract
  XRPLAddress = {"bridge", "zero", "x1"}
  BridgeXRPLAddress = "bridge"
  Currency = {"XRP"}
  CosmosDenom = {}
  XRP <- MCXRP
  Amount = {7}
  XRPLAmount = {7}
  TxHash = {"A", "B", "C", "D"}
  UpperCase <- Identity
  InitRelayers <- OneRelayer
  InitEvidenceThreshold = 1
  InitUsedTicketThreshold = 2
  InitBaseFee = 10
  InitProhibited = {"zero"}
  EvidenceInputs <- HonestEvidences
  SendInputs <- TicketSends
  Rotations = {}
  AccountSequences = {101}
  TicketNumbers = {3}
  BaseFees = {}
  UsedTicketThresholds = {}
  ProhibitedInputs = {}
  Migrations = {}
  RegisterableTokens = {}
  MAX_TICKETS = 5
  MAX_RELAYERS = 3
  MaxVersion = 1
  MaxTime = 0
INVARIANTS
  LastTicketCanBeUsed
