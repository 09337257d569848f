SPECIFICATION Spec
CONSTANTS
  o = o  r1 = r1  r2 = r2  r3 = r3  r4 = r4  contract = contract
  None = None
  Addr = {o, r1, r2, r3, r4}
  Owner = o
  ContractAddr = contract
  XRPLAddress = {"bridge", "zero", "iss", "x1", "x2", "x3", "x4"}
  BridgeXRPLAddress = "bridge"
  Currency = {"XRP", "USD"}
  CosmosDenom = {}
  XRP <- MCXRP
  Amount = {7}
  XRPLAmount = {7}
  TxHash = {"A", "b", "B", "C", "D"}
  UpperCase <- Spelling
  InitRelayers <- ThreeRelayers
  InitEvidenceThreshold = 2
  InitUsedTicketThreshold = 2
  InitBaseFee = 10
  InitProhibited = {"zero"}
  EvidenceInputs <- RotationEvidences
  SendInputs <- ToMultisig
  Rotations <- RotationInputs
  AccountSequences = {101}
  TicketNumbers = {3}
  BaseFees = {}
  UsedTicketThresholds = {}
  ProhibitedInputs = {{"zero"}, {"iss"}}
  Migrations = {}
  RegisterableTokens <- TokenInputs
  MAX_TICKETS = 5
  MAX_RELAYERS = 3
  MaxVersion = 0
  MaxTime = 1
INVARIANTS
  RotationHaltsBridge
  VotesOfRelayersInOffice
  RelayersCanReachThreshold
  TrustSetPerProcessingToken
  MultisigAddressNotUsed
PROPERTIES
  HaltedBridgeIsQuiet
