SPECIFICATION RelaySpec
CONSTANTS
  o = o  r1 = r1  r2 = r2  r3 = r3  r4 = r4  contract = contract
  None = None
  Addr = {o, r1, r2, r3}
  Owner = o
  ContractAddr = contract
  XRPLAddress = {"bridge", "zero", "x1", r1, r2, r3, "bad"}
  BridgeXRPLAddress = "bridge"
  Currency = {"XRP"}
  CosmosDenom = {}
  XRP <- MCXRP
  Amount = {7}
  XRPLAmount = {7}
  TxHash = {"A", "B", "C", "D", "E", "F", "G", "H"}
  UpperCase <- Identity
  InitRelayers <- SymmetricRelayers
  InitEvidenceThreshold = 2
  InitUsedTicketThreshold = 2
  InitBaseFee = 10
  InitProhibited = {"zero"}
  EvidenceInputs = {}
  SendInputs <- GoodOrRefusedSends
  Rotations = {}
  AccountSequences = {}
  TicketNumbers = {}
  BaseFees = {}
  UsedTicketThresholds = {}
  ProhibitedInputs = {}
  Migrations = {}
  RegisterableTokens = {}
  MAX_TICKETS = 5
  MAX_RELAYERS = 3
  MaxVersion = 2
  MaxTime = 0
  RefusedRecipients = {"bad"}
  XRPLHashes <- Hashes
  FirstSequence = 1
  RecoveredTickets = 3
  LoadFees = {}
  Cancels = "none"
  Halters = {}
  MaxSends = 2
  MaxRejections = 1
  MaxSequence = 8
INVARIANTS
  SignaturesAreForThisOperation
CHECK_DEADLOCK FALSE
