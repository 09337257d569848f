SPECIFICATION Spec
CONSTANTS
  XRP_DECIMALS = 1
  XRPL_TOKENS_DECIMALS = 1
  MIN_SENDING_PRECISION <- MinPrecision
  MAX_SENDING_PRECISION = 1
  MAX_COSMOS_TOKEN_DECIMALS = 3
  XRPL_MAX_TRUNCATED_AMOUNT_LENGTH = 1
  UINT128_MAX = 500
  UINT128_DIGITS = 3
  BridgingFees = {0, 3, 10}
  MaxAmount = 450
INVARIANTS
  TruncatesToLargestMultiple
  RefundIsWhatWasLocked
  RefundReturnsQuota
  ReturnIsBacked
  HoldingLimitGivesValidAmounts
