------------------------------- MODULE Amounts -------------------------------
(***************************************************************************)
(* The arithmetic of the bridge: truncation to a token's sending precision,*)
(* conversion between the decimals of the two chains, bridging fees and    *)
(* their split between the relayers.  A function of the code that may      *)
(* return an error (or panic, as overflow checks are on) is a pair: a      *)
(* predicate Can... that says when it succeeds, and its value.             *)
(*                                                                         *)
(* The constants are the limits of contract.rs; TLC's instances scale the  *)
(* decimals and the width of Uint128 down together.                        *)
(***************************************************************************)
EXTENDS Integers

CONSTANTS
  XRP_DECIMALS,                     \* 6
  XRPL_TOKENS_DECIMALS,             \* 15
  MIN_SENDING_PRECISION,            \* -15
  MAX_SENDING_PRECISION,            \* 15
  MAX_COSMOS_TOKEN_DECIMALS,        \* 100
  XRPL_MAX_TRUNCATED_AMOUNT_LENGTH, \* 16
  UINT128_MAX, UINT128_DIGITS       \* 2^128 - 1, and 39, its number of digits

ASSUME LimitsAssumption ==
  /\ XRP_DECIMALS \in Nat /\ XRPL_TOKENS_DECIMALS \in Nat
  /\ XRP_DECIMALS <= XRPL_TOKENS_DECIMALS
  /\ MIN_SENDING_PRECISION \in Int /\ MAX_SENDING_PRECISION \in Int
  /\ MIN_SENDING_PRECISION <= 0
  /\ MAX_SENDING_PRECISION <= XRPL_TOKENS_DECIMALS
  /\ MAX_COSMOS_TOKEN_DECIMALS \in Nat
  /\ XRPL_MAX_TRUNCATED_AMOUNT_LENGTH \in Nat
  /\ UINT128_MAX \in Nat /\ UINT128_DIGITS \in Nat

\* The laws of powers, which the provers do not know, as far as they are needed
MaxExponent ==
  XRPL_MAX_TRUNCATED_AMOUNT_LENGTH + UINT128_DIGITS + XRPL_TOKENS_DECIMALS
    + MAX_COSMOS_TOKEN_DECIMALS - MIN_SENDING_PRECISION

ASSUME PowersOfTen ==
  \A m, n \in 0 .. MaxExponent :
    m + n <= MaxExponent => 10 ^ m \in Nat \ {0} /\ 10 ^ (m + n) = 10 ^ m * 10 ^ n

Uint128 == 0 .. UINT128_MAX

-----------------------------------------------------------------------------
\* Parameters of a token

validate_cosmos_token_decimals(decimals) == decimals <= MAX_COSMOS_TOKEN_DECIMALS

\* Mutant: the precision is only compared with the decimals of the token.
validate_sending_precision_NoMaximum(sending_precision, decimals) ==
  MIN_SENDING_PRECISION <= sending_precision /\ sending_precision <= decimals

validate_sending_precision(sending_precision, decimals) ==
  /\ sending_precision \in MIN_SENDING_PRECISION .. MAX_SENDING_PRECISION
  /\ sending_precision <= decimals

-----------------------------------------------------------------------------
\* Truncation.  unit is the smallest amount the precision lets through.

Unit(sending_precision, decimals) ==
  LET exponent == decimals - sending_precision
  IN 10 ^ (IF exponent < 0 THEN -exponent ELSE exponent)

RoundDown(amount, unit) == (amount \div unit) * unit

CanTruncate(sending_precision, decimals, amount) ==
  /\ Unit(sending_precision, decimals) \in Uint128
  /\ amount \div Unit(sending_precision, decimals) # 0

\* Mutant: the amount is rounded to the nearest unit.
truncate_amount_Rounds(sending_precision, decimals, amount) ==
  LET unit == Unit(sending_precision, decimals)
      sent == RoundDown(amount + unit \div 2, unit)
  IN [sent |-> sent, remainder |-> amount - sent]

truncate_amount(sending_precision, decimals, amount) ==
  LET sent == RoundDown(amount, Unit(sending_precision, decimals))
  IN [sent |-> sent, remainder |-> amount - sent]

-----------------------------------------------------------------------------
\* Conversion between decimals

CanConvert(from_decimals, to_decimals, amount) ==
  /\ Unit(from_decimals, to_decimals) \in Uint128
  /\ from_decimals < to_decimals => amount * Unit(from_decimals, to_decimals) \in Uint128

convert_amount_decimals(from_decimals, to_decimals, amount) ==
  IF from_decimals < to_decimals
  THEN amount * Unit(from_decimals, to_decimals)
  ELSE amount \div Unit(from_decimals, to_decimals)

\* amount_after_bridge_fees is amount - bridging_fee
CanCoverFees(amount, bridging_fee) == bridging_fee <= amount

\* From the XRPL to Cosmos: convert, subtract the fee, truncate.
CanConvertAndTruncate(sending_precision, from_decimals, to_decimals, amount, bridging_fee) ==
  LET converted == convert_amount_decimals(from_decimals, to_decimals, amount)
  IN /\ CanConvert(from_decimals, to_decimals, amount)
     /\ CanCoverFees(converted, bridging_fee)
     /\ CanTruncate(sending_precision, to_decimals, converted - bridging_fee)

convert_and_truncate_amount(sending_precision, from_decimals, to_decimals, amount, bridging_fee) ==
  truncate_amount(sending_precision, to_decimals,
                  convert_amount_decimals(from_decimals, to_decimals, amount) - bridging_fee)

\* From Cosmos to the XRPL: subtract the fee, truncate, convert.
CanTruncateAndConvert(sending_precision, from_decimals, to_decimals, amount, bridging_fee) ==
  /\ CanCoverFees(amount, bridging_fee)
  /\ CanTruncate(sending_precision, from_decimals, amount - bridging_fee)
  /\ CanConvert(from_decimals, to_decimals,
                truncate_amount(sending_precision, from_decimals, amount - bridging_fee).sent)

truncate_and_convert_amount(sending_precision, from_decimals, to_decimals, amount, bridging_fee) ==
  LET truncated == truncate_amount(sending_precision, from_decimals, amount - bridging_fee)
  IN [sent |-> convert_amount_decimals(from_decimals, to_decimals, truncated.sent),
      remainder |-> truncated.remainder]

\* Mutant: the zeroes are not trimmed.
validate_xrpl_amount_NoTrim(amount) == amount < 10 ^ XRPL_MAX_TRUNCATED_AMOUNT_LENGTH

\* At most XRPL_MAX_TRUNCATED_AMOUNT_LENGTH digits once trailing zeroes are trimmed
validate_xrpl_amount(amount) ==
  \E zeroes \in 0 .. UINT128_DIGITS :
    /\ amount % (10 ^ zeroes) = 0
    /\ amount \div (10 ^ zeroes) < 10 ^ XRPL_MAX_TRUNCATED_AMOUNT_LENGTH

-----------------------------------------------------------------------------
\* What the rate limiter is told of a transfer to the XRPL, and of its failure, in
\* the token's decimals on Cosmos

\* Mutant: in the decimals of the XRPL.
SendPacketAmount_XRPLDecimals(sending_precision, decimals, amount) ==
  convert_amount_decimals(decimals, XRPL_TOKENS_DECIMALS,
                          truncate_amount(sending_precision, decimals, amount).sent)

\* The fee is still in it.
SendPacketAmount(sending_precision, decimals, amount) ==
  truncate_amount(sending_precision, decimals, amount).sent

UndoSendAmount(decimals, max_amount) ==
  convert_amount_decimals(XRPL_TOKENS_DECIMALS, decimals, max_amount)

-----------------------------------------------------------------------------
\* The split of collected fees: each of `relayers' relayers gets a share, and the
\* rest is kept for the next collection.
amount_for_each_relayer(total_fee, relayers) == total_fee \div relayers

fee_remainder(total_fee, relayers) ==
  total_fee - amount_for_each_relayer(total_fee, relayers) * relayers

=============================================================================
