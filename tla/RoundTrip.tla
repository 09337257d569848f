------------------------------ MODULE RoundTrip ------------------------------
(***************************************************************************)
(* The arithmetic of Amounts on every registrable token and every amount   *)
(* up to a bound: an owner registers a token, updates its precision and    *)
(* fee (UpdateCosmosToken), and ever larger amounts cross the bridge.      *)
(***************************************************************************)
EXTENDS Amounts, FiniteSetsExt

CONSTANTS
  BridgingFees,         \* fees the owner may set
  MaxAmount             \* bound: the largest amount sent

ASSUME RoundTripAssumption ==
  /\ XRPL_MAX_TRUNCATED_AMOUNT_LENGTH > 0
  /\ UINT128_MAX < 10 ^ UINT128_DIGITS
  /\ BridgingFees \subseteq Nat
  /\ MaxAmount \in 1 .. UINT128_MAX

VARIABLES token, amount

SendingPrecisions == MIN_SENDING_PRECISION .. MAX_COSMOS_TOKEN_DECIMALS

\* register_cosmos_token accepts the token's decimals and precision.
Registrable ==
  {t \in [decimals : 0 .. MAX_COSMOS_TOKEN_DECIMALS + 1,
          sending_precision : SendingPrecisions,
          bridging_fee : BridgingFees] :
     /\ validate_cosmos_token_decimals(t.decimals)
     /\ validate_sending_precision(t.sending_precision, t.decimals)}

Init == token \in Registrable /\ amount = 1

\* The optional fields of UpdateCosmosToken, each set or kept
Update ==
  /\ \E precision \in SendingPrecisions, fee \in BridgingFees :
       /\ validate_sending_precision(precision, token.decimals)
       /\ token' = [token EXCEPT !.sending_precision = precision, !.bridging_fee = fee]
  /\ UNCHANGED amount

SendMore ==
  /\ amount < MaxAmount
  /\ amount' = amount + 1
  /\ UNCHANGED token

Next == Update \/ SendMore

Spec == Init /\ [][Next]_<<token, amount>>

-----------------------------------------------------------------------------
TruncationUnit == Unit(token.sending_precision, token.decimals)

\* truncate_amount keeps the largest multiple of the unit that is not above the
\* amount, and fails exactly when that is zero: no rounding up at a boundary.
TruncatesToLargestMultiple ==
  LET kept == Max({m \in 0 .. amount : m % TruncationUnit = 0})
  IN TruncationUnit \in Uint128 =>
       /\ CanTruncate(token.sending_precision, token.decimals, amount) <=> kept > 0
       /\ kept > 0 =>
            truncate_amount(token.sending_precision, token.decimals, amount)
              = [sent |-> kept, remainder |-> amount - kept]

\* A Cosmos token that is sent and refused on the XRPL: the amount in XRPL
\* decimals converts back without loss, so that refund, fee and remainder are
\* together what the sender paid.  No precision above that of the XRPL may pass
\* for it, also when the token has more decimals than the XRPL.
RefundIsWhatWasLocked ==
  LET fee == token.bridging_fee
      sent == truncate_and_convert_amount(token.sending_precision, token.decimals,
                                          XRPL_TOKENS_DECIMALS, amount, fee)
      back == convert_amount_decimals(XRPL_TOKENS_DECIMALS, token.decimals, sent.sent)
  IN CanTruncateAndConvert(token.sending_precision, token.decimals, XRPL_TOKENS_DECIMALS,
                           amount, fee)
       => /\ CanConvert(XRPL_TOKENS_DECIMALS, token.decimals, sent.sent)
          /\ back + sent.remainder + fee = amount

\* A Cosmos token that is sent and refused: the rate limiter is told of all that it
\* counted, except for the fee rounded to units.  It is never told of more, which
\* would be taken from what other transfers count, and of all where there is no fee.
RefundReturnsQuota ==
  LET fee == token.bridging_fee
      sent == truncate_and_convert_amount(token.sending_precision, token.decimals,
                                          XRPL_TOKENS_DECIMALS, amount, fee)
      left == SendPacketAmount(token.sending_precision, token.decimals, amount)
                - UndoSendAmount(token.decimals, sent.sent)
  IN CanTruncateAndConvert(token.sending_precision, token.decimals, XRPL_TOKENS_DECIMALS,
                           amount, fee)
       => /\ left \in 0 .. fee + TruncationUnit - 1
          /\ fee = 0 => left = 0

\* An amount that comes back from the XRPL releases, fee and remainder included,
\* never more than it was worth there.
ReturnIsBacked ==
  LET fee == token.bridging_fee
      released == convert_and_truncate_amount(token.sending_precision, XRPL_TOKENS_DECIMALS,
                                              token.decimals, amount, fee)
      total == released.sent + released.remainder + fee
      unit == Unit(XRPL_TOKENS_DECIMALS, token.decimals)
  IN CanConvertAndTruncate(token.sending_precision, XRPL_TOKENS_DECIMALS, token.decimals,
                           amount, fee)
       => /\ released.remainder >= 0
          /\ IF token.decimals > XRPL_TOKENS_DECIMALS THEN total = amount * unit
                                                      ELSE total * unit <= amount

\* spec.md recommends a maximum holding amount of 1e(16 - sending precision): with
\* that limit every amount left by the truncation is one the XRPL can represent.
HoldingLimitGivesValidAmounts ==
  LET digits == XRPL_MAX_TRUNCATED_AMOUNT_LENGTH - token.sending_precision + token.decimals
      sent == truncate_amount(token.sending_precision, token.decimals, amount).sent
  IN CanTruncate(token.sending_precision, token.decimals, amount) /\ amount <= 10 ^ digits
       => validate_xrpl_amount(sent)

=============================================================================
