--------------------------- MODULE RoundTripProofs ---------------------------
(***************************************************************************)
(* The arithmetic of the bridge for every limit, every token that may be   *)
(* registered, every fee and every amount: truncation, conversion, refunds *)
(* and the split of fees neither create nor lose anything.                 *)
(***************************************************************************)
EXTENDS RoundTrip, AmountProofs

-----------------------------------------------------------------------------
\* Helpers

\* The largest element of a set of integers is its Max.
LEMMA MaxIs ==
  ASSUME NEW S \in SUBSET Int, NEW x \in S, \A y \in S : x >= y
  PROVE  Max(S) = x
<1> DEFINE m == Max(S)
<1>1. m \in S /\ \A y \in S : m >= y
  BY DEF Max
<1> HIDE DEF m
<1>2. m \in Int /\ x \in Int /\ m >= x /\ x >= m
  BY <1>1
<1>3. m = x
  BY <1>2
<1>. QED BY <1>3 DEF m

\* The decimals and the precision of a token that may be registered
LEMMA TokenExponents ==
  ASSUME NEW t \in Registrable
  PROVE  /\ t.decimals \in 0 .. MAX_COSMOS_TOKEN_DECIMALS
         /\ t.sending_precision \in Int
         /\ t.sending_precision <= XRPL_TOKENS_DECIMALS
         /\ t.bridging_fee \in Nat
         /\ t.decimals - t.sending_precision \in 0 .. MAX_COSMOS_TOKEN_DECIMALS - MIN_SENDING_PRECISION
         /\ XRPL_TOKENS_DECIMALS - t.sending_precision \in
              0 .. XRPL_TOKENS_DECIMALS - MIN_SENDING_PRECISION
<1>1. /\ t.decimals \in 0 .. MAX_COSMOS_TOKEN_DECIMALS + 1
      /\ t.sending_precision \in SendingPrecisions
      /\ t.bridging_fee \in BridgingFees
      /\ validate_cosmos_token_decimals(t.decimals)
      /\ validate_sending_precision(t.sending_precision, t.decimals)
  BY DEF Registrable
<1>2. /\ t.decimals \in Nat /\ t.decimals <= MAX_COSMOS_TOKEN_DECIMALS
      /\ t.sending_precision \in Int
      /\ MIN_SENDING_PRECISION <= t.sending_precision
      /\ t.sending_precision <= MAX_SENDING_PRECISION
      /\ t.sending_precision <= t.decimals
  BY <1>1, LimitsAssumption
     DEF SendingPrecisions, validate_cosmos_token_decimals, validate_sending_precision
<1>3. t.bridging_fee \in Nat
  BY <1>1, RoundTripAssumption
<1>. QED BY <1>2, <1>3, LimitsAssumption

-----------------------------------------------------------------------------
\* The invariant: the token is one that the contract accepts.

Legal == token \in Registrable /\ amount \in 1 .. MaxAmount

\* Registration and updates keep it.
LEMMA LegalCorrect == Spec => []Legal
<1>1. MaxAmount \in Nat /\ MaxAmount >= 1
  BY RoundTripAssumption, LimitsAssumption
<1>2. Init => Legal
  BY <1>1 DEF Init, Legal
<1>3. Legal /\ [Next]_<<token, amount>> => Legal'
  <2> SUFFICES ASSUME Legal, [Next]_<<token, amount>> PROVE Legal'
    OBVIOUS
  <2>1. CASE UNCHANGED <<token, amount>>
    BY <2>1 DEF Legal
  <2>2. CASE Update
    <3>1. PICK precision \in SendingPrecisions, fee \in BridgingFees :
            /\ validate_sending_precision(precision, token.decimals)
            /\ token' = [token EXCEPT !.sending_precision = precision, !.bridging_fee = fee]
      BY <2>2 DEF Update
    <3>2. /\ token'.decimals = token.decimals
          /\ token'.sending_precision = precision
          /\ token'.bridging_fee = fee
          /\ token' \in [decimals : 0 .. MAX_COSMOS_TOKEN_DECIMALS + 1,
                         sending_precision : SendingPrecisions, bridging_fee : BridgingFees]
      BY <3>1 DEF Legal, Registrable
    <3>3. token' \in Registrable
      BY <3>1, <3>2 DEF Legal, Registrable
    <3>. QED BY <2>2, <3>3 DEF Update, Legal
  <2>3. CASE SendMore
    BY <1>1, <2>3 DEF SendMore, Legal
  <2>. QED BY <2>1, <2>2, <2>3 DEF Next
<1>. QED BY <1>2, <1>3, PTL DEF Spec

\* Precision and decimals of the token, and the unit of its truncation
LEMMA LegalToken ==
  ASSUME Legal
  PROVE  /\ LegalPrecision(token.sending_precision, token.decimals)
         /\ token.decimals <= MAX_COSMOS_TOKEN_DECIMALS
         /\ token.bridging_fee \in Nat
         /\ amount \in Nat /\ amount <= UINT128_MAX
         /\ TruncationUnit = 10 ^ (token.decimals - token.sending_precision)
         /\ TruncationUnit \in Nat \ {0}
<1>1. LegalPrecision(token.sending_precision, token.decimals)
  BY TokenExponents, LimitsAssumption DEF Legal, LegalPrecision
<1>2. token.decimals <= MAX_COSMOS_TOKEN_DECIMALS /\ token.bridging_fee \in Nat
  BY TokenExponents, LimitsAssumption DEF Legal
<1>3. amount \in Nat /\ amount <= UINT128_MAX
  BY RoundTripAssumption, LimitsAssumption DEF Legal
<1>. QED BY <1>1, <1>2, <1>3, LegalUnit DEF TruncationUnit

-----------------------------------------------------------------------------
\* Truncation

\* Truncation keeps the largest multiple of the unit, for every amount.
THEOREM TruncationCorrect == Spec => []TruncatesToLargestMultiple
<1>1. Legal => TruncatesToLargestMultiple
  <2> DEFINE unit == TruncationUnit
             multiples == {m \in 0 .. amount : m % unit = 0}
             q == amount \div unit
  <2> SUFFICES ASSUME Legal, unit \in Uint128
               PROVE  /\ CanTruncate(token.sending_precision, token.decimals, amount)
                           <=> Max(multiples) > 0
                      /\ Max(multiples) > 0 =>
                           truncate_amount(token.sending_precision, token.decimals, amount)
                             = [sent |-> Max(multiples), remainder |-> amount - Max(multiples)]
    BY DEF TruncatesToLargestMultiple
  <2>1. unit \in Nat \ {0} /\ amount \in Nat
    BY LegalToken, RoundTripAssumption, LimitsAssumption DEF Legal
  <2>2. unit = Unit(token.sending_precision, token.decimals)
    BY DEF TruncationUnit
  <2> HIDE DEF unit
  <2>3. q \in Nat /\ RoundDown(amount, unit) = q * unit /\ RoundDown(amount, unit) \in 0 .. amount
    BY <2>1, Division, RoundDownRest DEF RoundDown
  <2>4. RoundDown(amount, unit) \in multiples
    BY <2>1, <2>3, ExactDivision
  <2>5. \A m \in multiples : RoundDown(amount, unit) >= m
    <3> SUFFICES ASSUME NEW m \in Nat, m <= amount, m % unit = 0
                 PROVE  RoundDown(amount, unit) >= m
      BY <2>1
    <3> DEFINE r == m \div unit
    <3>1. r \in Nat /\ m = r * unit
      <4>1. r \in Nat /\ m = r * unit + (m % unit)
        BY <2>1, Division
      <4> HIDE DEF r
      <4>2. m = r * unit + 0 /\ r * unit \in Nat
        BY <2>1, <4>1
      <4>. QED BY <4>1, <4>2
    <3> HIDE DEF r
    <3>2. r <= q
      <4>1. r * unit <= amount
        BY <3>1
      <4>. QED BY <2>1, <3>1, <4>1, QuotientBound
    <3> HIDE DEF q
    <3>. QED BY <2>1, <2>3, <3>1, <3>2
  <2>6. Max(multiples) = RoundDown(amount, unit)
    <3>1. multiples \subseteq Int
      BY <2>1
    <3> HIDE DEF multiples
    <3>. QED BY <2>4, <2>5, <3>1, MaxIs
  <2>7. RoundDown(amount, unit) > 0 <=> q # 0
    BY <2>1, <2>3
  <2> HIDE DEF multiples
  <2>. QED BY <2>2, <2>6, <2>7 DEF CanTruncate, truncate_amount
<1>. QED BY <1>1, LegalCorrect, PTL

-----------------------------------------------------------------------------
\* Conversion

\* A Cosmos token that is sent and refused comes back without loss: refund, fee and
\* remainder are together what the sender paid, for all decimals and precisions.
THEOREM RefundCorrect == Spec => []RefundIsWhatWasLocked
<1>1. Legal => RefundIsWhatWasLocked
  <2> DEFINE a == amount - token.bridging_fee
             t == truncate_amount(token.sending_precision, token.decimals, a)
  <2> SUFFICES ASSUME Legal,
                      CanTruncateAndConvert(token.sending_precision, token.decimals,
                        XRPL_TOKENS_DECIMALS, amount, token.bridging_fee)
               PROVE  t.sent + t.remainder + token.bridging_fee = amount
    BY LegalToken, ConversionBack DEF RefundIsWhatWasLocked
  <2>1. amount \in Nat /\ token.bridging_fee \in Nat
    BY TokenExponents, RoundTripAssumption, LimitsAssumption DEF Legal
  <2>2. a \in Nat
    BY LegalToken, ConversionBack
  <2>3. t.sent \in Nat /\ t.remainder \in Nat /\ t.sent + t.remainder = a
    BY <2>2, LegalToken, Truncated
  <2> HIDE DEF t
  <2>. QED BY <2>1, <2>3
<1>. QED BY <1>1, LegalCorrect, PTL

\* A transfer that is refused gives back to the rate limiter's quota what it used,
\* save the fee in units, and never more, for every token, fee and amount.
THEOREM QuotaCorrect == Spec => []RefundReturnsQuota
<1>1. Legal => RefundReturnsQuota
  <2> DEFINE fee == token.bridging_fee
             unit == TruncationUnit
             a == amount - fee
             all == RoundDown(amount, unit)
             net == RoundDown(a, unit)
  <2> SUFFICES ASSUME Legal,
                      CanTruncateAndConvert(token.sending_precision, token.decimals,
                        XRPL_TOKENS_DECIMALS, amount, fee)
               PROVE  all - net \in 0 .. fee + unit - 1 /\ (fee = 0 => all - net = 0)
    <3>1. truncate_amount(token.sending_precision, token.decimals, amount).sent = all
      BY DEF truncate_amount, TruncationUnit
    <3>2. truncate_amount(token.sending_precision, token.decimals, a).sent = net
      BY DEF truncate_amount, TruncationUnit
    <3> HIDE DEF all, net, unit
    <3>. QED BY <3>1, <3>2, LegalToken, ConversionBack
             DEF RefundReturnsQuota, SendPacketAmount, UndoSendAmount, unit
  <2>1. amount \in Nat /\ fee \in Nat
    BY TokenExponents, RoundTripAssumption, LimitsAssumption DEF Legal
  <2>2. a \in Nat /\ a <= amount
    BY <2>1, LegalToken, ConversionBack
  <2>3. unit \in Nat \ {0}
    BY LegalToken
  <2> HIDE DEF unit
  <2>4. all \in 0 .. amount /\ amount - all \in 0 .. unit - 1
    BY <2>1, <2>3, RoundDownRest
  <2>5. net \in 0 .. a /\ a - net \in 0 .. unit - 1
    BY <2>2, <2>3, RoundDownRest
  <2>6. net <= all
    BY <2>1, <2>2, <2>3, RoundDownMonotone
  <2>7. ASSUME fee = 0 PROVE net = all
    BY <2>1, <2>7
  <2> HIDE DEF all, net, fee
  <2>. QED BY <2>1, <2>2, <2>3, <2>4, <2>5, <2>6, <2>7
<1>. QED BY <1>1, LegalCorrect, PTL

\* What comes back from the XRPL releases no more than it was worth there, for
\* every token, fee and amount.
THEOREM ReturnCorrect == Spec => []ReturnIsBacked
<1>1. Legal => ReturnIsBacked
  <2> DEFINE fee == token.bridging_fee
             d == token.decimals
             x == XRPL_TOKENS_DECIMALS
             unit == Unit(x, d)
             c == convert_amount_decimals(x, d, amount)
             t == truncate_amount(token.sending_precision, d, c - fee)
             total == t.sent + t.remainder + fee
  <2> SUFFICES ASSUME Legal,
                      CanConvertAndTruncate(token.sending_precision, x, d, amount, fee)
               PROVE  /\ t.remainder >= 0
                      /\ IF d > x THEN total = amount * unit ELSE total * unit <= amount
    BY DEF ReturnIsBacked, convert_and_truncate_amount
  <2>1. amount \in Nat /\ fee \in Nat /\ d \in Nat /\ x \in Nat
    BY TokenExponents, RoundTripAssumption, LimitsAssumption DEF Legal
  <2>2. fee <= c
    BY DEF CanConvertAndTruncate, CanCoverFees
  <2>3. unit \in Nat \ {0}
    BY LegalToken, LegalConversion
  <2> HIDE DEF unit
  <2>4. ASSUME x < d PROVE c = amount * unit
    BY <2>4 DEF convert_amount_decimals, unit
  <2>5. ASSUME d <= x PROVE c = amount \div unit
    BY <2>1, <2>5 DEF convert_amount_decimals, unit
  <2>6. amount * unit \in Nat /\ amount \div unit \in Nat /\ (amount \div unit) * unit <= amount
    <3>1. amount \div unit \in Nat /\ amount = (amount \div unit) * unit + (amount % unit)
            /\ amount % unit \in 0 .. unit - 1
      BY <2>1, <2>3, Division
    <3>2. amount * unit \in Nat /\ (amount \div unit) * unit \in Nat
      BY <2>1, <2>3, <3>1
    <3>. QED BY <2>1, <2>3, <3>1, <3>2
  <2> HIDE DEF c
  <2>7. c \in Nat
    BY <2>1, <2>4, <2>5, <2>6
  <2>8. c - fee \in Nat
    BY <2>1, <2>2, <2>7
  <2>9. t.sent \in Nat /\ t.remainder \in Nat /\ t.sent + t.remainder = c - fee
    BY <2>8, LegalToken, Truncated
  <2> HIDE DEF t
  <2>10. total = c
    BY <2>1, <2>7, <2>9
  <2> HIDE DEF total, d, x
  <2>11. CASE x < d
    BY <2>1, <2>4, <2>9, <2>10, <2>11
  <2>12. CASE d <= x
    BY <2>1, <2>5, <2>6, <2>9, <2>10, <2>12
  <2>. QED BY <2>1, <2>11, <2>12
<1>. QED BY <1>1, LegalCorrect, PTL

-----------------------------------------------------------------------------
\* Amounts of the XRPL

\* A multiple of a power of ten has few digits if its quotient has.
LEMMA FewDigits ==
  ASSUME NEW q \in Nat, NEW n \in 0 .. UINT128_DIGITS,
         q < 10 ^ XRPL_MAX_TRUNCATED_AMOUNT_LENGTH
  PROVE  validate_xrpl_amount(q * 10 ^ n)
<1>1. n \in Nat /\ n <= XRPL_MAX_TRUNCATED_AMOUNT_LENGTH + UINT128_DIGITS
  BY LimitsAssumption
<1>2. 10 ^ n \in Nat \ {0}
  BY <1>1, InRange, PowerPositive
<1>3. (q * 10 ^ n) \div (10 ^ n) = q /\ (q * 10 ^ n) % (10 ^ n) = 0
  BY <1>2, ExactDivision
<1>. QED BY <1>3 DEF validate_xrpl_amount

\* A power that fits the width has fewer zeroes than the width has digits.
LEMMA FitsWidth ==
  ASSUME NEW n \in 0 .. MaxExponent, 10 ^ n \in Uint128
  PROVE  n < UINT128_DIGITS
<1>1. MaxExponent \in Int /\ UINT128_DIGITS \in Nat /\ UINT128_MAX \in Nat
      /\ UINT128_MAX < 10 ^ UINT128_DIGITS
  BY LimitsAssumption, RoundTripAssumption DEF MaxExponent
<1> SUFFICES ASSUME UINT128_DIGITS <= n PROVE FALSE
  BY <1>1
<1> DEFINE k == n - UINT128_DIGITS
<1>2. k \in 0 .. MaxExponent /\ UINT128_DIGITS \in 0 .. MaxExponent /\ UINT128_DIGITS + k = n
  BY <1>1
<1> HIDE DEF k
<1>3. 10 ^ n = 10 ^ UINT128_DIGITS * 10 ^ k
  BY <1>1, <1>2, PowersOfTen
<1>4. 10 ^ UINT128_DIGITS \in Nat \ {0} /\ 10 ^ k \in Nat \ {0} /\ 10 ^ n \in Nat
  BY <1>2, PowerPositive
<1> DEFINE w == 10 ^ UINT128_DIGITS
           z == 10 ^ k
<1>5. 10 ^ n = w * z /\ w \in Nat /\ z \in Nat /\ z >= 1
  BY <1>3, <1>4
<1> HIDE DEF w, z
<1>6. w * z >= w
  BY <1>5
<1>7. 10 ^ n <= UINT128_MAX /\ UINT128_MAX < w
  BY <1>1 DEF Uint128, w
<1>. QED BY <1>1, <1>4, <1>5, <1>6, <1>7

\* Under the maximum holding amount that spec.md recommends, what the truncation
\* leaves is an amount of the XRPL, for every token and amount.
THEOREM HoldingLimitCorrect == Spec => []HoldingLimitGivesValidAmounts
<1>1. Legal => HoldingLimitGivesValidAmounts
  <2> DEFINE length == XRPL_MAX_TRUNCATED_AMOUNT_LENGTH
             n == token.decimals - token.sending_precision
             digits == length - token.sending_precision + token.decimals
             unit == TruncationUnit
             q == amount \div unit
  <2> SUFFICES ASSUME Legal, CanTruncate(token.sending_precision, token.decimals, amount),
                      amount <= 10 ^ digits
               PROVE  validate_xrpl_amount(q * unit)
    BY DEF HoldingLimitGivesValidAmounts, truncate_amount, RoundDown, TruncationUnit
  <2>1. /\ n \in Nat /\ n <= MAX_COSMOS_TOKEN_DECIMALS - MIN_SENDING_PRECISION
        /\ digits = length + n /\ length \in Nat /\ length > 0 /\ amount \in Nat
    BY TokenExponents, RoundTripAssumption, LimitsAssumption DEF Legal
  <2>2. unit = 10 ^ n /\ unit \in Nat \ {0} /\ unit \in Uint128
    BY LegalToken DEF CanTruncate, TruncationUnit
  <2> HIDE DEF digits, unit, n
  <2>3. n \in 0 .. MaxExponent /\ length \in 0 .. MaxExponent /\ length + n <= MaxExponent
    <3>1. length + n <= XRPL_MAX_TRUNCATED_AMOUNT_LENGTH + MAX_COSMOS_TOKEN_DECIMALS
                          - MIN_SENDING_PRECISION
      BY <2>1, LimitsAssumption
    <3>2. length + n \in 0 .. MaxExponent
      BY <2>1, <3>1, InRange
    <3>3. MaxExponent \in Int
      BY LimitsAssumption DEF MaxExponent
    <3>. QED BY <2>1, <3>2, <3>3
  <2>4. n < UINT128_DIGITS
    BY <2>2, <2>3, FitsWidth
  <2>5. 10 ^ digits = 10 ^ length * unit /\ 10 ^ length \in Nat
    <3>1. 10 ^ (length + n) = 10 ^ length * 10 ^ n /\ 10 ^ length \in Nat
      BY <2>3, PowersOfTen
    <3>. QED BY <2>1, <2>2, <3>1
  <2>6. q \in Nat /\ q <= 10 ^ length
    <3>1. q \in Nat /\ q * unit <= amount
      <4>1. q \in Nat /\ amount = q * unit + (amount % unit) /\ amount % unit \in 0 .. unit - 1
        BY <2>1, <2>2, Division
      <4> HIDE DEF q
      <4>. QED BY <2>1, <2>2, <4>1
    <3> DEFINE m == 10 ^ length
    <3>2. m \in Nat /\ amount <= m * unit
      BY <2>5
    <3> HIDE DEF m, q
    <3>3. q * unit <= m * unit
      BY <2>1, <2>2, <3>1, <3>2
    <3>4. q <= m
      BY <2>2, <3>1, <3>2, <3>3
    <3>. QED BY <3>1, <3>4 DEF m
  <2> HIDE DEF q
  <2>7. CASE q < 10 ^ length
    <3>1. n \in 0 .. UINT128_DIGITS
      BY <2>1, <2>4, LimitsAssumption
    <3>. QED BY <2>2, <2>6, <2>7, <3>1, FewDigits
  <2>8. CASE q = 10 ^ length
    \* One more zero is trimmed from 10 ^ digits.
    <3> DEFINE l == length - 1
    <3>1. /\ l \in 0 .. MaxExponent /\ 1 \in 0 .. MaxExponent /\ l + 1 = length
          /\ n + 1 \in 0 .. MaxExponent /\ n + 1 \in 0 .. UINT128_DIGITS
      BY <2>1, <2>3, <2>4, LimitsAssumption DEF MaxExponent
    <3> HIDE DEF l
    <3>2. 10 ^ (l + 1) = 10 ^ l * 10 ^ 1 /\ 10 ^ (n + 1) = 10 ^ n * 10 ^ 1 /\ 10 ^ l \in Nat \ {0}
      <4>1. l + 1 <= MaxExponent /\ n + 1 <= MaxExponent
        BY <2>1, <2>3, <3>1, LimitsAssumption DEF MaxExponent
      <4>. QED BY <2>3, <3>1, <4>1, PowersOfTen
    <3>3. 10 ^ 1 = 10
      OBVIOUS
    <3> DEFINE y == 10 ^ l
    <3>4. y \in Nat \ {0} /\ 10 ^ length = y * 10 /\ 10 ^ (n + 1) = unit * 10
      BY <2>2, <3>1, <3>2, <3>3
    <3> HIDE DEF y
    <3>5. y < 10 ^ length
      BY <3>4
    <3>6. q * unit = y * (unit * 10)
      BY <2>2, <2>8, <3>4
    <3>7. q * unit = y * 10 ^ (n + 1)
      BY <3>4, <3>6
    <3>. QED BY <3>1, <3>4, <3>5, <3>7, FewDigits
  <2>. QED BY <2>6, <2>7, <2>8, <2>5
<1>. QED BY <1>1, LegalCorrect, PTL

=============================================================================
