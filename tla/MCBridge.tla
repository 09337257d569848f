------------------------------ MODULE MCBridge -------------------------------
(***************************************************************************)
(* Instances of Bridge for TLC.  The XRPL has one decimal and Cosmos       *)
(* tokens up to two.  Amounts are chosen so that fees, truncation and      *)
(* the split between two relayers all leave remainders.                    *)
(***************************************************************************)
EXTENDS MCOperations, Bridge

CONSTANTS entry

MinPrecision == -1

TwoRelayers == {MCRelayer(r1, "x1"), MCRelayer(r2, "x2")}
RotateToR1 == {[new_relayers |-> {MCRelayer(r1, "x1")}, new_evidence_threshold |-> 1]}

Params(decimals, precision, fee, max) ==
  [decimals |-> decimals, sending_precision |-> precision, bridging_fee |-> fee,
   max_holding_amount |-> max]

\* The parameters of XRP after instantiate
XRPParams == Params(XRP_DECIMALS, XRP_DECIMALS, 0, 500)

Update(state, precision, fee, max) ==
  [state |-> state, sending_precision |-> precision, bridging_fee |-> fee,
   max_holding_amount |-> max]

Deposit(token, amount, deliver) ==
  [sender |-> o, token |-> token, amount |-> amount, deliver_amount |-> deliver,
   recipient |-> "x1"]

\* The amounts that operations of the instances may have
OperationAmounts == [amount : 0 .. 50, max_amount : 0 .. 50 \cup {None}]

SendsOf(tokens) ==
  [sender : {o}, token : tokens, amount : OperationAmounts, recipient : {"x1"}]

Balances(token, amount) ==
  [t \in BridgedTokens |-> [a \in BankAccount |-> IF t = token /\ a = o THEN amount ELSE 0]]

Claim(token, amount) == [t \in {token} |-> amount]

DepositOf(hash, token, amount, memo) ==
  [TransferOf(hash, token, amount, o) EXCEPT !.memo = memo]

-----------------------------------------------------------------------------
\* An XRPL token: registered, deposited on the XRPL, for a swap too, sent back
\* with and without a transfer rate, while the relayers are rotated.

USDOnly == {USD}
IssuedDeposits == {Deposit(USD, 27, None), Deposit(USD, 27, 10)}
IssuedParams == {Params(1, 0, 3, 100)}
IssuedSends == SendsOf({USD})
IssuedBank == Balances(USD, 0)
IssuedClaims == {Claim(USD, 6)}
IssuedUpdates == {Update(None, None, 0, 60)}
IssuedEvidences ==
  FirstAllocation("A", 3)
    \cup {DepositOf("X", USD, 57, ""), DepositOf("Y", USD, 35, "swap")}
    \cup {Result("B", None, 1, "Accepted", None)}
    \cup {Result("C", None, 2, r, None) : r \in {"Accepted", "Rejected"}}
    \cup {Result(None, None, 2, "Invalid", None)}

-----------------------------------------------------------------------------
\* A Cosmos token: registered, sent to the XRPL, back before and after its result
\* is known, refunded and sent again, while the relayers are rotated and the
\* owner mints coins and changes the token's fee and state.  Relayers spell the
\* hash of the way back in two ways.

OSMO == <<"bridge", "osmo">>
DepositSpelling == [h \in TxHash |-> IF h = "x" THEN "X" ELSE h]
CosmosDeposits == {Deposit(OSMO, 47, None)}
CosmosParams == {Params(2, 1, 3, 100), Params(3, 1, 3, 100), Params(2, 2, 3, 100)}
CosmosSends == SendsOf({OSMO})
CosmosBank == Balances(OSMO, 20)
CosmosClaims == {Claim(OSMO, 6)}
CosmosUpdates == {Update("Enabled", 0, 5, 50)}
CosmosMints == {[token |-> OSMO, address |-> o, amount |-> 40]}
CosmosEvidences ==
  FirstAllocation("A", 3)
    \cup {DepositOf(h, OSMO, 2, "swap") : h \in {"x", "X"}}
    \cup {Result("B", None, 1, r, None) : r \in {"Accepted", "Rejected"}}
    \cup {Result("C", None, 2, "Accepted", None)}
    \cup {Result(None, None, 2, "Invalid", None)}

=============================================================================
