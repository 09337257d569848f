----------------------------- MODULE FundsProofs -----------------------------
(***************************************************************************)
(* The coins of the bridge are counted: what every message does to the     *)
(* contract's balance, to its parts and to what either chain represents of *)
(* the other, for every set of accounts and tokens and for every amount.   *)
(***************************************************************************)
EXTENDS BridgeProofs

-----------------------------------------------------------------------------
\* The bank

BalancesType == [BridgedTokens -> [BankAccount -> Nat]]

\* All coins of a token
Total(balances, token) == SumFunctionOnSet(balances[token], BankAccount)

\* The accounts are finitely many, and the contract's is not a sender's.
LEMMA Accounts ==
  /\ IsFiniteSet(BankAccount) /\ ContractAddr \in BankAccount
  /\ \A a \in Addr : a \in BankAccount /\ a # ContractAddr
<1>1. IsFiniteSet(Addr \cup {ContractAddr})
  BY BankAssumption, FS_AddElement
<1>2. IsFiniteSet((Addr \cup {ContractAddr}) \cup {EntryPoint})
  BY <1>1, FS_AddElement
<1>3. (Addr \cup {ContractAddr}) \cup {EntryPoint} = BankAccount
  BY DEF BankAccount
<1>. QED BY <1>2, <1>3, IdentityAssumption DEF BankAccount

\* One balance of a token changes.
LEMMA BalanceChange ==
  ASSUME NEW balances \in BalancesType, NEW new \in BalancesType, NEW token \in BridgedTokens,
         NEW a \in BankAccount, \A b \in BankAccount \ {a} : new[token][b] = balances[token][b]
  PROVE  /\ Total(new, token) = Total(balances, token) - balances[token][a] + new[token][a]
         /\ Total(balances, token) \in Nat
         /\ balances[token][a] <= Total(balances, token)
<1> DEFINE f == balances[token]
           g == new[token]
<1>1. \A x \in BankAccount : f[x] \in Nat /\ g[x] \in Nat
  BY DEF BalancesType
<1>2. \A x \in BankAccount \ {a} : f[x] = g[x]
  OBVIOUS
<1>3. IsFiniteSet(BankAccount)
  BY Accounts
<1> HIDE DEF f, g
<1>4. SumFunctionOnSet(g, BankAccount) = SumFunctionOnSet(f, BankAccount) - f[a] + g[a]
  BY <1>1, <1>2, <1>3, SumChange
<1>5. SumFunctionOnSet(f, BankAccount) \in Nat /\ f[a] <= SumFunctionOnSet(f, BankAccount)
  BY <1>1, <1>3, SumNat, SumBounds
<1>. QED BY <1>4, <1>5 DEF Total, f, g

\* Coins are minted.
LEMMA MintEffect ==
  ASSUME NEW balances \in BalancesType, NEW token \in BridgedTokens, NEW to \in BankAccount,
         NEW amount \in Nat
  PROVE  LET new == Mint(balances, token, to, amount)
         IN /\ new \in BalancesType
            /\ new[token][to] = balances[token][to] + amount
            /\ \A b \in BankAccount \ {to} : new[token][b] = balances[token][b]
            /\ \A t \in BridgedTokens \ {token} : new[t] = balances[t]
            /\ Total(new, token) = Total(balances, token) + amount
            /\ Total(balances, token) \in Nat
<1> DEFINE new == Mint(balances, token, to, amount)
<1>1. balances[token][to] \in Nat
  BY DEF BalancesType
<1>2. /\ new \in BalancesType
      /\ new[token][to] = balances[token][to] + amount
      /\ \A b \in BankAccount \ {to} : new[token][b] = balances[token][b]
      /\ \A t \in BridgedTokens \ {token} : new[t] = balances[t]
  BY <1>1 DEF Mint, BalancesType
<1> HIDE DEF new
<1>3. /\ Total(new, token) = Total(balances, token) - balances[token][to] + new[token][to]
      /\ Total(balances, token) \in Nat
  BY <1>2, BalanceChange
<1>. QED BY <1>1, <1>2, <1>3 DEF new

Minted(old, new, token, to, amount) ==
  /\ new \in BalancesType
  /\ new[token][to] = old[token][to] + amount
  /\ \A b \in BankAccount \ {to} : new[token][b] = old[token][b]
  /\ \A t \in BridgedTokens \ {token} : new[t] = old[t]
  /\ Total(new, token) = Total(old, token) + amount

\* The same of balances by name
LEMMA MintIs ==
  ASSUME NEW old \in BalancesType, NEW token \in BridgedTokens, NEW to \in BankAccount,
         NEW amount \in Nat
  PROVE  Minted(old, Mint(old, token, to, amount), token, to, amount)
  BY MintEffect DEF Minted

\* Coins are burnt.
LEMMA BurnEffect ==
  ASSUME NEW balances \in BalancesType, NEW token \in BridgedTokens, NEW from \in BankAccount,
         NEW amount \in Nat, amount <= balances[token][from]
  PROVE  LET new == Burn(balances, token, from, amount)
         IN /\ new \in BalancesType
            /\ new[token][from] = balances[token][from] - amount
            /\ \A b \in BankAccount \ {from} : new[token][b] = balances[token][b]
            /\ \A t \in BridgedTokens \ {token} : new[t] = balances[t]
            /\ Total(new, token) = Total(balances, token) - amount
            /\ Total(balances, token) \in Nat
<1> DEFINE new == Burn(balances, token, from, amount)
<1>1. balances[token][from] \in Nat
  BY DEF BalancesType
<1>2. /\ new \in BalancesType
      /\ new[token][from] = balances[token][from] - amount
      /\ \A b \in BankAccount \ {from} : new[token][b] = balances[token][b]
      /\ \A t \in BridgedTokens \ {token} : new[t] = balances[t]
  BY <1>1 DEF Burn, BalancesType
<1> HIDE DEF new
<1>3. /\ Total(new, token) = Total(balances, token) - balances[token][from] + new[token][from]
      /\ Total(balances, token) \in Nat
  BY <1>2, BalanceChange
<1>. QED BY <1>1, <1>2, <1>3 DEF new

\* Coins are paid to another account.
LEMMA PayEffect ==
  ASSUME NEW balances \in BalancesType, NEW token \in BridgedTokens, NEW from \in BankAccount,
         NEW to \in BankAccount, from # to, NEW amount \in Nat, amount <= balances[token][from]
  PROVE  LET new == Pay(balances, token, from, to, amount)
         IN /\ new \in BalancesType
            /\ new[token][from] = balances[token][from] - amount
            /\ new[token][to] = balances[token][to] + amount
            /\ \A t \in BridgedTokens \ {token} : new[t] = balances[t]
            /\ Total(new, token) = Total(balances, token)
<1> DEFINE mid == Burn(balances, token, from, amount)
           new == Pay(balances, token, from, to, amount)
<1>1. new = Mint(mid, token, to, amount)
  BY DEF Pay
<1>2. /\ mid \in BalancesType
      /\ mid[token][from] = balances[token][from] - amount
      /\ mid[token][to] = balances[token][to]
      /\ \A t \in BridgedTokens \ {token} : mid[t] = balances[t]
      /\ Total(mid, token) = Total(balances, token) - amount
      /\ Total(balances, token) \in Nat
  BY BurnEffect
<1> HIDE DEF mid, new
<1>3. /\ new \in BalancesType
      /\ new[token][to] = mid[token][to] + amount
      /\ \A b \in BankAccount \ {to} : new[token][b] = mid[token][b]
      /\ \A t \in BridgedTokens \ {token} : new[t] = mid[t]
      /\ Total(new, token) = Total(mid, token) + amount
  <2>1. mid \in BalancesType
    BY <1>2
  <2>2. Minted(mid, new, token, to, amount)
    BY <1>1, <2>1, MintIs
  <2>. QED BY <2>2 DEF Minted
<1>. QED BY <1>2, <1>3 DEF new

-----------------------------------------------------------------------------
\* Fees

FeesType ==
  /\ DOMAIN feesCollected \subseteq Addr
  /\ feesCollected \in [DOMAIN feesCollected -> [BridgedTokens -> Nat]]
  /\ feeRemainders \in [BridgedTokens -> Nat]

\* What the relayers and former relayers may claim of a token
Earned(fees, t) == [a \in DOMAIN fees |-> fees[a][t]]

\* The relayers in office are as many as their addresses.
LEMMA RelayerCount ==
  ASSUME TypeOK, SoundState
  PROVE  /\ relayerAddresses \subseteq Addr
         /\ Cardinality(relayerAddresses) = Cardinality(config.relayers)
         /\ Cardinality(config.relayers) \in Nat \ {0}
<1> DEFINE S == config.relayers
           f == [r \in S |-> r.cosmos_address]
<1>1. S \subseteq Relayer
  BY DEF TypeOK
<1>2. relayerAddresses \subseteq Addr
  BY <1>1 DEF relayerAddresses, Relayer
<1>3. IsFiniteSet(relayerAddresses)
  BY <1>2, BankAssumption, FS_Subset
<1>4. f \in Injection(S, relayerAddresses)
  BY DEF Injection, IsInjective, SoundState, Sound, relayerAddresses
<1>5. f \in Surjection(S, relayerAddresses)
  BY DEF Surjection, relayerAddresses
<1> HIDE DEF f
<1>6. IsFiniteSet(S) /\ Cardinality(S) = Cardinality(relayerAddresses)
  BY <1>3, <1>4, <1>5, FS_Injection
<1>7. Cardinality(S) \in Nat
  BY <1>6, FS_CardinalityType
<1>. QED BY <1>2, <1>6, <1>7 DEF SoundState, Sound

\* The fees of a token add up.
LEMMA FeesAddUp ==
  ASSUME NEW fees, DOMAIN fees \subseteq Addr, fees \in [DOMAIN fees -> [BridgedTokens -> Nat]],
         NEW t \in BridgedTokens
  PROVE  AddsUp(Earned(fees, t))
<1>1. IsFiniteSet(DOMAIN fees)
  BY BankAssumption, FS_Subset
<1>. QED BY <1>1 DEF AddsUp, Earned

\* The fees owed are the remainder and what the relayers earned.
LEMMA FeesOwedIs ==
  ASSUME NEW t
  PROVE  FeesOwed(t) = feeRemainders[t] + SumFunction(Earned(feesCollected, t))
  BY DEF FeesOwed, Earned

\* A collection adds the fee and the remainder to what is owed, to the last coin and
\* whatever the number of relayers.
LEMMA CollectEffect ==
  ASSUME TypeOK, SoundState, FeesType, NEW token \in BridgedTokens, NEW remainder \in Nat,
         params[token].bridging_fee \in Nat, handle_fee_collection(token, remainder)
  PROVE  /\ FeesType'
         /\ FeesOwed(token)' = FeesOwed(token) + params[token].bridging_fee + remainder
         /\ \A t \in BridgedTokens \ {token} : FeesOwed(t)' = FeesOwed(t)
<1> DEFINE fee == params[token].bridging_fee + remainder
           total == fee + feeRemainders[token]
           n == Cardinality(config.relayers)
           R == relayerAddresses
           share == amount_for_each_relayer(total, n)
           rest == fee_remainder(total, n)
           D == DOMAIN feesCollected
           base == [a \in D \cup R |-> FeesOf(a)]
<1>1. fee \in Nat /\ feeRemainders[token] \in Nat /\ total \in Nat
  BY DEF FeesType
<1>2. R \subseteq Addr /\ Cardinality(R) = n /\ n \in Nat \ {0}
  BY RelayerCount
<1>3. share \in Nat /\ rest \in Nat /\ share * n + rest = total
  <2> HIDE DEF total, n
  <2>. QED BY <1>1, <1>2, FeeSplit
<1>4. /\ \A a \in D : FeesOf(a) = feesCollected[a] /\ feesCollected[a] \in [BridgedTokens -> Nat]
      /\ \A a \in (D \cup R) \ D : FeesOf(a) = [t \in BridgedTokens |-> 0]
  BY DEF FeesOf, NoCoins, FeesType
<1>5. base \in [D \cup R -> [BridgedTokens -> Nat]] /\ D \cup R \subseteq Addr
  BY <1>2, <1>4 DEF FeesType
<1>6. ASSUME NEW t \in BridgedTokens
      PROVE  /\ AddsUp(Earned(base, t))
             /\ SumFunction(Earned(base, t)) = SumFunction(Earned(feesCollected, t))
  <2> DEFINE f == Earned(base, t)
             g == Earned(feesCollected, t)
  <2>1. AddsUp(f)
    BY <1>5, FeesAddUp
  <2>2. /\ DOMAIN g = D /\ DOMAIN f = D \cup R
        /\ \A x \in D : g[x] = f[x]
        /\ \A x \in (D \cup R) \ D : f[x] = 0
    BY <1>4 DEF Earned
  <2> HIDE DEF f, g
  <2>3. SumFunction(g) = SumFunction(f)
    BY <2>1, <2>2, TotalPart
  <2>. QED BY <2>1, <2>3 DEF f, g
<1>7. CASE fee = 0
  <2>1. UNCHANGED feeVars
    BY <1>7 DEF handle_fee_collection
  <2>2. feesCollected' = feesCollected /\ feeRemainders' = feeRemainders
    BY <2>1 DEF feeVars
  <2>3. \A t \in BridgedTokens : FeesOwed(t)' = FeesOwed(t)
    BY <2>2 DEF FeesOwed
  <2>4. FeesOwed(token) \in Nat
    <3>1. SumFunction(Earned(feesCollected, token)) \in Nat
      BY FeesAddUp, TotalNat DEF FeesType
    <3>. QED BY <1>1, <3>1, FeesOwedIs
  <2>5. params[token].bridging_fee = 0 /\ remainder = 0
    BY <1>7
  <2>. QED BY <2>2, <2>3, <2>4, <2>5 DEF FeesType
<1>8. CASE fee # 0
  <2>1. /\ feesCollected' =
              IF share = 0 THEN feesCollected
              ELSE [a \in D \cup R |->
                      IF a \in R THEN [FeesOf(a) EXCEPT ![token] = @ + share]
                      ELSE feesCollected[a]]
        /\ feeRemainders' = [feeRemainders EXCEPT ![token] = rest]
    BY <1>8 DEF handle_fee_collection
  <2> HIDE DEF fee, total, n, share, rest
  <2>2. feeRemainders' \in [BridgedTokens -> Nat] /\ feeRemainders'[token] = rest
        /\ \A t \in BridgedTokens \ {token} : feeRemainders'[t] = feeRemainders[t]
    BY <1>3, <2>1 DEF FeesType
  <2>3. /\ DOMAIN feesCollected' \subseteq Addr
        /\ feesCollected' \in [DOMAIN feesCollected' -> [BridgedTokens -> Nat]]
        /\ SumFunction(Earned(feesCollected', token))
             = SumFunction(Earned(feesCollected, token)) + share * n
        /\ \A t \in BridgedTokens \ {token} :
             SumFunction(Earned(feesCollected', t)) = SumFunction(Earned(feesCollected, t))
    <3>1. SumFunction(Earned(feesCollected, token)) \in Nat
      BY FeesAddUp, TotalNat DEF FeesType
    <3>2. CASE share = 0
      <4>1. share * n = 0
        BY <1>2, <3>2
      <4>. QED BY <2>1, <3>1, <3>2, <4>1 DEF FeesType
    <3>3. CASE share # 0
      <4>1. feesCollected' = [a \in D \cup R |->
                                IF a \in R THEN [base[a] EXCEPT ![token] = @ + share]
                                ELSE base[a]]
        BY <1>4, <2>1, <3>3
      <4>2. \A a \in D \cup R : base[a] \in [BridgedTokens -> Nat]
        BY <1>5
      <4> HIDE DEF base
      <4>3. /\ DOMAIN feesCollected' = D \cup R
            /\ \A a \in D \cup R : feesCollected'[a] \in [BridgedTokens -> Nat]
        BY <1>3, <4>1, <4>2
      <4>4. feesCollected' \in [D \cup R -> [BridgedTokens -> Nat]]
        BY <1>3, <4>1, <4>2
      <4>5. ASSUME NEW t \in BridgedTokens
            PROVE  \A a \in D \cup R :
                     feesCollected'[a][t] = IF a \in R /\ t = token THEN base[a][t] + share
                                            ELSE base[a][t]
        BY <4>1, <4>2
      <4> DEFINE f == Earned(base, token)
                 g == Earned(feesCollected', token)
      <4>6. /\ DOMAIN g = DOMAIN f /\ R \subseteq DOMAIN f
            /\ \A x \in DOMAIN f : g[x] = IF x \in R THEN f[x] + share ELSE f[x]
        BY <4>3, <4>5 DEF Earned, base
      <4>7. AddsUp(f) /\ SumFunction(f) = SumFunction(Earned(feesCollected, token))
        BY <1>6
      <4> HIDE DEF f, g
      <4>8. SumFunction(g) = SumFunction(f) + share * Cardinality(R)
        BY <1>3, <4>6, <4>7, TotalShares
      <4>9. ASSUME NEW t \in BridgedTokens \ {token}
            PROVE  Earned(feesCollected', t) = Earned(base, t)
        BY <4>3, <4>5 DEF Earned, base
      <4>. QED BY <1>2, <1>5, <1>6, <4>3, <4>4, <4>7, <4>8, <4>9 DEF g
    <3>. QED BY <3>2, <3>3
  <2>4. FeesType'
    BY <2>2, <2>3 DEF FeesType
  <2>5. \A t \in BridgedTokens \ {token} : FeesOwed(t)' = FeesOwed(t)
    BY <2>2, <2>3 DEF FeesOwed, Earned
  <2> DEFINE sum == SumFunction(Earned(feesCollected, token))
             more == share * n
  <2>6. sum \in Nat /\ more \in Nat
    BY <1>2, <1>3, FeesAddUp, TotalNat DEF FeesType
  <2>7. FeesOwed(token) = feeRemainders[token] + sum
    BY FeesOwedIs
  <2>8. FeesOwed(token)' = rest + (sum + more)
    BY <2>2, <2>3 DEF FeesOwed, Earned
  <2>9. more + rest = fee + feeRemainders[token]
    BY <1>3 DEF total
  <2> HIDE DEF sum, more
  <2>10. FeesOwed(token)' = FeesOwed(token) + fee
    BY <1>1, <1>3, <2>6, <2>7, <2>8, <2>9
  <2>11. FeesOwed(token) + fee = FeesOwed(token) + params[token].bridging_fee + remainder
    BY <1>1, <2>6, <2>7 DEF fee
  <2>. QED BY <2>4, <2>5, <2>10, <2>11
<1>. QED BY <1>7, <1>8

-----------------------------------------------------------------------------
\* Coins in transit

TransitCoins(t) ==
  [key \in TransfersInTransit(t) |->
     RefundCoin(t, pendingOperations[key].operation_type.amount)]

\* The coins of every transfer in transit are a number, and add up.
LEMMA TransitFacts ==
  ASSUME BridgeInv, NEW t
  PROVE  /\ AddsUp(TransitCoins(t)) /\ InTransit(t) = SumFunction(TransitCoins(t))
         /\ InTransit(t) \in Nat
         /\ DOMAIN TransitCoins(t) = TransfersInTransit(t)
         /\ TransfersInTransit(t) =
              {key \in Transfers : /\ pendingOperations[key].operation_type.token = t
                                   /\ IsIssued(t) \/ key \notin executed}
         /\ \A key \in TransfersInTransit(t) :
              /\ t \in DOMAIN params
              /\ TransitCoins(t)[key] =
                   CoinOf(params[t].decimals, t, pendingOperations[key].operation_type.amount)
<1>1. TransfersInTransit(t) =
        {key \in Transfers : /\ pendingOperations[key].operation_type.token = t
                             /\ IsIssued(t) \/ key \notin executed}
  BY DEF TransfersInTransit, Transfers, PendingOfType, IsTransfer
<1>2. IsFiniteSet(TransfersInTransit(t))
  BY <1>1, FS_Subset DEF BridgeInv, TransfersOK
<1>3. DOMAIN TransitCoins(t) = TransfersInTransit(t)
  BY DEF TransitCoins
<1>4. ASSUME NEW key \in TransfersInTransit(t)
      PROVE  /\ t \in DOMAIN params
             /\ TransitCoins(t)[key] =
                  CoinOf(params[t].decimals, t, pendingOperations[key].operation_type.amount)
             /\ TransitCoins(t)[key] \in Nat
  <2>1. Payable(params, t, pendingOperations[key].operation_type.amount)
    BY <1>1, <1>4 DEF BridgeInv, TransfersOK
  <2>2. TransitCoins(t)[key] =
          CoinOf(params[t].decimals, t, pendingOperations[key].operation_type.amount)
    BY DEF TransitCoins, CoinOf, RefundCoin
  <2>. QED BY <2>1, <2>2 DEF Payable
<1>5. AddsUp(TransitCoins(t))
  BY <1>2, <1>3, <1>4 DEF AddsUp
<1>6. InTransit(t) = SumFunction(TransitCoins(t))
  BY DEF InTransit, TransitCoins
<1>. QED BY <1>1, <1>3, <1>4, <1>5, <1>6, TotalNat

\* The transfers in transit after a step
LEMMA TransitNext ==
  ASSUME NEW t
  PROVE  /\ InTransit(t)' = SumFunction(TransitCoins(t)')
         /\ DOMAIN TransitCoins(t)' = TransfersInTransit(t)'
         /\ TransfersInTransit(t)' =
              {key \in Transfers' : /\ pendingOperations'[key].operation_type.token = t
                                    /\ IsIssued(t) \/ key \notin executed'}
         /\ \A key \in TransfersInTransit(t)' :
              TransitCoins(t)'[key] =
                CoinOf(params'[t].decimals, t, pendingOperations'[key].operation_type.amount)
<1>1. TransfersInTransit(t)' =
        {key \in Transfers' : /\ pendingOperations'[key].operation_type.token = t
                              /\ IsIssued(t) \/ key \notin executed'}
  BY DEF TransfersInTransit, Transfers, PendingOfType, IsTransfer
<1>. QED BY <1>1 DEF InTransit, TransitCoins, CoinOf, RefundCoin

\* Nothing of a token enters or leaves transit.
LEMMA TransitKept ==
  ASSUME BridgeInv, SameDecimals(params, params'), NEW t,
         TransfersInTransit(t)' = TransfersInTransit(t),
         \A key \in TransfersInTransit(t) :
           pendingOperations'[key].operation_type = pendingOperations[key].operation_type
  PROVE  InTransit(t)' = InTransit(t)
<1> DEFINE f == TransitCoins(t)
           g == TransitCoins(t)'
<1>1. DOMAIN g = DOMAIN f /\ \A key \in DOMAIN f : g[key] = f[key]
  BY TransitFacts, TransitNext DEF SameDecimals
<1>2. AddsUp(f) /\ InTransit(t) = SumFunction(f) /\ InTransit(t)' = SumFunction(g)
  BY TransitFacts, TransitNext
<1> HIDE DEF f, g
<1>. QED BY <1>1, <1>2, TotalEqual

\* A transfer enters transit.
LEMMA TransitAdded ==
  ASSUME BridgeInv, SameDecimals(params, params'), NEW t, NEW key,
         key \notin TransfersInTransit(t),
         TransfersInTransit(t)' = TransfersInTransit(t) \cup {key},
         \A i \in TransfersInTransit(t) :
           pendingOperations'[i].operation_type = pendingOperations[i].operation_type,
         NEW coin \in Nat,
         coin = CoinOf(params'[t].decimals, t, pendingOperations'[key].operation_type.amount)
  PROVE  InTransit(t)' = InTransit(t) + coin
<1> DEFINE f == TransitCoins(t)
           g == TransitCoins(t)'
<1>1. /\ key \notin DOMAIN f /\ DOMAIN g = DOMAIN f \cup {key} /\ g[key] = coin
      /\ \A i \in DOMAIN f : g[i] = f[i]
  <2>1. key \notin DOMAIN f /\ DOMAIN g = DOMAIN f \cup {key} /\ g[key] = coin
    BY TransitFacts, TransitNext
  <2>2. ASSUME NEW i \in DOMAIN f PROVE g[i] = f[i]
    <3>1. i \in TransfersInTransit(t) /\ i \in TransfersInTransit(t)'
      BY TransitFacts
    <3>2. f[i] = CoinOf(params[t].decimals, t, pendingOperations[i].operation_type.amount)
          /\ t \in DOMAIN params
      BY <3>1, TransitFacts
    <3>3. g[i] = CoinOf(params'[t].decimals, t, pendingOperations'[i].operation_type.amount)
      BY <3>1, TransitNext
    <3>. QED BY <3>1, <3>2, <3>3 DEF SameDecimals
  <2>. QED BY <2>1, <2>2
<1>2. AddsUp(f) /\ InTransit(t) = SumFunction(f) /\ InTransit(t)' = SumFunction(g)
  BY TransitFacts, TransitNext
<1> HIDE DEF f, g
<1>. QED BY <1>1, <1>2, TotalAdd

\* A transfer leaves transit.
LEMMA TransitRemoved ==
  ASSUME BridgeInv, SameDecimals(params, params'), NEW t, NEW key,
         key \in TransfersInTransit(t),
         TransfersInTransit(t)' = TransfersInTransit(t) \ {key},
         \A i \in TransfersInTransit(t) \ {key} :
           pendingOperations'[i].operation_type = pendingOperations[i].operation_type
  PROVE  InTransit(t) = InTransit(t)'
           + CoinOf(params[t].decimals, t, pendingOperations[key].operation_type.amount)
<1> DEFINE f == TransitCoins(t)
           g == TransitCoins(t)'
<1>1. /\ key \in DOMAIN f /\ DOMAIN g = DOMAIN f \ {key}
      /\ f[key] = CoinOf(params[t].decimals, t, pendingOperations[key].operation_type.amount)
      /\ \A i \in DOMAIN g : g[i] = f[i]
  <2>1. /\ key \in DOMAIN f /\ DOMAIN g = DOMAIN f \ {key}
        /\ f[key] = CoinOf(params[t].decimals, t, pendingOperations[key].operation_type.amount)
    BY TransitFacts, TransitNext
  <2>2. ASSUME NEW i \in DOMAIN g PROVE g[i] = f[i]
    <3>1. i \in TransfersInTransit(t) \ {key} /\ i \in TransfersInTransit(t)'
      BY TransitNext
    <3>2. f[i] = CoinOf(params[t].decimals, t, pendingOperations[i].operation_type.amount)
          /\ t \in DOMAIN params
      BY <3>1, TransitFacts
    <3>3. g[i] = CoinOf(params'[t].decimals, t, pendingOperations'[i].operation_type.amount)
      BY <3>1, TransitNext
    <3>. QED BY <3>1, <3>2, <3>3 DEF SameDecimals
  <2>. QED BY <2>1, <2>2
<1>2. AddsUp(f) /\ InTransit(t) = SumFunction(f) /\ InTransit(t)' = SumFunction(g)
  BY TransitFacts, TransitNext
<1> HIDE DEF f, g
<1>. QED BY <1>1, <1>2, TotalRemove

-----------------------------------------------------------------------------
\* Coins of transfers that the XRPL executed and no result confirmed

SpentCoins(t) ==
  [key \in Unconfirmed(t) |-> AmountSent(pendingOperations[key].operation_type.amount)]

\* What an executed transfer took is a number, and they add up.
LEMMA SpendingFacts ==
  ASSUME BridgeInv, NEW t
  PROVE  /\ AddsUp(SpentCoins(t)) /\ UnconfirmedSpending(t) = SumFunction(SpentCoins(t))
         /\ UnconfirmedSpending(t) \in Nat
         /\ DOMAIN SpentCoins(t) = Unconfirmed(t)
<1>1. IsFiniteSet(Unconfirmed(t)) /\ Unconfirmed(t) \subseteq Transfers
  BY FS_Subset DEF BridgeInv, TransfersOK, Unconfirmed
<1>2. DOMAIN SpentCoins(t) = Unconfirmed(t)
  BY DEF SpentCoins
<1>3. ASSUME NEW key \in Unconfirmed(t) PROVE SpentCoins(t)[key] \in Nat
  <2>1. pendingOperations[key].operation_type.amount \in Amount
    BY <1>1, <1>3 DEF BridgeInv, TransfersOK, Payable
  <2>2. AmountSent(pendingOperations[key].operation_type.amount) \in Nat
    BY <2>1, AmountTyped
  <2>. QED BY <2>2 DEF SpentCoins
<1>4. AddsUp(SpentCoins(t))
  BY <1>1, <1>2, <1>3 DEF AddsUp
<1>5. UnconfirmedSpending(t) = SumFunction(SpentCoins(t))
  BY DEF UnconfirmedSpending, SpentCoins
<1>. QED BY <1>2, <1>4, <1>5, TotalNat

\* The executed transfers of a token stay the same.
LEMMA SpendingKept ==
  ASSUME BridgeInv, NEW t, Unconfirmed(t)' = Unconfirmed(t),
         \A key \in Unconfirmed(t) :
           pendingOperations'[key].operation_type = pendingOperations[key].operation_type
  PROVE  UnconfirmedSpending(t)' = UnconfirmedSpending(t)
<1> DEFINE f == SpentCoins(t)
           g == SpentCoins(t)'
<1>1. DOMAIN g = DOMAIN f /\ \A key \in DOMAIN f : g[key] = f[key]
  BY DEF SpentCoins, AmountSent
<1>2. AddsUp(f) /\ UnconfirmedSpending(t) = SumFunction(f)
  BY SpendingFacts
<1>3. UnconfirmedSpending(t)' = SumFunction(g)
  BY DEF UnconfirmedSpending, SpentCoins
<1> HIDE DEF f, g
<1>. QED BY <1>1, <1>2, <1>3, TotalEqual

\* The XRPL executes a transfer.
LEMMA SpendingAdded ==
  ASSUME BridgeInv, NEW t, NEW key, key \notin Unconfirmed(t),
         Unconfirmed(t)' = Unconfirmed(t) \cup {key},
         \A i \in Unconfirmed(t) :
           pendingOperations'[i].operation_type = pendingOperations[i].operation_type,
         NEW sent \in Nat, sent = AmountSent(pendingOperations'[key].operation_type.amount)
  PROVE  UnconfirmedSpending(t)' = UnconfirmedSpending(t) + sent
<1> DEFINE f == SpentCoins(t)
           g == SpentCoins(t)'
<1>1. /\ key \notin DOMAIN f /\ DOMAIN g = DOMAIN f \cup {key} /\ g[key] = sent
      /\ \A i \in DOMAIN f : g[i] = f[i]
  BY DEF SpentCoins, AmountSent
<1>2. AddsUp(f) /\ UnconfirmedSpending(t) = SumFunction(f)
  BY SpendingFacts
<1>3. UnconfirmedSpending(t)' = SumFunction(g)
  BY DEF UnconfirmedSpending, SpentCoins
<1> HIDE DEF f, g
<1>. QED BY <1>1, <1>2, <1>3, TotalAdd

\* The result of an executed transfer is confirmed.
LEMMA SpendingRemoved ==
  ASSUME BridgeInv, NEW t, NEW key, key \in Unconfirmed(t),
         Unconfirmed(t)' = Unconfirmed(t) \ {key},
         \A i \in Unconfirmed(t) \ {key} :
           pendingOperations'[i].operation_type = pendingOperations[i].operation_type
  PROVE  UnconfirmedSpending(t) = UnconfirmedSpending(t)'
           + AmountSent(pendingOperations[key].operation_type.amount)
<1> DEFINE f == SpentCoins(t)
           g == SpentCoins(t)'
<1>1. /\ key \in DOMAIN f /\ DOMAIN g = DOMAIN f \ {key}
      /\ f[key] = AmountSent(pendingOperations[key].operation_type.amount)
      /\ \A i \in DOMAIN g : g[i] = f[i]
  BY DEF SpentCoins, AmountSent
<1>2. AddsUp(f) /\ UnconfirmedSpending(t) = SumFunction(f)
  BY SpendingFacts
<1>3. UnconfirmedSpending(t)' = SumFunction(g)
  BY DEF UnconfirmedSpending, SpentCoins
<1> HIDE DEF f, g
<1>. QED BY <1>1, <1>2, <1>3, TotalRemove

-----------------------------------------------------------------------------
\* Coins of refunds

OwedCoins(t) == [k \in RefundsOf(t) |-> RefundCoin(t, pendingRefunds[k].amount)]

\* Every refund is of some coins, and they add up.
LEMMA RefundFacts ==
  ASSUME BridgeInv, NEW t
  PROVE  /\ AddsUp(OwedCoins(t)) /\ Refundable(t) = SumFunction(OwedCoins(t))
         /\ Refundable(t) \in Nat
         /\ DOMAIN OwedCoins(t) = RefundsOf(t)
         /\ \A k \in RefundsOf(t) :
              /\ t \in DOMAIN params
              /\ OwedCoins(t)[k] = CoinOf(params[t].decimals, t, pendingRefunds[k].amount)
<1>1. IsFiniteSet(RefundsOf(t)) /\ RefundsOf(t) \subseteq DOMAIN pendingRefunds
  BY FS_Subset DEF BridgeInv, RefundsOK, RefundsOf
<1>2. DOMAIN OwedCoins(t) = RefundsOf(t)
  BY DEF OwedCoins
<1>3. ASSUME NEW k \in RefundsOf(t)
      PROVE  /\ t \in DOMAIN params
             /\ OwedCoins(t)[k] = CoinOf(params[t].decimals, t, pendingRefunds[k].amount)
             /\ OwedCoins(t)[k] \in Nat
  <2>1. Payable(params, t, pendingRefunds[k].amount)
    BY <1>3 DEF BridgeInv, RefundsOK, RefundsOf
  <2>2. OwedCoins(t)[k] = CoinOf(params[t].decimals, t, pendingRefunds[k].amount)
    BY DEF OwedCoins, CoinOf, RefundCoin
  <2>. QED BY <2>1, <2>2 DEF Payable
<1>4. AddsUp(OwedCoins(t))
  BY <1>1, <1>2, <1>3 DEF AddsUp
<1>5. Refundable(t) = SumFunction(OwedCoins(t))
  BY DEF Refundable, OwedCoins
<1>. QED BY <1>2, <1>3, <1>4, <1>5, TotalNat

\* The refunds after a step
LEMMA RefundNext ==
  ASSUME BridgeInv, SameDecimals(params, params'), NEW t
  PROVE  /\ Refundable(t)' = SumFunction(OwedCoins(t)')
         /\ DOMAIN OwedCoins(t)' = RefundsOf(t)'
         /\ \A k \in RefundsOf(t)' :
              OwedCoins(t)'[k] = CoinOf(params'[t].decimals, t, pendingRefunds'[k].amount)
         /\ \A k \in RefundsOf(t) \cap RefundsOf(t)' :
              pendingRefunds'[k] = pendingRefunds[k] => OwedCoins(t)'[k] = OwedCoins(t)[k]
<1>1. /\ Refundable(t)' = SumFunction(OwedCoins(t)')
      /\ DOMAIN OwedCoins(t)' = RefundsOf(t)'
      /\ \A k \in RefundsOf(t)' :
           OwedCoins(t)'[k] = CoinOf(params'[t].decimals, t, pendingRefunds'[k].amount)
  BY DEF Refundable, OwedCoins, CoinOf, RefundCoin
<1>2. ASSUME NEW k \in RefundsOf(t) \cap RefundsOf(t)', pendingRefunds'[k] = pendingRefunds[k]
      PROVE  OwedCoins(t)'[k] = OwedCoins(t)[k]
  <2>1. t \in DOMAIN params
        /\ OwedCoins(t)[k] = CoinOf(params[t].decimals, t, pendingRefunds[k].amount)
    BY RefundFacts
  <2>2. params'[t].decimals = params[t].decimals
    BY <2>1 DEF SameDecimals
  <2>. QED BY <1>1, <1>2, <2>1, <2>2
<1>. QED BY <1>1, <1>2

\* The refunds of a token stay the same.
LEMMA RefundKept ==
  ASSUME BridgeInv, SameDecimals(params, params'), NEW t, RefundsOf(t)' = RefundsOf(t),
         \A k \in RefundsOf(t) : pendingRefunds'[k] = pendingRefunds[k]
  PROVE  Refundable(t)' = Refundable(t)
<1> DEFINE f == OwedCoins(t)
           g == OwedCoins(t)'
<1>1. DOMAIN g = DOMAIN f /\ \A k \in DOMAIN f : g[k] = f[k]
  BY RefundFacts, RefundNext
<1>2. AddsUp(f) /\ Refundable(t) = SumFunction(f) /\ Refundable(t)' = SumFunction(g)
  BY RefundFacts, RefundNext
<1> HIDE DEF f, g
<1>. QED BY <1>1, <1>2, TotalEqual

\* A refund is stored.
LEMMA RefundAdded ==
  ASSUME BridgeInv, SameDecimals(params, params'), NEW t, NEW id, id \notin RefundsOf(t),
         RefundsOf(t)' = RefundsOf(t) \cup {id},
         \A k \in RefundsOf(t) : pendingRefunds'[k] = pendingRefunds[k],
         NEW coin \in Nat, coin = CoinOf(params'[t].decimals, t, pendingRefunds'[id].amount)
  PROVE  Refundable(t)' = Refundable(t) + coin
<1> DEFINE f == OwedCoins(t)
           g == OwedCoins(t)'
<1>1. id \notin DOMAIN f /\ DOMAIN g = DOMAIN f \cup {id} /\ g[id] = coin
  BY RefundFacts, RefundNext
<1>2. \A k \in DOMAIN f : g[k] = f[k]
  BY RefundFacts, RefundNext
<1>3. AddsUp(f) /\ Refundable(t) = SumFunction(f) /\ Refundable(t)' = SumFunction(g)
  BY RefundFacts, RefundNext
<1> HIDE DEF f, g
<1>. QED BY <1>1, <1>2, <1>3, TotalAdd

\* A refund is stored over one of the same token.
LEMMA RefundReplaced ==
  ASSUME BridgeInv, SameDecimals(params, params'), NEW t, NEW id, id \in RefundsOf(t),
         RefundsOf(t)' = RefundsOf(t),
         \A k \in RefundsOf(t) \ {id} : pendingRefunds'[k] = pendingRefunds[k],
         NEW coin \in Nat, coin = CoinOf(params'[t].decimals, t, pendingRefunds'[id].amount)
  PROVE  Refundable(t)' =
           Refundable(t) - CoinOf(params[t].decimals, t, pendingRefunds[id].amount) + coin
<1> DEFINE f == OwedCoins(t)
           g == OwedCoins(t)'
<1>1. /\ id \in DOMAIN f /\ DOMAIN g = DOMAIN f /\ g[id] = coin
      /\ f[id] = CoinOf(params[t].decimals, t, pendingRefunds[id].amount)
  BY RefundFacts, RefundNext
<1>2. \A k \in DOMAIN f \ {id} : g[k] = f[k]
  BY RefundFacts, RefundNext
<1>3. AddsUp(f) /\ Refundable(t) = SumFunction(f) /\ Refundable(t)' = SumFunction(g)
  BY RefundFacts, RefundNext
<1> HIDE DEF f, g
<1>. QED BY <1>1, <1>2, <1>3, TotalChange

\* A refund is claimed, or stored over by one of another token.
LEMMA RefundRemoved ==
  ASSUME BridgeInv, SameDecimals(params, params'), NEW t, NEW id, id \in RefundsOf(t),
         RefundsOf(t)' = RefundsOf(t) \ {id},
         \A k \in RefundsOf(t) \ {id} : pendingRefunds'[k] = pendingRefunds[k]
  PROVE  Refundable(t) =
           Refundable(t)' + CoinOf(params[t].decimals, t, pendingRefunds[id].amount)
<1> DEFINE f == OwedCoins(t)
           g == OwedCoins(t)'
<1>1. /\ id \in DOMAIN f /\ DOMAIN g = DOMAIN f \ {id}
      /\ f[id] = CoinOf(params[t].decimals, t, pendingRefunds[id].amount)
  BY RefundFacts, RefundNext
<1>2. \A k \in DOMAIN g : g[k] = f[k]
  BY RefundFacts, RefundNext
<1>3. AddsUp(f) /\ Refundable(t) = SumFunction(f) /\ Refundable(t)' = SumFunction(g)
  BY RefundFacts, RefundNext
<1> HIDE DEF f, g
<1>. QED BY <1>1, <1>2, <1>3, TotalRemove

-----------------------------------------------------------------------------
\* Deposits that are not paid out yet

OpenDeposits(t) == [e \in Uncredited(t) |-> e.amount]

\* What is deposited are numbers, and they add up.
LEMMA DepositFacts ==
  ASSUME BridgeInv, NEW t
  PROVE  /\ AddsUp(OpenDeposits(t)) /\ UncreditedDeposits(t) = SumFunction(OpenDeposits(t))
         /\ UncreditedDeposits(t) \in Nat
         /\ UncreditedDeposits(t)' = SumFunction(OpenDeposits(t)')
<1>1. IsFiniteSet(Uncredited(t)) /\ Uncredited(t) \subseteq TransferInputs
  BY FS_Subset DEF BridgeInv, DepositsOK, Uncredited
<1>2. DOMAIN OpenDeposits(t) = Uncredited(t)
  BY DEF OpenDeposits
<1>3. ASSUME NEW e \in TransferInputs PROVE e.amount \in Nat
  <2>1. e \in Evidence /\ e.kind = "XRPLToCosmosTransfer"
    BY InputAssumption DEF TransferInputs
  <2>2. e \in TransferEvidence
    BY <2>1 DEF Evidence, ResultEvidence
  <2>. QED BY <2>2, AmountAssumption DEF TransferEvidence
<1>4. AddsUp(OpenDeposits(t))
  BY <1>1, <1>2, <1>3 DEF AddsUp, OpenDeposits
<1>5. UncreditedDeposits(t) = SumFunction(OpenDeposits(t))
      /\ UncreditedDeposits(t)' = SumFunction(OpenDeposits(t)')
  BY DEF UncreditedDeposits, OpenDeposits
<1>. QED BY <1>4, <1>5, TotalNat

\* Some deposits of a token may be paid out or given up.
LEMMA DepositsShrink ==
  ASSUME BridgeInv, NEW t, Uncredited(t)' \subseteq Uncredited(t)
  PROVE  /\ UncreditedDeposits(t)' <= UncreditedDeposits(t)
         /\ UncreditedDeposits(t)' \in Nat
         /\ Uncredited(t)' = Uncredited(t) => UncreditedDeposits(t)' = UncreditedDeposits(t)
         /\ \A e \in Uncredited(t) : Uncredited(t)' = Uncredited(t) \ {e}
              => UncreditedDeposits(t) = UncreditedDeposits(t)' + e.amount
<1> DEFINE f == OpenDeposits(t)
           g == OpenDeposits(t)'
<1>1. /\ DOMAIN g = Uncredited(t)' /\ DOMAIN f = Uncredited(t)
      /\ DOMAIN g \subseteq DOMAIN f /\ \A e \in DOMAIN g : g[e] = f[e]
      /\ \A e \in DOMAIN f : f[e] = e.amount
  BY DEF OpenDeposits
<1>2. /\ AddsUp(f) /\ UncreditedDeposits(t) = SumFunction(f)
      /\ UncreditedDeposits(t)' = SumFunction(g)
  BY DepositFacts
<1> HIDE DEF f, g
<1>3. AddsUp(g) /\ SumFunction(g) <= SumFunction(f) /\ SumFunction(g) \in Nat
  BY <1>1, <1>2, TotalPart, TotalNat
<1>4. ASSUME Uncredited(t)' = Uncredited(t)
      PROVE  SumFunction(g) = SumFunction(f)
  BY <1>1, <1>2, <1>4, TotalEqual
<1>5. ASSUME NEW e \in Uncredited(t), Uncredited(t)' = Uncredited(t) \ {e}
      PROVE  SumFunction(f) = SumFunction(g) + e.amount
  <2>1. e \in DOMAIN f /\ DOMAIN g = DOMAIN f \ {e} /\ f[e] = e.amount
    BY <1>1, <1>5
  <2>. QED BY <1>1, <1>2, <2>1, TotalRemove
<1>. QED BY <1>2, <1>3, <1>4, <1>5

\* A transaction of the XRPL pays the multisig account.
LEMMA DepositAdded ==
  ASSUME BridgeInv, NEW t, NEW e, e \notin Uncredited(t), e.amount \in Nat,
         Uncredited(t)' = Uncredited(t) \cup {e}
  PROVE  UncreditedDeposits(t)' = UncreditedDeposits(t) + e.amount
<1> DEFINE f == OpenDeposits(t)
           g == OpenDeposits(t)'
<1>1. /\ e \notin DOMAIN f /\ DOMAIN g = DOMAIN f \cup {e} /\ g[e] = e.amount
      /\ \A d \in DOMAIN f : g[d] = f[d]
  BY DEF OpenDeposits
<1>2. /\ AddsUp(f) /\ UncreditedDeposits(t) = SumFunction(f)
      /\ UncreditedDeposits(t)' = SumFunction(g)
  BY DepositFacts
<1> HIDE DEF f, g
<1>. QED BY <1>1, <1>2, TotalAdd

-----------------------------------------------------------------------------
\* What a step leaves alone

\* The parts of the contract's balance of a token stay the same.
AccountKept(t) ==
  /\ Held(t)' = Held(t) /\ InTransit(t)' = InTransit(t) /\ Refundable(t)' = Refundable(t)
  /\ FeesOwed(t)' = FeesOwed(t) /\ lost'[t] = lost[t]

\* So does what either chain represents of the other.
BackingKept(t) ==
  /\ Supply(t)' = Supply(t) /\ ledger'[t] = ledger[t]
  /\ UncreditedDeposits(t)' = UncreditedDeposits(t)
  /\ UnconfirmedSpending(t)' = UnconfirmedSpending(t)

AllNumbers ==
  \A t : /\ InTransit(t) \in Nat /\ Refundable(t) \in Nat
         /\ UncreditedDeposits(t) \in Nat /\ UnconfirmedSpending(t) \in Nat

\* In every state the amounts are numbers,
LEMMA Numbers == BridgeInv => AllNumbers
  BY TransitFacts, RefundFacts, DepositFacts, SpendingFacts DEF AllNumbers

\* so in the next one too.
LEMMA NumbersNext ==
  BridgeInv' => \A t : /\ InTransit(t)' \in Nat /\ Refundable(t)' \in Nat
                       /\ UncreditedDeposits(t)' \in Nat /\ UnconfirmedSpending(t)' \in Nat
<1>1. BridgeInv' => AllNumbers'
  BY Numbers, PTL
<1>. QED BY <1>1 DEF AllNumbers

\* The balances of a token stay the same.
LEMMA SameBank ==
  ASSUME NEW t, bank'[t] = bank[t]
  PROVE  Held(t)' = Held(t) /\ Supply(t)' = Supply(t)
  BY DEF Held, Supply

\* No fee is collected or claimed.
LEMMA SameFees ==
  ASSUME NEW t, UNCHANGED feeVars
  PROVE  FeesOwed(t)' = FeesOwed(t)
  BY DEF FeesOwed, feeVars

\* No refund is stored or claimed.
LEMMA SameRefunds ==
  ASSUME BridgeInv, NEW t, SameDecimals(params, params'), UNCHANGED pendingRefunds
  PROVE  Refundable(t)' = Refundable(t)
<1>1. RefundsOf(t)' = RefundsOf(t)
  BY DEF RefundsOf
<1>. QED BY <1>1, RefundKept

\* No transfer starts, is executed or ends.
LEMMA SameTransfers ==
  ASSUME BridgeInv, NEW t, SameDecimals(params, params'), TransfersKept, UNCHANGED executed
  PROVE  InTransit(t)' = InTransit(t) /\ UnconfirmedSpending(t)' = UnconfirmedSpending(t)
<1>1. TransfersInTransit(t)' = TransfersInTransit(t)
  <2>1. TransfersInTransit(t)' =
          {key \in Transfers : /\ pendingOperations[key].operation_type.token = t
                               /\ IsIssued(t) \/ key \notin executed}
    BY TransitNext DEF TransfersKept
  <2>. QED BY <2>1, TransitFacts
<1>2. \A key \in TransfersInTransit(t) :
        pendingOperations'[key].operation_type = pendingOperations[key].operation_type
  BY TransitFacts DEF TransfersKept
<1>3. Unconfirmed(t) \subseteq Transfers /\ Unconfirmed(t)' = Unconfirmed(t)
  BY DEF TransfersKept, Unconfirmed, BridgeInv, TransfersOK
<1>. QED BY <1>1, <1>2, <1>3, TransitKept, SpendingKept DEF TransfersKept

\* No deposit is made or paid out.
LEMMA SameDeposits ==
  ASSUME BridgeInv, NEW t, UNCHANGED <<deposits, processedTxs>>
  PROVE  UncreditedDeposits(t)' = UncreditedDeposits(t)
<1>1. Uncredited(t)' = Uncredited(t)
  BY DEF Uncredited
<1>. QED BY <1>1, DepositsShrink

\* A message that concerns no coins
LEMMA IdleEffect ==
  ASSUME BridgeInv, Idle, NEW t \in BridgedTokens
  PROVE  AccountKept(t) /\ BackingKept(t)
<1>1. /\ UNCHANGED <<bank, params, feeVars, lost, ledger, deposits, executed>>
      /\ UNCHANGED <<processedTxs, pendingRefunds>> /\ TransfersKept
  BY DEF Idle, fundVars, xrplVars
<1>2. SameDecimals(params, params')
  BY <1>1 DEF SameDecimals
<1>3. bank'[t] = bank[t]
  BY <1>1
<1>. QED BY <1>1, <1>2, <1>3, SameBank, SameFees, SameRefunds, SameTransfers, SameDeposits
         DEF AccountKept, BackingKept

-----------------------------------------------------------------------------
\* What the messages do

FundsType ==
  /\ bank \in BalancesType
  /\ FeesType
  /\ lost \in [BridgedTokens -> Nat]
  /\ ledger \in [BridgedTokens -> Nat]

Convert(decimals, amount) == convert_amount_decimals(XRPL_TOKENS_DECIMALS, decimals, amount)

\* A deposit of the XRPL is paid out: an XRPL token is minted, fees to the contract; a
\* Cosmos token is paid from what the contract holds, and the fees stay there.
Credited(t, amount, sent, charged) ==
  /\ amount \in Nat /\ sent \in Nat \ {0} /\ charged \in Nat
  /\ InTransit(t)' = InTransit(t) /\ Refundable(t)' = Refundable(t)
  /\ FeesOwed(t)' = FeesOwed(t) + charged
  /\ lost'[t] = lost[t] /\ ledger'[t] = ledger[t]
  /\ UnconfirmedSpending(t)' = UnconfirmedSpending(t)
  /\ UncreditedDeposits(t) = UncreditedDeposits(t)' + amount
  /\ UncreditedDeposits(t)' \in Nat
  /\ IF IsIssued(t)
     THEN /\ amount = sent + charged
          /\ Held(t)' = Held(t) + charged
          /\ Supply(t)' = Supply(t) + amount
          /\ Supply(t) + amount <= params[t].max_holding_amount
     ELSE /\ Convert(params[t].decimals, amount) = sent + charged
          /\ Held(t)' = Held(t) - sent

\* ConfirmTransfer does that to one token.
LEMMA CreditEffect ==
  ASSUME BridgeInv, FundsType, NEW e \in TransferInputs, Credits(e)
  PROVE  /\ e.token \in DOMAIN params /\ FundsType'
         /\ UNCHANGED <<params, tokenVars>>
         /\ Credited(e.token, e.amount, Credit(e).sent,
                     params[e.token].bridging_fee + Credit(e).remainder)
         /\ \A u \in BridgedTokens \ {e.token} : AccountKept(u) /\ BackingKept(u)
<1> DEFINE t == e.token
           sent == Credit(e).sent
           rest == Credit(e).remainder
           fee == params[t].bridging_fee
           charged == fee + rest
<1>1. /\ UNCHANGED <<params, tokenVars, lost, ledger, deposits, executed, pendingRefunds>>
      /\ TransfersKept /\ e \in deposits /\ t \in DOMAIN params /\ e.amount \in Nat
      /\ get_tx_hash(e) \notin processedTxs
      /\ processedTxs' = processedTxs \cup {get_tx_hash(e)}
  BY DEF Credits, xrplVars
<1>2. SameDecimals(params, params')
  BY <1>1 DEF SameDecimals
<1>3. t \in BridgedTokens /\ fee \in Nat
  BY <1>1, TokenLegal DEF BridgeInv
<1>4. /\ sent \in Nat \ {0} /\ rest \in Nat
      /\ IsIssued(t) => e.amount = sent + fee + rest
      /\ ~IsIssued(t) => Convert(params[t].decimals, e.amount) = sent + fee + rest
  BY CreditAmounts DEF BridgeInv, Convert
<1>5. charged \in Nat /\ sent + fee + rest = sent + charged
  BY <1>3, <1>4
<1>6. /\ FeesType' /\ FeesOwed(t)' = FeesOwed(t) + fee + rest
      /\ \A u \in BridgedTokens \ {t} : FeesOwed(u)' = FeesOwed(u)
  <2>1. handle_fee_collection(t, rest)
    BY DEF Credits
  <2>2. rest \in Nat
    BY <1>4
  <2> HIDE DEF rest
  <2>. QED BY <1>3, <2>1, <2>2, CollectEffect DEF BridgeInv, FundsType
<1>7. FeesOwed(t) \in Nat
  <2>1. SumFunction(Earned(feesCollected, t)) \in Nat
    BY <1>3, FeesAddUp, TotalNat DEF FundsType, FeesType
  <2>. QED BY <1>3, <2>1, FeesOwedIs DEF FundsType, FeesType
<1>8. FeesOwed(t)' = FeesOwed(t) + charged
  <2> HIDE DEF fee, rest
  <2>. QED BY <1>3, <1>4, <1>6, <1>7
<1>9. /\ bank' \in BalancesType
      /\ \A u \in BridgedTokens \ {t} : bank'[u] = bank[u]
      /\ IsIssued(t) => Held(t)' = Held(t) + charged /\ Supply(t)' = Supply(t) + (charged + sent)
      /\ ~IsIssued(t) => Held(t)' = Held(t) - sent
  <2>1. PICK to \in BankAccount \ {ContractAddr} :
          bank' = IF IsIssued(t) THEN Mint(Mint(bank, t, ContractAddr, charged), t, to, sent)
                  ELSE Pay(bank, t, ContractAddr, to, sent)
    BY DEF Credits
  <2>2. ContractAddr \in BankAccount
    BY Accounts
  <2> HIDE DEF charged, sent, t
  <2>3. CASE IsIssued(t)
    <3> DEFINE mid == Mint(bank, t, ContractAddr, charged)
               new == Mint(mid, t, to, sent)
    <3>1. /\ mid \in BalancesType
          /\ mid[t][ContractAddr] = bank[t][ContractAddr] + charged
          /\ \A u \in BridgedTokens \ {t} : mid[u] = bank[u]
          /\ Total(mid, t) = Total(bank, t) + charged
          /\ Total(bank, t) \in Nat
      BY <1>3, <1>5, <2>2, MintEffect DEF FundsType
    <3> HIDE DEF mid
    <3>2. /\ new \in BalancesType
          /\ \A b \in BankAccount \ {to} : new[t][b] = mid[t][b]
          /\ \A u \in BridgedTokens \ {t} : new[u] = mid[u]
          /\ Total(new, t) = Total(mid, t) + sent
      <4>1. mid \in BalancesType /\ to \in BankAccount /\ sent \in Nat
        BY <1>4, <2>1, <3>1
      <4>. QED BY <1>3, <4>1, MintEffect
    <3>3. bank' = new
      BY <2>1, <2>3 DEF mid
    <3> HIDE DEF new
    <3>4. Supply(t) = Total(bank, t) /\ Supply(t)' = Total(new, t)
      BY <3>3 DEF Supply, Total
    <3>5. Held(t) = bank[t][ContractAddr] /\ Held(t)' = mid[t][ContractAddr]
      BY <2>1, <2>2, <3>2, <3>3 DEF Held
    <3>6. Total(new, t) = Total(bank, t) + (charged + sent)
      BY <1>4, <1>5, <3>1, <3>2
    <3>. QED BY <2>3, <3>1, <3>2, <3>3, <3>4, <3>5, <3>6
  <2>4. CASE ~IsIssued(t)
    <3> DEFINE new == Pay(bank, t, ContractAddr, to, sent)
    <3>1. sent <= bank[t][ContractAddr]
      BY <2>4 DEF Credits, Held, t, sent
    <3>2. /\ new \in BalancesType
          /\ new[t][ContractAddr] = bank[t][ContractAddr] - sent
          /\ \A u \in BridgedTokens \ {t} : new[u] = bank[u]
      BY <1>3, <1>4, <2>2, <3>1, PayEffect DEF FundsType
    <3>3. bank' = new
      BY <2>1, <2>4
    <3>. QED BY <2>4, <3>2, <3>3 DEF Held
  <2>. QED BY <2>3, <2>4
<1>10. UncreditedDeposits(t) = UncreditedDeposits(t)' + e.amount /\ UncreditedDeposits(t)' \in Nat
  <2>1. e \in Uncredited(t)
    BY <1>1 DEF Uncredited
  <2>2. Uncredited(t)' = Uncredited(t) \ {e}
    BY <1>1 DEF Uncredited, BridgeInv, DepositsOK, get_tx_hash
  <2>. QED BY <2>1, <2>2, DepositsShrink
<1>11. ASSUME NEW u \in BridgedTokens \ {t} PROVE UncreditedDeposits(u)' = UncreditedDeposits(u)
  <2>1. Uncredited(u)' = Uncredited(u)
    BY <1>1 DEF Uncredited, BridgeInv, DepositsOK, get_tx_hash
  <2>. QED BY <2>1, DepositsShrink
<1>12. \A u : /\ InTransit(u)' = InTransit(u) /\ UnconfirmedSpending(u)' = UnconfirmedSpending(u)
              /\ Refundable(u)' = Refundable(u)
  BY <1>1, <1>2, SameTransfers, SameRefunds
<1>13. IsIssued(t) => Supply(t) + e.amount <= params[t].max_holding_amount
  <2>1. Supply(t) \in Nat
    <3>1. \A a \in BankAccount : bank[t][a] \in Nat
      BY <1>3 DEF FundsType, BalancesType
    <3>. QED BY <3>1, Accounts, SumNat DEF Supply
  <2>2. IsIssued(t) => e.amount + Supply(t) <= params[t].max_holding_amount
    BY DEF Credits, CreditAllowed
  <2>3. e.amount + Supply(t) = Supply(t) + e.amount
    BY <1>1, <2>1
  <2>. QED BY <2>2, <2>3
<1>14. FundsType'
  BY <1>1, <1>6, <1>9 DEF FundsType
<1>15. \A u \in BridgedTokens \ {t} : AccountKept(u) /\ BackingKept(u)
  BY <1>1, <1>6, <1>9, <1>11, <1>12, SameBank DEF AccountKept, BackingKept
<1>16. charged + sent = sent + charged
  BY <1>4, <1>5
<1>17. Credited(t, e.amount, sent, charged)
  <2> HIDE DEF t, sent, charged, rest, fee
  <2>. QED BY <1>1, <1>4, <1>5, <1>8, <1>9, <1>10, <1>12, <1>13, <1>16 DEF Credited
<1>. QED BY <1>1, <1>14, <1>15, <1>17

\* Coins are sent to the XRPL: what the sender paid is in transit, or fees.
Locked(t, coin, charged) ==
  /\ coin \in Nat \ {0} /\ charged \in Nat
  /\ Held(t)' = Held(t) + coin + charged
  /\ InTransit(t)' = InTransit(t) + coin
  /\ Refundable(t)' = Refundable(t)
  /\ FeesOwed(t)' = FeesOwed(t) + charged
  /\ lost'[t] = lost[t]
  /\ BackingKept(t)
  /\ IsIssued(t) \/ Held(t)' <= params[t].max_holding_amount

\* SendToXRPL does that to one token.
LEMMA SendEffect ==
  ASSUME BridgeInv, FundsType, NEW deposit \in DepositInputs, NEW key, Sends(deposit, key)
  PROVE  /\ deposit.token \in DOMAIN params /\ FundsType'
         /\ UNCHANGED params
         /\ \E coin, charged : Locked(deposit.token, coin, charged)
         /\ \A u \in BridgedTokens \ {deposit.token} : AccountKept(u) /\ BackingKept(u)
<1> DEFINE t == deposit.token
           amounts == OperationAmount(deposit)
           coin == CoinOf(params[t].decimals, t, amounts)
           rest == Sent(deposit).remainder
           fee == params[t].bridging_fee
           transfer == [type |-> "CosmosToXRPLTransfer", token |-> t, amount |-> amounts,
                        sender |-> deposit.sender, recipient |-> deposit.recipient]
<1>1. /\ UNCHANGED <<params, lost, ledger, deposits, executed, pendingRefunds, processedTxs>>
      /\ t \in DOMAIN params
      /\ TransferAdded(key, transfer)
      /\ handle_fee_collection(t, rest)
      /\ bank' = Pay(bank, t, deposit.sender, ContractAddr, deposit.amount)
      /\ deposit.amount <= bank[t][deposit.sender]
      /\ IsIssued(t) \/ Held(t)' <= params[t].max_holding_amount
  BY DEF Sends, xrplVars, Held
<1>2. SameDecimals(params, params')
  BY <1>1 DEF SameDecimals
<1>3. t \in BridgedTokens /\ fee \in Nat
  BY <1>1, TokenLegal DEF BridgeInv
<1>4. /\ Payable(params, t, amounts) /\ rest \in Nat /\ deposit.amount \in Nat
      /\ deposit.amount = coin + fee + rest
  BY SendAmounts DEF BridgeInv
<1>5. coin \in Nat \ {0}
  BY <1>4 DEF Payable
<1>6. transfer.token = t /\ transfer.amount = amounts
  OBVIOUS
<1> HIDE DEF transfer, amounts
<1>7. ASSUME NEW u
      PROVE  /\ IF u = t THEN /\ key \notin TransfersInTransit(u)
                              /\ TransfersInTransit(u)' = TransfersInTransit(u) \cup {key}
                ELSE TransfersInTransit(u)' = TransfersInTransit(u)
             /\ \A i \in TransfersInTransit(u) :
                  pendingOperations'[i].operation_type = pendingOperations[i].operation_type
  <2> DEFINE In(S, ops) == {i \in S : /\ ops[i].operation_type.token = u
                                      /\ IsIssued(u) \/ i \notin executed}
  <2>1. TransfersInTransit(u) = In(Transfers, pendingOperations)
    BY TransitFacts
  <2>2. TransfersInTransit(u)' = In(Transfers \cup {key}, pendingOperations')
    BY <1>1, TransitNext DEF TransferAdded
  <2>3. /\ key \notin Transfers /\ key \notin executed
        /\ pendingOperations'[key].operation_type.token = t
        /\ \A i \in Transfers :
             pendingOperations'[i].operation_type = pendingOperations[i].operation_type
    BY <1>1, <1>6 DEF TransferAdded
  <2> HIDE DEF t
  <2>. QED BY <2>1, <2>2, <2>3
<1>8. InTransit(t)' = InTransit(t) + coin
  <2>1. coin = CoinOf(params'[t].decimals, t, pendingOperations'[key].operation_type.amount)
    BY <1>1, <1>6 DEF TransferAdded
  <2>2. coin \in Nat
    BY <1>5
  <2> HIDE DEF coin, t
  <2>. QED BY <1>2, <1>7, <2>1, <2>2, TransitAdded
<1>9. \A u : u # t => InTransit(u)' = InTransit(u)
  BY <1>2, <1>7, TransitKept
<1>10. \A u : UnconfirmedSpending(u)' = UnconfirmedSpending(u)
  <2>1. ASSUME NEW u
        PROVE  /\ Unconfirmed(u)' = Unconfirmed(u)
               /\ \A i \in Unconfirmed(u) :
                    pendingOperations'[i].operation_type = pendingOperations[i].operation_type
    BY <1>1 DEF Unconfirmed, TransferAdded, BridgeInv, TransfersOK
  <2>. QED BY <2>1, SpendingKept
<1>11. \A u : Refundable(u)' = Refundable(u) /\ UncreditedDeposits(u)' = UncreditedDeposits(u)
  BY <1>1, <1>2, SameRefunds, SameDeposits
<1>12. /\ FeesType' /\ FeesOwed(t)' = FeesOwed(t) + fee + rest
       /\ \A u \in BridgedTokens \ {t} : FeesOwed(u)' = FeesOwed(u)
  <2> HIDE DEF rest, t
  <2>. QED BY <1>1, <1>3, <1>4, CollectEffect DEF BridgeInv, FundsType
<1>13. FeesOwed(t) \in Nat
  <2>1. SumFunction(Earned(feesCollected, t)) \in Nat
    BY <1>3, FeesAddUp, TotalNat DEF FundsType, FeesType
  <2>. QED BY <1>3, <2>1, FeesOwedIs DEF FundsType, FeesType
<1>14. /\ bank' \in BalancesType
       /\ \A u \in BridgedTokens \ {t} : bank'[u] = bank[u]
       /\ Held(t)' = Held(t) + deposit.amount /\ Held(t) \in Nat
       /\ Supply(t)' = Supply(t)
  <2>1. /\ deposit.sender \in BankAccount /\ deposit.sender # ContractAddr
        /\ ContractAddr \in BankAccount
    BY Accounts, AmountAssumption
  <2> DEFINE from == deposit.sender
             new == Pay(bank, t, from, ContractAddr, deposit.amount)
  <2>2. from \in BankAccount /\ from # ContractAddr /\ deposit.amount <= bank[t][from]
    BY <1>1, <2>1
  <2>3. bank' = new
    BY <1>1
  <2> HIDE DEF from, t
  <2>4. /\ new \in BalancesType
        /\ new[t][ContractAddr] = bank[t][ContractAddr] + deposit.amount
        /\ \A u \in BridgedTokens \ {t} : new[u] = bank[u]
        /\ Total(new, t) = Total(bank, t)
    BY <1>3, <1>4, <2>1, <2>2, PayEffect DEF FundsType
  <2> HIDE DEF new
  <2>5. bank[t][ContractAddr] \in Nat
    BY <1>3, <2>1 DEF FundsType, BalancesType
  <2>. QED BY <2>3, <2>4, <2>5 DEF Held, Supply, Total
<1>15. FundsType'
  BY <1>1, <1>12, <1>14 DEF FundsType
<1>16. \A u \in BridgedTokens \ {t} : AccountKept(u) /\ BackingKept(u)
  BY <1>1, <1>9, <1>10, <1>11, <1>12, <1>14, SameBank DEF AccountKept, BackingKept
<1>17. Locked(t, coin, fee + rest)
  <2> HIDE DEF t, coin, fee, rest
  <2>1. /\ fee + rest \in Nat
        /\ FeesOwed(t)' = FeesOwed(t) + (fee + rest)
        /\ Held(t)' = Held(t) + coin + (fee + rest)
    BY <1>3, <1>4, <1>5, <1>12, <1>13, <1>14
  <2>. QED BY <1>1, <1>5, <1>8, <1>10, <1>11, <1>14, <2>1 DEF Locked, BackingKept
<1>. QED BY <1>1, <1>15, <1>16, <1>17

\* Results are reported, and deposits that were not paid out may be given up with them;
\* of a Cosmos token neither the supply nor the executed transfers matter.
BackingShrinks(t) ==
  /\ ledger'[t] = ledger[t]
  /\ UncreditedDeposits(t)' <= UncreditedDeposits(t) /\ UncreditedDeposits(t)' \in Nat
  /\ IsIssued(t) => /\ Supply(t)' = Supply(t)
                    /\ UnconfirmedSpending(t)' = UnconfirmedSpending(t)

\* Settling touches neither fees nor parameters nor the XRPL.
LEMMA SettleFrame ==
  ASSUME BridgeInv, NEW key, NEW result, Settles(key, result)
  PROVE  /\ UNCHANGED <<params, ledger>> /\ SameDecimals(params, params')
         /\ FeesType => FeesType'
         /\ \A u : /\ FeesOwed(u)' = FeesOwed(u) /\ ledger'[u] = ledger[u]
                   /\ UncreditedDeposits(u)' <= UncreditedDeposits(u)
                   /\ UncreditedDeposits(u)' \in Nat
<1>1. /\ UNCHANGED <<params, feeVars, ledger, deposits>>
      /\ processedTxs \subseteq processedTxs'
  BY DEF Settles
<1>2. SameDecimals(params, params')
  BY <1>1 DEF SameDecimals
<1>3. \A u : Uncredited(u)' \subseteq Uncredited(u)
  BY <1>1 DEF Uncredited, get_tx_hash
<1>4. FeesType => FeesType'
  BY <1>1 DEF FeesType, feeVars
<1>. QED BY <1>1, <1>2, <1>3, <1>4, SameFees, DepositsShrink

\* An operation other than a transfer is settled.
LEMMA SettleOther ==
  ASSUME BridgeInv, FundsType, NEW key, NEW result, Settles(key, result), key \notin Transfers
  PROVE  FundsType' /\ \A u \in BridgedTokens : AccountKept(u) /\ BackingShrinks(u)
<1>1. pendingOperations[key].operation_type.type # "CosmosToXRPLTransfer"
  BY DEF Settles, Transfers, PendingOfType
<1>2. UNCHANGED <<bank, lost, pendingRefunds>> /\ TransfersKept
  BY <1>1 DEF Settles, SettleFunds, handle_cosmos_to_xrpl_transfer_confirmation
<1>3. executed' = executed
  BY DEF Settles, BridgeInv, TransfersOK
<1>4. \A u : Held(u)' = Held(u) /\ Supply(u)' = Supply(u)
  BY <1>2, SameBank
<1>5. SameDecimals(params, params')
  BY SettleFrame
<1>6. \A u : /\ InTransit(u)' = InTransit(u) /\ UnconfirmedSpending(u)' = UnconfirmedSpending(u)
             /\ Refundable(u)' = Refundable(u)
  BY <1>2, <1>3, <1>5, SameTransfers, SameRefunds
<1>7. FundsType'
  BY <1>2, SettleFrame DEF FundsType
<1>. QED BY <1>2, <1>4, <1>6, <1>7, SettleFrame DEF AccountKept, BackingShrinks

\* A transfer ends: it leaves transit, unless the escrow already has it.
LEMMA EndTransfer ==
  ASSUME BridgeInv, NEW key, TransferRemoved(key), executed' = executed \ {key},
         SameDecimals(params, params'),
         NEW t, t = pendingOperations[key].operation_type.token,
         NEW amounts, amounts = pendingOperations[key].operation_type.amount
  PROVE  /\ IF IsIssued(t) \/ key \notin executed
            THEN InTransit(t) = InTransit(t)' + CoinOf(params[t].decimals, t, amounts)
            ELSE InTransit(t)' = InTransit(t)
         /\ IF key \in executed
            THEN UnconfirmedSpending(t) = UnconfirmedSpending(t)' + AmountSent(amounts)
            ELSE UnconfirmedSpending(t)' = UnconfirmedSpending(t)
         /\ \A u : u # t => /\ InTransit(u)' = InTransit(u)
                            /\ UnconfirmedSpending(u)' = UnconfirmedSpending(u)
<1>1. /\ key \in Transfers /\ Transfers' = Transfers \ {key}
      /\ \A i \in Transfers \ {key} :
           pendingOperations'[i].operation_type = pendingOperations[i].operation_type
  BY DEF TransferRemoved
<1>2. ASSUME NEW u
      PROVE  /\ IF u = t /\ (IsIssued(t) \/ key \notin executed)
                THEN key \in TransfersInTransit(u) ELSE key \notin TransfersInTransit(u)
             /\ TransfersInTransit(u)' = TransfersInTransit(u) \ {key}
             /\ \A i \in TransfersInTransit(u) \ {key} :
                  pendingOperations'[i].operation_type = pendingOperations[i].operation_type
  <2> DEFINE In(S, ops, ex) == {i \in S : /\ ops[i].operation_type.token = u
                                          /\ IsIssued(u) \/ i \notin ex}
  <2>1. TransfersInTransit(u) = In(Transfers, pendingOperations, executed)
    BY TransitFacts
  <2>2. TransfersInTransit(u)' = In(Transfers \ {key}, pendingOperations', executed \ {key})
    BY <1>1, TransitNext
  <2>. QED BY <1>1, <2>1, <2>2
<1>3. ASSUME NEW u
      PROVE  /\ IF u = t /\ key \in executed
                THEN key \in Unconfirmed(u) ELSE key \notin Unconfirmed(u)
             /\ Unconfirmed(u)' = Unconfirmed(u) \ {key}
             /\ \A i \in Unconfirmed(u) \ {key} :
                  pendingOperations'[i].operation_type = pendingOperations[i].operation_type
  BY <1>1 DEF Unconfirmed, BridgeInv, TransfersOK
<1>4. ASSUME NEW u, key \notin TransfersInTransit(u) PROVE InTransit(u)' = InTransit(u)
  <2>1. TransfersInTransit(u)' = TransfersInTransit(u)
    BY <1>2, <1>4
  <2>. QED BY <1>2, <1>4, <2>1, TransitKept
<1>5. ASSUME NEW u, key \notin Unconfirmed(u)
      PROVE  UnconfirmedSpending(u)' = UnconfirmedSpending(u)
  <2>1. Unconfirmed(u)' = Unconfirmed(u)
    BY <1>3, <1>5
  <2>. QED BY <1>3, <1>5, <2>1, SpendingKept
<1>6. ASSUME key \in TransfersInTransit(t)
      PROVE  InTransit(t) = InTransit(t)' + CoinOf(params[t].decimals, t, amounts)
  BY <1>2, <1>6, TransitRemoved
<1>7. ASSUME key \in Unconfirmed(t)
      PROVE  UnconfirmedSpending(t) = UnconfirmedSpending(t)' + AmountSent(amounts)
  BY <1>3, <1>7, SpendingRemoved
<1>. QED BY <1>2, <1>3, <1>4, <1>5, <1>6, <1>7

\* A transfer of an XRPL token arrived: its coins are burnt.
Burnt(t, coin) ==
  /\ IsIssued(t) /\ coin \in Nat \ {0}
  /\ InTransit(t) = InTransit(t)' + coin /\ InTransit(t)' \in Nat
  /\ Held(t)' = Held(t) - coin
  /\ Refundable(t)' = Refundable(t) /\ FeesOwed(t)' = FeesOwed(t) /\ lost'[t] = lost[t]
  /\ Supply(t)' = Supply(t) - coin
  /\ ledger'[t] = ledger[t]
  /\ UnconfirmedSpending(t) = UnconfirmedSpending(t)' + coin
  /\ UnconfirmedSpending(t)' \in Nat
  /\ UncreditedDeposits(t)' <= UncreditedDeposits(t) /\ UncreditedDeposits(t)' \in Nat

\* A transfer is reported to have been accepted: of an XRPL token the coins are burnt,
\* those of a Cosmos token became escrow when they reached the XRPL.
LEMMA SettleAccepted ==
  ASSUME BridgeInv, BridgeInv', FundsType, NEW key, NEW result, Settles(key, result),
         key \in Transfers, result = "Accepted"
  PROVE  \E t \in BridgedTokens \cap DOMAIN params :
            /\ FundsType'
            /\ IF IsIssued(t) THEN \E coin : Burnt(t, coin)
               ELSE AccountKept(t) /\ BackingShrinks(t)
            /\ \A u \in BridgedTokens \ {t} : AccountKept(u) /\ BackingShrinks(u)
<1> DEFINE transfer == pendingOperations[key].operation_type
<1>1. /\ TransferRemoved(key) /\ key \in executed /\ executed' = executed \ {key}
      /\ transfer.type = "CosmosToXRPLTransfer"
  BY DEF Settles, Transfers, PendingOfType
<1>2. PICK t, amounts : t = transfer.token /\ amounts = transfer.amount
  OBVIOUS
<1> DEFINE sent == AmountSent(amounts)
<1>3. /\ UNCHANGED <<lost, pendingRefunds>>
      /\ IF IsIssued(t)
         THEN sent <= Held(t) /\ bank' = Burn(bank, t, ContractAddr, sent)
         ELSE bank' = bank
  BY <1>1, <1>2 DEF Settles, SettleFunds, handle_cosmos_to_xrpl_transfer_confirmation
<1>4. Payable(params, t, amounts) /\ t \in DOMAIN params /\ t \in BridgedTokens
  BY <1>2 DEF BridgeInv, TransfersOK, Payable, ParamsOK
<1>5. SameDecimals(params, params')
  BY SettleFrame
<1>6. \A u : Refundable(u)' = Refundable(u)
  BY <1>3, <1>5, SameRefunds
<1>7. /\ IsIssued(t) => InTransit(t) = InTransit(t)' + CoinOf(params[t].decimals, t, amounts)
      /\ ~IsIssued(t) => InTransit(t)' = InTransit(t)
      /\ UnconfirmedSpending(t) = UnconfirmedSpending(t)' + sent
      /\ \A u : u # t => /\ InTransit(u)' = InTransit(u)
                         /\ UnconfirmedSpending(u)' = UnconfirmedSpending(u)
  BY <1>1, <1>2, <1>5, EndTransfer
<1>8. IsIssued(t) => CoinOf(params[t].decimals, t, amounts) = sent
  BY DEF CoinOf
<1>9. CASE ~IsIssued(t)
  <2>1. FundsType' /\ \A u : Held(u)' = Held(u) /\ Supply(u)' = Supply(u)
    BY <1>3, <1>9, SameBank, SettleFrame DEF FundsType
  <2>2. \A u \in BridgedTokens : AccountKept(u) /\ BackingShrinks(u)
    BY <1>3, <1>6, <1>7, <1>9, <2>1, SettleFrame DEF AccountKept, BackingShrinks
  <2>. QED BY <1>4, <1>9, <2>1, <2>2
<1>10. CASE IsIssued(t)
  <2>1. sent \in Nat \ {0}
    BY <1>4, <1>8, <1>10 DEF Payable
  <2>2. ContractAddr \in BankAccount
    BY Accounts
  <2> DEFINE new == Burn(bank, t, ContractAddr, sent)
  <2>3. sent \in Nat /\ sent <= bank[t][ContractAddr] /\ bank' = new
    BY <1>3, <1>10, <2>1 DEF Held
  <2> HIDE DEF sent
  <2>4. /\ new \in BalancesType
        /\ new[t][ContractAddr] = bank[t][ContractAddr] - sent
        /\ \A u \in BridgedTokens \ {t} : new[u] = bank[u]
        /\ Total(new, t) = Total(bank, t) - sent
    BY <1>4, <2>2, <2>3, BurnEffect DEF FundsType
  <2> HIDE DEF new
  <2>5. Held(t)' = Held(t) - sent /\ Supply(t)' = Supply(t) - sent
    BY <2>3, <2>4 DEF Held, Supply, Total
  <2>6. FundsType'
    BY <1>3, <2>3, <2>4, SettleFrame DEF FundsType
  <2>7. InTransit(t)' \in Nat /\ UnconfirmedSpending(t)' \in Nat
    BY NumbersNext
  <2>8. Burnt(t, sent)
    BY <1>3, <1>6, <1>7, <1>8, <1>10, <2>1, <2>5, <2>7, SettleFrame DEF Burnt
  <2>9. \A u \in BridgedTokens \ {t} : AccountKept(u) /\ BackingShrinks(u)
    BY <1>3, <1>6, <1>7, <2>3, <2>4, SameBank, SettleFrame DEF AccountKept, BackingShrinks
  <2>. QED BY <1>4, <1>10, <2>6, <2>8, <2>9
<1>. QED BY <1>9, <1>10

\* A transfer failed: its sender may take it back, and what its refund is stored over is
\* lost.
Failed(t, coin, over) ==
  /\ coin \in Nat \ {0} /\ over \in Nat
  /\ InTransit(t) = InTransit(t)' + coin /\ InTransit(t)' \in Nat
  /\ Refundable(t)' = Refundable(t) - over + coin
  /\ lost'[t] = lost[t] + over
  /\ Held(t)' = Held(t) /\ FeesOwed(t)' = FeesOwed(t)
  /\ BackingShrinks(t)

\* A refund is stored over by one of another token.
Overwritten(t, over) ==
  /\ over \in Nat \ {0}
  /\ Refundable(t) = Refundable(t)' + over /\ Refundable(t)' \in Nat
  /\ lost'[t] = lost[t] + over
  /\ Held(t)' = Held(t) /\ InTransit(t)' = InTransit(t) /\ FeesOwed(t)' = FeesOwed(t)
  /\ BackingShrinks(t)

\* What a refund does to the refunds of every token
LEMMA StoreRefund ==
  ASSUME BridgeInv, SameDecimals(params, params'), NEW t \in DOMAIN params, NEW amounts, NEW id,
         pendingRefunds' = Put(pendingRefunds, id, [token |-> t, amount |-> amounts]),
         NEW coin \in Nat, coin = CoinOf(params[t].decimals, t, amounts)
  PROVE  /\ id \notin DOMAIN pendingRefunds \/ pendingRefunds[id].token # t
              => Refundable(t)' = Refundable(t) + coin
         /\ id \in DOMAIN pendingRefunds /\ pendingRefunds[id].token = t
              => Refundable(t)' = Refundable(t)
                   - CoinOf(params[t].decimals, t, pendingRefunds[id].amount) + coin
         /\ \A u : u # t /\ id \in DOMAIN pendingRefunds /\ pendingRefunds[id].token = u
              => Refundable(u) = Refundable(u)'
                   + CoinOf(params[u].decimals, u, pendingRefunds[id].amount)
         /\ \A u : u # t /\ ~(id \in DOMAIN pendingRefunds /\ pendingRefunds[id].token = u)
              => Refundable(u)' = Refundable(u)
<1> DEFINE new == [token |-> t, amount |-> amounts]
<1>1. new.token = t /\ new.amount = amounts
  OBVIOUS
<1> HIDE DEF new
<1>2. /\ DOMAIN pendingRefunds' = DOMAIN pendingRefunds \cup {id} /\ pendingRefunds'[id] = new
      /\ \A k \in DOMAIN pendingRefunds \ {id} : pendingRefunds'[k] = pendingRefunds[k]
  BY DEF Put, new
<1>3. coin = CoinOf(params'[t].decimals, t, pendingRefunds'[id].amount)
  BY <1>1, <1>2 DEF SameDecimals
<1>4. /\ RefundsOf(t)' = RefundsOf(t) \cup {id}
      /\ \A k \in RefundsOf(t) \ {id} : pendingRefunds'[k] = pendingRefunds[k]
  BY <1>1, <1>2 DEF RefundsOf
<1>5. ASSUME NEW u, u # t
      PROVE  /\ RefundsOf(u)' = RefundsOf(u) \ {id}
             /\ \A k \in RefundsOf(u) \ {id} : pendingRefunds'[k] = pendingRefunds[k]
  BY <1>1, <1>2, <1>5 DEF RefundsOf
<1>6. ASSUME id \notin DOMAIN pendingRefunds \/ pendingRefunds[id].token # t
      PROVE  Refundable(t)' = Refundable(t) + coin
  <2>1. id \notin RefundsOf(t)
    BY <1>6 DEF RefundsOf
  <2>. QED BY <1>3, <1>4, <2>1, RefundAdded
<1>7. ASSUME id \in DOMAIN pendingRefunds, pendingRefunds[id].token = t
      PROVE  Refundable(t)' = Refundable(t)
               - CoinOf(params[t].decimals, t, pendingRefunds[id].amount) + coin
  <2>1. id \in RefundsOf(t) /\ RefundsOf(t)' = RefundsOf(t)
    BY <1>4, <1>7 DEF RefundsOf
  <2>. QED BY <1>3, <1>4, <2>1, RefundReplaced
<1>8. ASSUME NEW u, u # t, id \in DOMAIN pendingRefunds, pendingRefunds[id].token = u
      PROVE  Refundable(u) = Refundable(u)'
               + CoinOf(params[u].decimals, u, pendingRefunds[id].amount)
  <2>1. id \in RefundsOf(u)
    BY <1>8 DEF RefundsOf
  <2>. QED BY <1>5, <1>8, <2>1, RefundRemoved
<1>9. ASSUME NEW u, u # t, ~(id \in DOMAIN pendingRefunds /\ pendingRefunds[id].token = u)
      PROVE  Refundable(u)' = Refundable(u)
  <2>1. id \notin RefundsOf(u) /\ RefundsOf(u)' = RefundsOf(u)
    BY <1>5, <1>9 DEF RefundsOf
  <2>. QED BY <1>5, <1>9, <2>1, RefundKept
<1>. QED BY <1>6, <1>7, <1>8, <1>9

\* A transfer is cancelled or reported to have failed.
LEMMA SettleFailed ==
  ASSUME BridgeInv, BridgeInv', FundsType, NEW key, NEW result, Settles(key, result),
         key \in Transfers, result # "Accepted"
  PROVE  /\ FundsType'
         /\ \E t \in BridgedTokens \cap DOMAIN params, v \in BridgedTokens : \E coin, over :
              \/ /\ Failed(t, coin, over)
                 /\ \A u \in BridgedTokens \ {t} : AccountKept(u) /\ BackingShrinks(u)
              \/ /\ t # v /\ Failed(t, coin, 0) /\ Overwritten(v, over)
                 /\ \A u \in BridgedTokens \ {t, v} : AccountKept(u) /\ BackingShrinks(u)
<1> DEFINE operation == pendingOperations[key]
           transfer == operation.operation_type
<1>1. /\ TransferRemoved(key) /\ key \notin executed /\ executed' = executed \ {key}
      /\ transfer.type = "CosmosToXRPLTransfer"
  BY DEF Settles, Transfers, PendingOfType
<1>2. PICK t, amounts, id : /\ t = transfer.token /\ amounts = transfer.amount
                            /\ id = <<transfer.sender, operation.id>>
  OBVIOUS
<1>3. /\ bank' = bank /\ lost' = LostWith(operation)
      /\ pendingRefunds' = Put(pendingRefunds, id, [token |-> t, amount |-> amounts])
  BY <1>1, <1>2 DEF Settles, SettleFunds, handle_cosmos_to_xrpl_transfer_confirmation
<1>4. Payable(params, t, amounts) /\ t \in DOMAIN params /\ t \in BridgedTokens
  BY <1>2 DEF BridgeInv, TransfersOK, Payable, ParamsOK
<1>5. SameDecimals(params, params')
  BY SettleFrame
<1>6. PICK coin : coin = CoinOf(params[t].decimals, t, amounts)
  OBVIOUS
<1>7. coin \in Nat \ {0}
  BY <1>4, <1>6 DEF Payable
<1>8. /\ InTransit(t) = InTransit(t)' + coin
      /\ UnconfirmedSpending(t)' = UnconfirmedSpending(t)
      /\ \A u : u # t => /\ InTransit(u)' = InTransit(u)
                         /\ UnconfirmedSpending(u)' = UnconfirmedSpending(u)
  BY <1>1, <1>2, <1>5, <1>6, EndTransfer
<1>9. \A u : BackingShrinks(u) /\ Held(u)' = Held(u) /\ FeesOwed(u)' = FeesOwed(u)
  BY <1>3, <1>8, SameBank, SettleFrame DEF BackingShrinks
<1>10. InTransit(t)' \in Nat /\ \A u : Refundable(u)' \in Nat /\ Refundable(u) \in Nat
  BY NumbersNext, Numbers DEF AllNumbers
<1> HIDE DEF operation
<1>11. CASE id \notin DOMAIN pendingRefunds
  <2>1. lost' = lost
    BY <1>2, <1>3, <1>11 DEF LostWith
  <2>2. Refundable(t)' = Refundable(t) + coin /\ \A u : u # t => Refundable(u)' = Refundable(u)
    BY <1>3, <1>4, <1>5, <1>6, <1>7, <1>11, StoreRefund
  <2>3. FundsType'
    BY <1>3, <2>1, SettleFrame DEF FundsType
  <2>4. lost'[t] = lost[t] + 0 /\ Refundable(t)' = Refundable(t) - 0 + coin
    BY <1>4, <1>7, <1>10, <2>1, <2>2 DEF FundsType
  <2>5. Failed(t, coin, 0)
    BY <1>7, <1>8, <1>9, <1>10, <2>4 DEF Failed
  <2>6. \A u \in BridgedTokens \ {t} : AccountKept(u) /\ BackingShrinks(u)
    BY <1>8, <1>9, <2>1, <2>2 DEF AccountKept
  <2>. QED BY <1>4, <2>3, <2>5, <2>6
<1>12. CASE id \in DOMAIN pendingRefunds
  <2>1. PICK v, other : v = pendingRefunds[id].token /\ other = pendingRefunds[id].amount
    OBVIOUS
  <2>2. Payable(params, v, other) /\ v \in DOMAIN params /\ v \in BridgedTokens
    BY <1>12, <2>1 DEF BridgeInv, RefundsOK, Payable, ParamsOK
  <2>3. PICK over : over = CoinOf(params[v].decimals, v, other)
    OBVIOUS
  <2>4. over \in Nat \ {0}
    BY <2>2, <2>3 DEF Payable
  <2>5. lost' = [lost EXCEPT ![v] = @ + over]
    BY <1>2, <1>3, <1>12, <2>1, <2>3 DEF LostWith, RefundCoin, CoinOf
  <2>6. /\ lost' \in [BridgedTokens -> Nat] /\ lost'[v] = lost[v] + over
        /\ \A u \in BridgedTokens \ {v} : lost'[u] = lost[u] /\ lost[u] \in Nat
    BY <2>2, <2>4, <2>5 DEF FundsType
  <2>7. FundsType'
    BY <1>3, <2>6, SettleFrame DEF FundsType
  <2>8. CASE v = t
    <3>1. /\ Refundable(t)' = Refundable(t) - over + coin
          /\ \A u : u # t => Refundable(u)' = Refundable(u)
      <4>1. /\ over = CoinOf(params[t].decimals, t, pendingRefunds[id].amount)
            /\ pendingRefunds[id].token = t /\ coin \in Nat
        BY <1>7, <2>1, <2>3, <2>8
      <4>2. Refundable(t)' = Refundable(t)
              - CoinOf(params[t].decimals, t, pendingRefunds[id].amount) + coin
        BY <1>3, <1>4, <1>5, <1>6, <1>12, <4>1, StoreRefund
      <4>3. \A u : u # t => Refundable(u)' = Refundable(u)
        BY <1>3, <1>4, <1>5, <1>6, <1>12, <4>1, StoreRefund
      <4>. QED BY <4>1, <4>2, <4>3
    <3>2. Failed(t, coin, over)
      BY <1>7, <1>8, <1>9, <1>10, <2>4, <2>6, <2>8, <3>1 DEF Failed
    <3>3. \A u \in BridgedTokens \ {t} : AccountKept(u) /\ BackingShrinks(u)
      BY <1>8, <1>9, <2>6, <2>8, <3>1 DEF AccountKept
    <3>. QED BY <1>4, <2>7, <3>2, <3>3
  <2>9. CASE v # t
    <3>1. /\ Refundable(t)' = Refundable(t) + coin
          /\ Refundable(v) = Refundable(v)' + over
          /\ \A u : u # t /\ u # v => Refundable(u)' = Refundable(u)
      BY <1>3, <1>4, <1>5, <1>6, <1>7, <1>12, <2>1, <2>3, <2>9, StoreRefund
    <3>2. lost'[t] = lost[t] + 0 /\ Refundable(t)' = Refundable(t) - 0 + coin
      BY <1>4, <1>7, <1>10, <2>6, <2>9, <3>1
    <3>3. Failed(t, coin, 0)
      BY <1>7, <1>8, <1>9, <1>10, <3>2 DEF Failed
    <3>4. Overwritten(v, over)
      BY <1>8, <1>9, <1>10, <2>4, <2>6, <2>9, <3>1 DEF Overwritten
    <3>5. \A u \in BridgedTokens \ {t, v} : AccountKept(u) /\ BackingShrinks(u)
      BY <1>8, <1>9, <2>6, <3>1 DEF AccountKept
    <3>. QED BY <1>4, <2>2, <2>7, <2>9, <3>3, <3>4, <3>5
  <2>. QED BY <2>8, <2>9
<1>. QED BY <1>11, <1>12

\* A sender takes a refund.
Repaid(t, coin) ==
  /\ coin \in Nat \ {0}
  /\ Refundable(t) = Refundable(t)' + coin /\ Refundable(t)' \in Nat
  /\ Held(t)' = Held(t) - coin
  /\ InTransit(t)' = InTransit(t) /\ FeesOwed(t)' = FeesOwed(t) /\ lost'[t] = lost[t]
  /\ BackingKept(t)

\* ClaimRefund does that to one token.
LEMMA RefundEffect ==
  ASSUME BridgeInv, BridgeInv', FundsType, NEW sender \in Addr, NEW id, BridgeClaimRefund(sender, id)
  PROVE  /\ FundsType' /\ UNCHANGED params
         /\ \E t \in BridgedTokens : \E coin :
              /\ Repaid(t, coin)
              /\ \A u \in BridgedTokens \ {t} : AccountKept(u) /\ BackingKept(u)
<1>1. PICK k : k = <<sender, id>>
  OBVIOUS
<1>2. /\ UNCHANGED <<params, feeVars, lost, ledger, deposits, executed>>
      /\ UNCHANGED <<pendingOperations, processedTxs>>
      /\ k \in DOMAIN pendingRefunds /\ pendingRefunds' = Without(pendingRefunds, k)
  BY <1>1 DEF BridgeClaimRefund, ClaimRefund, evidenceVars, xrplVars
<1>3. PICK t, amounts : t = pendingRefunds[k].token /\ amounts = pendingRefunds[k].amount
  OBVIOUS
<1>4. PICK coin : coin = CoinOf(params[t].decimals, t, amounts)
  OBVIOUS
<1>5. coin <= Held(t) /\ bank' = Pay(bank, t, ContractAddr, sender, coin)
  BY <1>1, <1>3, <1>4 DEF BridgeClaimRefund, RefundCoin, CoinOf
<1>6. Payable(params, t, amounts) /\ t \in BridgedTokens
  BY <1>2, <1>3 DEF BridgeInv, RefundsOK, Payable, ParamsOK
<1>7. coin \in Nat \ {0}
  BY <1>4, <1>6 DEF Payable
<1>8. SameDecimals(params, params') /\ TransfersKept
  BY <1>2 DEF SameDecimals, TransfersKept, Transfers, PendingOfType
<1>9. /\ DOMAIN pendingRefunds' = DOMAIN pendingRefunds \ {k}
      /\ \A i \in DOMAIN pendingRefunds \ {k} : pendingRefunds'[i] = pendingRefunds[i]
  BY <1>2 DEF Without, Restrict
<1>10. Refundable(t) = Refundable(t)' + coin
  <2>1. /\ k \in RefundsOf(t) /\ RefundsOf(t)' = RefundsOf(t) \ {k}
        /\ \A i \in RefundsOf(t) \ {k} : pendingRefunds'[i] = pendingRefunds[i]
    BY <1>2, <1>3, <1>9 DEF RefundsOf
  <2>. QED BY <1>3, <1>4, <1>8, <2>1, RefundRemoved
<1>11. \A u : u # t => Refundable(u)' = Refundable(u)
  <2>1. ASSUME NEW u, u # t
        PROVE  /\ RefundsOf(u)' = RefundsOf(u)
               /\ \A i \in RefundsOf(u) : pendingRefunds'[i] = pendingRefunds[i]
    BY <1>2, <1>3, <1>9, <2>1 DEF RefundsOf
  <2>. QED BY <1>8, <2>1, RefundKept
<1>12. /\ bank' \in BalancesType
       /\ \A u \in BridgedTokens \ {t} : bank'[u] = bank[u]
       /\ Held(t)' = Held(t) - coin
       /\ Supply(t)' = Supply(t)
  <2> DEFINE new == Pay(bank, t, ContractAddr, sender, coin)
  <2>1. /\ ContractAddr \in BankAccount /\ sender \in BankAccount /\ sender # ContractAddr
        /\ coin \in Nat /\ coin <= bank[t][ContractAddr] /\ bank' = new
    BY <1>5, <1>7, Accounts DEF Held
  <2>2. /\ new \in BalancesType
        /\ new[t][ContractAddr] = bank[t][ContractAddr] - coin
        /\ \A u \in BridgedTokens \ {t} : new[u] = bank[u]
        /\ Total(new, t) = Total(bank, t)
    BY <1>6, <2>1, PayEffect DEF FundsType
  <2> HIDE DEF new
  <2>. QED BY <2>1, <2>2 DEF Held, Supply, Total
<1>13. FundsType'
  BY <1>2, <1>12 DEF FundsType, FeesType, feeVars
<1>14. \A u : /\ FeesOwed(u)' = FeesOwed(u) /\ InTransit(u)' = InTransit(u)
              /\ UnconfirmedSpending(u)' = UnconfirmedSpending(u)
              /\ UncreditedDeposits(u)' = UncreditedDeposits(u)
  BY <1>2, <1>8, SameFees, SameTransfers, SameDeposits
<1>15. Refundable(t)' \in Nat
  BY NumbersNext
<1>16. Repaid(t, coin)
  BY <1>2, <1>7, <1>10, <1>12, <1>14, <1>15 DEF Repaid, BackingKept
<1>17. \A u \in BridgedTokens \ {t} : AccountKept(u) /\ BackingKept(u)
  BY <1>2, <1>11, <1>12, <1>14, SameBank DEF AccountKept, BackingKept
<1>. QED BY <1>2, <1>6, <1>13, <1>16, <1>17

\* A relayer is paid fees.
FeesPaid(t, paid) ==
  /\ paid \in Nat
  /\ FeesOwed(t)' = FeesOwed(t) - paid
  /\ Held(t)' = Held(t) - paid
  /\ InTransit(t)' = InTransit(t) /\ Refundable(t)' = Refundable(t) /\ lost'[t] = lost[t]
  /\ BackingKept(t)

\* ClaimRelayerFees does that to the tokens it names.
LEMMA ClaimEffect ==
  ASSUME BridgeInv, FundsType, NEW sender \in Addr, NEW amounts \in ClaimInputs,
         ClaimRelayerFees(sender, amounts)
  PROVE  /\ FundsType' /\ UNCHANGED params
         /\ \A t \in BridgedTokens : \E paid : FeesPaid(t, paid)
<1> DEFINE Paid(t) == IF t \in DOMAIN amounts THEN amounts[t] ELSE 0
           D == DOMAIN feesCollected
<1>1. /\ UNCHANGED <<pendingOperations, processedTxs, pendingRefunds, params, feeRemainders>>
      /\ UNCHANGED <<lost, ledger, deposits, executed>>
      /\ sender \in D /\ substract_relayer_fees(sender, amounts)
      /\ \A t \in DOMAIN amounts : amounts[t] <= Held(t)
      /\ bank' = [t \in BridgedTokens |-> IF t \in DOMAIN amounts
                              THEN Pay(bank, t, ContractAddr, sender, amounts[t])[t]
                              ELSE bank[t]]
  BY DEF ClaimRelayerFees, vars, evidenceVars, xrplVars
<1>2. DOMAIN amounts \subseteq BridgedTokens /\ \A t \in DOMAIN amounts : amounts[t] \in Nat
  BY AmountAssumption
<1>3. \A t \in BridgedTokens : Paid(t) \in Nat
  BY <1>2
<1>4. SameDecimals(params, params') /\ TransfersKept
  BY <1>1 DEF SameDecimals, TransfersKept, Transfers, PendingOfType
<1>5. /\ DOMAIN feesCollected' = D
      /\ \A a \in D \ {sender} : feesCollected'[a] = feesCollected[a]
      /\ feesCollected'[sender] =
           [t \in BridgedTokens |-> feesCollected[sender][t] - Paid(t)]
      /\ \A t \in BridgedTokens : Paid(t) <= feesCollected[sender][t]
  <2>1. feesCollected \in [D -> [BridgedTokens -> Nat]]
    BY DEF FundsType, FeesType
  <2>2. /\ \A t \in DOMAIN amounts : feesCollected[sender][t] >= amounts[t]
        /\ feesCollected' = [feesCollected EXCEPT ![sender] =
              [t \in BridgedTokens |-> IF t \in DOMAIN amounts
                                       THEN feesCollected[sender][t] - amounts[t]
                                       ELSE feesCollected[sender][t]]]
    BY <1>1 DEF substract_relayer_fees
  <2>3. \A t \in BridgedTokens : feesCollected[sender][t] \in Nat
    BY <1>1, <2>1
  <2>4. [t \in BridgedTokens |-> IF t \in DOMAIN amounts
                                 THEN feesCollected[sender][t] - amounts[t]
                                 ELSE feesCollected[sender][t]]
          = [t \in BridgedTokens |-> feesCollected[sender][t] - Paid(t)]
    BY <2>3
  <2>5. \A t \in BridgedTokens : Paid(t) <= feesCollected[sender][t]
    BY <2>2, <2>3
  <2>. QED BY <1>1, <2>2, <2>4, <2>5
<1> HIDE DEF Paid
<1>6. /\ feesCollected' \in [D -> [BridgedTokens -> Nat]] /\ D \subseteq Addr
      /\ feesCollected \in [D -> [BridgedTokens -> Nat]]
      /\ \A t \in BridgedTokens : feesCollected[sender][t] \in Nat
  <2>1. feesCollected \in [D -> [BridgedTokens -> Nat]] /\ D \subseteq Addr
    BY DEF FundsType, FeesType
  <2>2. feesCollected'[sender] \in [BridgedTokens -> Nat]
    <3>1. \A t \in BridgedTokens : feesCollected[sender][t] - Paid(t) \in Nat
      BY <1>1, <1>3, <1>5, <2>1
    <3>. QED BY <1>5, <3>1
  <2>3. feesCollected' \in [D -> [BridgedTokens -> Nat]]
    <3>1. feesCollected' = [a \in D |-> feesCollected'[a]]
      BY <1>1, <2>1 DEF substract_relayer_fees
    <3>2. \A a \in D : feesCollected'[a] \in [BridgedTokens -> Nat]
      BY <1>5, <2>1, <2>2
    <3>. QED BY <3>1, <3>2
  <2>. QED BY <1>1, <2>1, <2>3
<1>7. ASSUME NEW t \in BridgedTokens
      PROVE  FeesOwed(t)' = FeesOwed(t) - Paid(t)
  <2> DEFINE f == Earned(feesCollected, t)
             g == Earned(feesCollected', t)
  <2>1. AddsUp(f)
    BY <1>6, FeesAddUp
  <2>2. /\ sender \in DOMAIN f /\ DOMAIN g = DOMAIN f
        /\ \A a \in DOMAIN f \ {sender} : g[a] = f[a]
        /\ f[sender] = feesCollected[sender][t]
        /\ g[sender] = f[sender] - Paid(t)
    BY <1>1, <1>5 DEF Earned
  <2>3. f[sender] \in Nat /\ g[sender] \in Nat
    BY <1>3, <1>5, <1>6, <2>2
  <2>4. FeesOwed(t) = feeRemainders[t] + SumFunction(f) /\ feeRemainders[t] \in Nat
    BY FeesOwedIs DEF FundsType, FeesType
  <2>5. FeesOwed(t)' = feeRemainders[t] + SumFunction(g)
    BY <1>1 DEF FeesOwed, Earned
  <2> HIDE DEF f, g
  <2>6. SumFunction(g) = SumFunction(f) - f[sender] + g[sender] /\ SumFunction(f) \in Nat
    BY <2>1, <2>2, <2>3, TotalChange, TotalNat
  <2>. QED BY <1>3, <2>2, <2>3, <2>4, <2>5, <2>6
<1>8. ASSUME NEW t \in BridgedTokens
      PROVE  /\ bank'[t] \in [BankAccount -> Nat]
             /\ Held(t)' = Held(t) - Paid(t) /\ Supply(t)' = Supply(t)
  <2>1. CASE t \notin DOMAIN amounts
    <3>1. bank'[t] = bank[t] /\ Paid(t) = 0
      BY <1>1, <2>1 DEF Paid
    <3>2. bank[t] \in [BankAccount -> Nat] /\ Held(t) \in Nat
      BY Accounts DEF FundsType, BalancesType, Held
    <3>. QED BY <3>1, <3>2, SameBank
  <2>2. CASE t \in DOMAIN amounts
    <3> DEFINE new == Pay(bank, t, ContractAddr, sender, amounts[t])
    <3>1. /\ ContractAddr \in BankAccount /\ sender \in BankAccount /\ sender # ContractAddr
          /\ amounts[t] \in Nat /\ amounts[t] <= bank[t][ContractAddr] /\ bank'[t] = new[t]
          /\ Paid(t) = amounts[t]
      BY <1>1, <1>2, <2>2, Accounts DEF Held, Paid
    <3>2. /\ new \in BalancesType
          /\ new[t][ContractAddr] = bank[t][ContractAddr] - amounts[t]
          /\ Total(new, t) = Total(bank, t)
      BY <3>1, PayEffect DEF FundsType
    <3> HIDE DEF new
    <3>. QED BY <3>1, <3>2 DEF Held, Supply, Total, BalancesType
  <2>. QED BY <2>1, <2>2
<1>9. bank' \in BalancesType
  <2>1. bank' = [t \in BridgedTokens |-> bank'[t]]
    BY <1>1
  <2>. QED BY <1>8, <2>1 DEF BalancesType
<1>10. FundsType'
  BY <1>1, <1>5, <1>6, <1>9 DEF FundsType, FeesType
<1>11. \A t : /\ InTransit(t)' = InTransit(t) /\ Refundable(t)' = Refundable(t)
              /\ UnconfirmedSpending(t)' = UnconfirmedSpending(t)
              /\ UncreditedDeposits(t)' = UncreditedDeposits(t)
  BY <1>1, <1>4, SameTransfers, SameRefunds, SameDeposits
<1>12. \A t \in BridgedTokens : FeesPaid(t, Paid(t))
  BY <1>1, <1>3, <1>7, <1>8, <1>11 DEF FeesPaid, BackingKept
<1>. QED BY <1>1, <1>10, <1>12

\* MintCosmosToken mints for somebody else a token that the bridge does not represent.
LEMMA MintingEffect ==
  ASSUME BridgeInv, FundsType, NEW sender, NEW mint \in MintInputs, MintCosmosToken(sender, mint)
  PROVE  /\ FundsType' /\ UNCHANGED params
         /\ \A u \in BridgedTokens : AccountKept(u) /\ BackingShrinks(u)
<1>1. PICK t, to, amount : t = mint.token /\ to = mint.address /\ amount = mint.amount
  OBVIOUS
<1>2. /\ UNCHANGED <<params, feeVars, lost, ledger, deposits, executed>>
      /\ UNCHANGED <<pendingOperations, processedTxs, pendingRefunds>>
      /\ bank' = Mint(bank, t, to, amount)
  BY <1>1 DEF MintCosmosToken, vars, evidenceVars, xrplVars
<1>3. /\ t \in BridgedTokens /\ ~IsIssued(t)
      /\ to \in BankAccount /\ to # ContractAddr /\ ContractAddr \in BankAccount
      /\ amount \in Nat
  <2>1. t \in {BridgeXRPLAddress} \X CosmosDenom /\ to \in Addr /\ amount \in Nat
    BY <1>1, AmountAssumption
  <2>. QED BY <2>1, Accounts DEF BridgedTokens, IsIssued
<1>4. /\ bank' \in BalancesType
      /\ \A b \in BankAccount \ {to} : bank'[t][b] = bank[t][b]
      /\ \A u \in BridgedTokens \ {t} : bank'[u] = bank[u]
  <2> DEFINE new == Mint(bank, t, to, amount)
  <2>1. /\ new \in BalancesType
        /\ \A b \in BankAccount \ {to} : new[t][b] = bank[t][b]
        /\ \A u \in BridgedTokens \ {t} : new[u] = bank[u]
    BY <1>3, MintEffect DEF FundsType
  <2>. QED BY <1>2, <2>1
<1>5. SameDecimals(params, params') /\ TransfersKept
  BY <1>2 DEF SameDecimals, TransfersKept, Transfers, PendingOfType
<1>6. ASSUME NEW u \in BridgedTokens
      PROVE  Held(u)' = Held(u) /\ (IsIssued(u) => Supply(u)' = Supply(u))
  <2>1. CASE u = t
    BY <1>3, <1>4, <2>1 DEF Held
  <2>2. CASE u # t
    BY <1>4, <2>2, SameBank
  <2>. QED BY <2>1, <2>2
<1>7. FundsType'
  BY <1>2, <1>4 DEF FundsType, FeesType, feeVars
<1>8. \A u : /\ FeesOwed(u)' = FeesOwed(u) /\ InTransit(u)' = InTransit(u)
             /\ Refundable(u)' = Refundable(u)
             /\ UnconfirmedSpending(u)' = UnconfirmedSpending(u)
             /\ UncreditedDeposits(u)' <= UncreditedDeposits(u)
             /\ UncreditedDeposits(u)' \in Nat
  <2>1. \A u : UncreditedDeposits(u)' = UncreditedDeposits(u) /\ UncreditedDeposits(u) \in Nat
    BY <1>2, SameDeposits, DepositFacts
  <2>2. \A u : /\ UncreditedDeposits(u)' <= UncreditedDeposits(u)
               /\ UncreditedDeposits(u)' \in Nat
    BY <2>1
  <2>. QED BY <1>2, <1>5, <2>2, SameFees, SameTransfers, SameRefunds
<1>. QED BY <1>2, <1>6, <1>7, <1>8 DEF AccountKept, BackingShrinks

\* Registrations and updates move no coins.
LEMMA ParamsEffect ==
  ASSUME BridgeInv, FundsType, SameDecimals(params, params'), TransfersKept,
         UNCHANGED <<bank, feeVars, lost, xrplVars, processedTxs, pendingRefunds>>
  PROVE  FundsType' /\ \A u \in BridgedTokens : AccountKept(u) /\ BackingKept(u)
<1>1. UNCHANGED <<ledger, deposits, executed>>
  BY DEF xrplVars
<1>2. FundsType'
  BY <1>1 DEF FundsType, FeesType, feeVars
<1>3. \A u : bank'[u] = bank[u]
  OBVIOUS
<1>. QED BY <1>1, <1>2, <1>3, SameBank, SameFees, SameRefunds, SameTransfers, SameDeposits
         DEF AccountKept, BackingKept

\* A transaction of the XRPL pays the multisig account.
Deposited(t, amount) ==
  /\ amount \in Nat
  /\ AccountKept(t)
  /\ Supply(t)' = Supply(t) /\ UnconfirmedSpending(t)' = UnconfirmedSpending(t)
  /\ UncreditedDeposits(t)' <= UncreditedDeposits(t) + amount /\ UncreditedDeposits(t)' \in Nat
  /\ IF IsIssued(t) THEN ledger'[t] = ledger[t] + amount
     ELSE amount <= ledger[t] /\ ledger'[t] = ledger[t] - amount

\* That happens to one token.
LEMMA DepositEffect ==
  ASSUME BridgeInv, FundsType, NEW e \in TransferInputs, XRPLDeposit(e)
  PROVE  /\ FundsType' /\ UNCHANGED params
         /\ e.token \in BridgedTokens => Deposited(e.token, e.amount)
         /\ \A u \in BridgedTokens \ {e.token} : AccountKept(u) /\ BackingKept(u)
<1> DEFINE t == e.token
<1>1. /\ UNCHANGED <<params, feeVars, lost, executed, bank>>
      /\ UNCHANGED <<pendingOperations, processedTxs, pendingRefunds>>
      /\ deposits' = deposits \cup {e}
      /\ e.tx_hash = get_tx_hash(e) /\ \A d \in deposits : d.tx_hash # e.tx_hash
      /\ IF IsIssued(t) THEN ledger' = [ledger EXCEPT ![t] = @ + e.amount]
         ELSE e.amount <= ledger[t] /\ ledger' = [ledger EXCEPT ![t] = @ - e.amount]
  BY DEF XRPLDeposit, get_tx_hash, vars, evidenceVars
<1>2. e.amount \in Nat
  <2>1. e \in Evidence /\ e.kind = "XRPLToCosmosTransfer"
    BY InputAssumption DEF TransferInputs
  <2>2. e \in TransferEvidence
    BY <2>1 DEF Evidence, ResultEvidence
  <2>. QED BY <2>2, AmountAssumption DEF TransferEvidence
<1>3. SameDecimals(params, params') /\ TransfersKept
  BY <1>1 DEF SameDecimals, TransfersKept, Transfers, PendingOfType
<1> HIDE DEF t
<1>4. /\ ledger' \in [BridgedTokens -> Nat]
      /\ \A u \in BridgedTokens \ {t} : ledger'[u] = ledger[u]
      /\ t \in BridgedTokens => IF IsIssued(t) THEN ledger'[t] = ledger[t] + e.amount
                                ELSE e.amount <= ledger[t] /\ ledger'[t] = ledger[t] - e.amount
  BY <1>1, <1>2 DEF FundsType
<1>5. FundsType'
  BY <1>1, <1>4 DEF FundsType, FeesType, feeVars
<1>6. \A u : bank'[u] = bank[u]
  BY <1>1
<1>7. \A u : /\ Held(u)' = Held(u) /\ Supply(u)' = Supply(u) /\ FeesOwed(u)' = FeesOwed(u)
             /\ InTransit(u)' = InTransit(u) /\ Refundable(u)' = Refundable(u)
             /\ UnconfirmedSpending(u)' = UnconfirmedSpending(u)
  BY <1>1, <1>3, <1>6, SameBank, SameFees, SameTransfers, SameRefunds
<1>8. ASSUME NEW u, u # t PROVE UncreditedDeposits(u)' = UncreditedDeposits(u)
  <2>1. Uncredited(u)' = Uncredited(u)
    BY <1>1, <1>8 DEF Uncredited, get_tx_hash, t
  <2>. QED BY <2>1, DepositsShrink
<1>9. /\ UncreditedDeposits(t)' <= UncreditedDeposits(t) + e.amount
      /\ UncreditedDeposits(t)' \in Nat
  <2>1. UncreditedDeposits(t) \in Nat
    BY DepositFacts
  <2>2. CASE get_tx_hash(e) \in processedTxs
    <3>1. Uncredited(t)' = Uncredited(t)
      BY <1>1, <2>2 DEF Uncredited, get_tx_hash
    <3>2. UncreditedDeposits(t)' = UncreditedDeposits(t)
      BY <3>1, DepositsShrink
    <3>. QED BY <1>2, <2>1, <3>2
  <2>3. CASE get_tx_hash(e) \notin processedTxs
    <3>1. e \notin Uncredited(t) /\ Uncredited(t)' = Uncredited(t) \cup {e}
      BY <1>1, <2>3 DEF Uncredited, get_tx_hash, t
    <3>2. UncreditedDeposits(t)' = UncreditedDeposits(t) + e.amount
      BY <1>2, <3>1, DepositAdded
    <3>. QED BY <1>2, <2>1, <3>2
  <2>. QED BY <2>2, <2>3
<1>10. t \in BridgedTokens => Deposited(t, e.amount)
  BY <1>1, <1>2, <1>4, <1>7, <1>9 DEF Deposited, AccountKept
<1>11. \A u \in BridgedTokens \ {t} : AccountKept(u) /\ BackingKept(u)
  BY <1>1, <1>4, <1>7, <1>8 DEF AccountKept, BackingKept
<1>. QED BY <1>1, <1>5, <1>10, <1>11 DEF t

\* The XRPL executes a transfer.  The multisig account spends no more of an XRPL token than
\* the sender paid; a Cosmos token leaves transit for the XRPL.
Executes(t, sent, spent) ==
  /\ sent \in Nat /\ spent \in Nat /\ spent <= sent
  /\ Held(t)' = Held(t) /\ Refundable(t)' = Refundable(t) /\ FeesOwed(t)' = FeesOwed(t)
  /\ lost'[t] = lost[t] /\ Supply(t)' = Supply(t)
  /\ UncreditedDeposits(t)' = UncreditedDeposits(t)
  /\ UnconfirmedSpending(t)' = UnconfirmedSpending(t) + sent
  /\ IF IsIssued(t)
     THEN /\ InTransit(t)' = InTransit(t)
          /\ spent <= ledger[t] /\ ledger'[t] = ledger[t] - spent
     ELSE /\ Exact(params[t].decimals, spent) /\ Convert(params[t].decimals, spent) \in Nat \ {0}
          /\ InTransit(t) = InTransit(t)' + Convert(params[t].decimals, spent)
          /\ InTransit(t)' \in Nat
          /\ ledger'[t] = ledger[t] + spent

\* That happens to one token.
LEMMA ExecuteEffect ==
  ASSUME BridgeInv, BridgeInv', FundsType, NEW key \in DOMAIN pendingOperations, XRPLExecute(key)
  PROVE  /\ FundsType' /\ UNCHANGED params
         /\ \E t \in BridgedTokens \cap DOMAIN params : \E sent, spent :
              /\ Executes(t, sent, spent)
              /\ \A u \in BridgedTokens \ {t} : AccountKept(u) /\ BackingKept(u)
<1> DEFINE transfer == pendingOperations[key].operation_type
<1>1. PICK t, amounts : t = transfer.token /\ amounts = transfer.amount
  OBVIOUS
<1>2. /\ UNCHANGED <<params, feeVars, lost, deposits, bank>>
      /\ UNCHANGED <<pendingOperations, processedTxs, pendingRefunds>>
      /\ executed' = executed \cup {key} /\ key \notin executed /\ key \in Transfers
      /\ \E spent \in {amounts.amount, AmountSent(amounts)} :
           IF IsIssued(t)
           THEN spent <= ledger[t] /\ ledger' = [ledger EXCEPT ![t] = @ - spent]
           ELSE ledger' = [ledger EXCEPT ![t] = @ + spent]
  BY <1>1 DEF XRPLExecute, vars, evidenceVars, IsTransfer, Transfers, PendingOfType
<1>3. PICK spent \in {amounts.amount, AmountSent(amounts)} :
           IF IsIssued(t)
           THEN spent <= ledger[t] /\ ledger' = [ledger EXCEPT ![t] = @ - spent]
           ELSE ledger' = [ledger EXCEPT ![t] = @ + spent]
  BY <1>2
<1>4. PICK sent : sent = AmountSent(amounts)
  OBVIOUS
<1>5. Payable(params, t, amounts) /\ t \in DOMAIN params /\ t \in BridgedTokens
  BY <1>1, <1>2 DEF BridgeInv, TransfersOK, Payable, ParamsOK
<1>6. sent \in Nat /\ spent \in Nat /\ spent <= sent
  BY <1>3, <1>4, <1>5, AmountTyped DEF Payable
<1>7. SameDecimals(params, params')
  BY <1>2 DEF SameDecimals
<1>8. /\ ledger' \in [BridgedTokens -> Nat]
      /\ \A u \in BridgedTokens \ {t} : ledger'[u] = ledger[u]
      /\ IF IsIssued(t) THEN spent <= ledger[t] /\ ledger'[t] = ledger[t] - spent
         ELSE ledger'[t] = ledger[t] + spent
  BY <1>3, <1>5, <1>6 DEF FundsType
<1>9. FundsType'
  BY <1>2, <1>8 DEF FundsType, FeesType, feeVars
<1>10. \A u : bank'[u] = bank[u]
  BY <1>2
<1>11. \A u : /\ Held(u)' = Held(u) /\ Supply(u)' = Supply(u) /\ FeesOwed(u)' = FeesOwed(u)
              /\ Refundable(u)' = Refundable(u)
              /\ UncreditedDeposits(u)' = UncreditedDeposits(u)
  BY <1>2, <1>7, <1>10, SameBank, SameFees, SameRefunds, SameDeposits
<1>12. /\ UnconfirmedSpending(t)' = UnconfirmedSpending(t) + sent
       /\ \A u : u # t => UnconfirmedSpending(u)' = UnconfirmedSpending(u)
  <2>1. /\ key \notin Unconfirmed(t) /\ Unconfirmed(t)' = Unconfirmed(t) \cup {key}
        /\ \A u : u # t => Unconfirmed(u)' = Unconfirmed(u)
    BY <1>1, <1>2 DEF Unconfirmed
  <2>2. sent = AmountSent(pendingOperations'[key].operation_type.amount)
    BY <1>1, <1>2, <1>4
  <2>. QED BY <1>2, <1>6, <2>1, <2>2, SpendingAdded, SpendingKept
<1>13. ASSUME NEW u
       PROVE  /\ IF u = t /\ ~IsIssued(t)
                 THEN key \in TransfersInTransit(u) ELSE TransfersInTransit(u)' = TransfersInTransit(u)
              /\ u = t /\ ~IsIssued(t) => TransfersInTransit(u)' = TransfersInTransit(u) \ {key}
  <2> DEFINE In(ex) == {i \in Transfers : /\ pendingOperations[i].operation_type.token = u
                                          /\ IsIssued(u) \/ i \notin ex}
  <2>1. TransfersInTransit(u) = In(executed)
    BY TransitFacts
  <2>2. Transfers' = Transfers
    BY <1>2 DEF Transfers, PendingOfType
  <2>3. TransfersInTransit(u)' = In(executed \cup {key})
    BY <1>2, <2>2, TransitNext
  <2>. QED BY <1>1, <1>2, <2>1, <2>3
<1>14. \A u : u # t \/ IsIssued(t) => InTransit(u)' = InTransit(u)
  BY <1>2, <1>7, <1>13, TransitKept
<1>15. ASSUME ~IsIssued(t)
       PROVE  /\ Exact(params[t].decimals, spent)
              /\ Convert(params[t].decimals, spent) \in Nat \ {0}
              /\ InTransit(t) = InTransit(t)' + Convert(params[t].decimals, spent)
  <2>1. spent = amounts.max_amount
    <3>1. t # XRP
      BY <1>15, IdentityAssumption DEF IsIssued
    <3>. QED BY <1>3, <1>5, <1>15, <3>1 DEF Payable, AmountSent
  <2>2. /\ Exact(params[t].decimals, spent)
        /\ CoinOf(params[t].decimals, t, amounts) = Convert(params[t].decimals, spent)
        /\ CoinOf(params[t].decimals, t, amounts) \in Nat \ {0}
    BY <1>5, <1>15, <2>1 DEF Payable, CoinOf, Convert
  <2>3. InTransit(t) = InTransit(t)' + CoinOf(params[t].decimals, t, amounts)
    BY <1>1, <1>2, <1>7, <1>13, <1>15, TransitRemoved
  <2>. QED BY <2>2, <2>3
<1>16. InTransit(t)' \in Nat
  BY NumbersNext
<1>17. Executes(t, sent, spent)
  BY <1>2, <1>6, <1>8, <1>11, <1>12, <1>14, <1>15, <1>16 DEF Executes
<1>18. \A u \in BridgedTokens \ {t} : AccountKept(u) /\ BackingKept(u)
  BY <1>2, <1>8, <1>11, <1>12, <1>14 DEF AccountKept, BackingKept
<1>. QED BY <1>2, <1>5, <1>9, <1>17, <1>18

-----------------------------------------------------------------------------
\* What holds of every token

\* The parts of the balance are covered, and an XRPL token is held only as it is owed.
Covered(t) == Escrow(t) >= 0 /\ (IsIssued(t) => Escrow(t) = 0)

\* What one chain represents the other holds.
Backed(t) ==
  IF IsIssued(t)
  THEN Supply(t) + UncreditedDeposits(t) <= ledger[t] + UnconfirmedSpending(t)
  ELSE t \in DOMAIN params =>
         Convert(params[t].decimals, ledger[t] + UncreditedDeposits(t)) <= Escrow(t)

\* There is no more than the limit of it, and nothing before it is registered.
Limited(t) ==
  IF t \in DOMAIN params
  THEN (IF IsIssued(t) THEN Supply(t) ELSE Held(t)) <= params[t].max_holding_amount
  ELSE IF IsIssued(t) THEN Supply(t) = 0
       ELSE Held(t) = 0 /\ ledger[t] + UncreditedDeposits(t) = 0

Accounted(t) == Covered(t) /\ Backed(t) /\ Limited(t)

FundsInv ==
  /\ BridgeInv
  /\ FundsType
  /\ \A t \in BridgedTokens : Accounted(t)

FundNumbers ==
  \A t \in BridgedTokens : /\ Held(t) \in Nat /\ Supply(t) \in Nat /\ Held(t) <= Supply(t)
                           /\ FeesOwed(t) \in Nat /\ lost[t] \in Nat /\ ledger[t] \in Nat

\* The amounts are numbers,
LEMMA FundsAreNumbers == FundsType => FundNumbers
<1> SUFFICES ASSUME FundsType, NEW t \in BridgedTokens
             PROVE  /\ Held(t) \in Nat /\ Supply(t) \in Nat /\ Held(t) <= Supply(t)
                    /\ FeesOwed(t) \in Nat /\ lost[t] \in Nat /\ ledger[t] \in Nat
  BY DEF FundNumbers
<1> DEFINE f == bank[t]
<1>1. \A a \in BankAccount : f[a] \in Nat
  BY DEF FundsType, BalancesType
<1>2. Held(t) = f[ContractAddr] /\ Supply(t) = SumFunctionOnSet(f, BankAccount)
  BY DEF Held, Supply
<1> HIDE DEF f
<1>3. Held(t) \in Nat /\ Supply(t) \in Nat /\ Held(t) <= Supply(t)
  BY <1>1, <1>2, Accounts, SumNat, SumBounds
<1>4. SumFunction(Earned(feesCollected, t)) \in Nat
  BY FeesAddUp, TotalNat DEF FundsType, FeesType
<1>. QED BY <1>3, <1>4, FeesOwedIs DEF FundsType, FeesType

\* and so they are in the next state.
LEMMA FundsAreNumbersNext ==
  FundsType' =>
    \A t \in BridgedTokens : /\ Held(t)' \in Nat /\ Supply(t)' \in Nat /\ Held(t)' <= Supply(t)'
                             /\ FeesOwed(t)' \in Nat /\ lost'[t] \in Nat /\ ledger'[t] \in Nat
<1>1. FundsType' => FundNumbers'
  BY FundsAreNumbers, PTL
<1>. QED BY <1>1 DEF FundNumbers

\* The amounts of both states of a step
LEMMA StepNumbers ==
  ASSUME BridgeInv, BridgeInv', FundsType, FundsType', NEW t \in BridgedTokens
  PROVE  /\ Held(t) \in Nat /\ Supply(t) \in Nat /\ FeesOwed(t) \in Nat
         /\ lost[t] \in Nat /\ ledger[t] \in Nat
         /\ InTransit(t) \in Nat /\ Refundable(t) \in Nat
         /\ UncreditedDeposits(t) \in Nat /\ UnconfirmedSpending(t) \in Nat
         /\ Held(t)' \in Nat /\ Supply(t)' \in Nat /\ FeesOwed(t)' \in Nat
         /\ lost'[t] \in Nat /\ ledger'[t] \in Nat
         /\ InTransit(t)' \in Nat /\ Refundable(t)' \in Nat
         /\ UncreditedDeposits(t)' \in Nat /\ UnconfirmedSpending(t)' \in Nat
  BY Numbers, NumbersNext, FundsAreNumbers, FundsAreNumbersNext DEF AllNumbers, FundNumbers

\* Conversion to the decimals of a Cosmos token
LEMMA ConvertFacts ==
  ASSUME ParamsOK, NEW t \in DOMAIN params, ~IsIssued(t), NEW a \in Nat, NEW b \in Nat,
         NEW d, d = params[t].decimals
  PROVE  /\ Convert(d, a) \in Nat /\ Convert(d, b) \in Nat /\ Convert(d, a + b) \in Nat
         /\ Convert(d, a) + Convert(d, b) <= Convert(d, a + b)
         /\ Exact(d, b) => Convert(d, a + b) = Convert(d, a) + Convert(d, b)
         /\ Convert(d, 0) = 0
<1>1. LegalPrecision(params[t].sending_precision, d) /\ d <= MAX_COSMOS_TOKEN_DECIMALS
  BY TokenLegal
<1>2. ASSUME NEW m \in Nat, NEW n \in Nat
      PROVE  /\ Convert(d, m) \in Nat
             /\ Convert(d, m) + Convert(d, n) <= Convert(d, m + n)
             /\ Exact(d, n) => Convert(d, m + n) = Convert(d, m) + Convert(d, n)
  <2> DEFINE p == params[t].sending_precision
  <2>1. LegalPrecision(p, d)
    BY <1>1
  <2> HIDE DEF p
  <2>. QED BY <1>1, <2>1, ConvertSum DEF Convert
<1>3. Convert(d, 0) = 0
  <2>1. Convert(d, 0) \in Nat /\ Convert(d, 0) + Convert(d, 0) <= Convert(d, 0 + 0)
    BY <1>2
  <2>2. 0 + 0 = 0
    OBVIOUS
  <2>. QED BY <2>1, <2>2
<1>. QED BY <1>2, <1>3

\* A token stays in order when coins only move between the parts of its balance or to
\* those they are owed to, and when deposits are given up.
LEMMA AccountedEscrow ==
  ASSUME FundsInv, BridgeInv', FundsType', UNCHANGED params, NEW t \in BridgedTokens,
         Escrow(t)' = Escrow(t), Held(t)' <= Held(t), BackingShrinks(t)
  PROVE  Accounted(t)'
<1>1. Accounted(t) /\ ParamsOK /\ BridgeInv /\ FundsType
  BY DEF FundsInv, BridgeInv
<1>2. Held(t) \in Nat /\ Held(t)' \in Nat
  BY <1>1, StepNumbers
<1>3. Covered(t)'
  BY <1>1 DEF Accounted, Covered
<1>4. CASE IsIssued(t)
  <2>1. /\ UncreditedDeposits(t) \in Nat /\ UncreditedDeposits(t)' \in Nat
        /\ UncreditedDeposits(t)' <= UncreditedDeposits(t)
        /\ Supply(t)' = Supply(t) /\ Supply(t) \in Nat /\ ledger'[t] = ledger[t]
        /\ ledger[t] \in Nat
        /\ UnconfirmedSpending(t)' = UnconfirmedSpending(t) /\ UnconfirmedSpending(t) \in Nat
    BY <1>1, <1>4, StepNumbers DEF BackingShrinks
  <2>2. Backed(t)'
    BY <1>1, <1>4, <2>1 DEF Accounted, Backed
  <2>3. Limited(t)'
    BY <1>1, <1>4, <2>1 DEF Accounted, Limited
  <2>. QED BY <1>3, <2>2, <2>3 DEF Accounted
<1>5. CASE ~IsIssued(t)
  <2>1. PICK old, new, rest, d :
          /\ old = ledger[t] + UncreditedDeposits(t) /\ new = ledger[t] + UncreditedDeposits(t)'
          /\ rest = UncreditedDeposits(t) - UncreditedDeposits(t)' /\ d = params[t].decimals
    OBVIOUS
  <2>2. /\ UncreditedDeposits(t) \in Nat /\ UncreditedDeposits(t)' \in Nat
        /\ UncreditedDeposits(t)' <= UncreditedDeposits(t)
        /\ ledger'[t] = ledger[t] /\ ledger[t] \in Nat
    BY <1>1, StepNumbers DEF BackingShrinks
  <2>3. old \in Nat /\ new \in Nat /\ rest \in Nat /\ old = new + rest
    BY <2>1, <2>2
  <2>4. Backed(t)'
    <3>1. SUFFICES ASSUME t \in DOMAIN params PROVE Convert(d, new) <= Escrow(t)
      BY <1>5, <2>1, <2>2 DEF Backed
    <3>2. Convert(d, old) <= Escrow(t)
      BY <1>1, <1>5, <2>1, <3>1 DEF Accounted, Backed
    <3>3. /\ Convert(d, new) \in Nat /\ Convert(d, rest) \in Nat /\ Convert(d, old) \in Nat
          /\ Convert(d, new) + Convert(d, rest) <= Convert(d, old)
      BY <1>1, <1>5, <2>1, <2>3, <3>1, ConvertFacts
    <3>4. Escrow(t) \in Int
      BY <1>1, StepNumbers DEF Escrow
    <3>. QED BY <3>2, <3>3, <3>4
  <2>5. Limited(t)'
    <3>1. CASE t \in DOMAIN params
      <4>1. params[t].max_holding_amount \in Nat /\ Held(t) <= params[t].max_holding_amount
        BY <1>1, <1>5, <3>1, TokenLegal DEF Accounted, Limited
      <4>2. Held(t)' <= params[t].max_holding_amount
        BY <1>2, <4>1
      <4>. QED BY <1>5, <3>1, <4>2 DEF Limited
    <3>2. CASE t \notin DOMAIN params
      <4>1. Held(t) = 0 /\ ledger[t] + UncreditedDeposits(t) = 0
        BY <1>1, <1>5, <3>2 DEF Accounted, Limited
      <4>2. Held(t)' = 0 /\ ledger'[t] + UncreditedDeposits(t)' = 0
        BY <1>2, <2>2, <4>1
      <4>. QED BY <1>5, <3>2, <4>2 DEF Limited
    <3>. QED BY <3>1, <3>2
  <2>. QED BY <1>3, <2>4, <2>5 DEF Accounted
<1>. QED BY <1>4, <1>5

\* In particular when its amounts stay the same, but for deposits that are given up,
LEMMA AccountedKept ==
  ASSUME FundsInv, BridgeInv', FundsType', UNCHANGED params, NEW t \in BridgedTokens,
         AccountKept(t), BackingShrinks(t)
  PROVE  Accounted(t)'
<1>1. Held(t)' <= Held(t)
  BY StepNumbers DEF AccountKept, FundsInv
<1>2. Escrow(t)' = Escrow(t)
  BY DEF AccountKept, Escrow
<1>. QED BY <1>1, <1>2, AccountedEscrow

\* What stays the same does not grow.
LEMMA KeptShrinks ==
  ASSUME BridgeInv, NEW t, BackingKept(t)
  PROVE  BackingShrinks(t)
<1>1. UncreditedDeposits(t) \in Nat
  BY DepositFacts
<1>2. UncreditedDeposits(t)' <= UncreditedDeposits(t) /\ UncreditedDeposits(t)' \in Nat
  BY <1>1 DEF BackingKept
<1>. QED BY <1>2 DEF BackingKept, BackingShrinks

\* or when they all stay the same.
LEMMA AccountedSame ==
  ASSUME FundsInv, BridgeInv', FundsType', UNCHANGED params, NEW t \in BridgedTokens,
         AccountKept(t), BackingKept(t)
  PROVE  Accounted(t)'
  BY KeptShrinks, AccountedKept DEF FundsInv

\* A token of which a deposit is paid out stays in order.
LEMMA AccountedCredited ==
  ASSUME FundsInv, BridgeInv', FundsType', UNCHANGED params, NEW t \in BridgedTokens \cap DOMAIN params,
         NEW amount, NEW sent, NEW charged, Credited(t, amount, sent, charged)
  PROVE  Accounted(t)'
<1>1. Accounted(t) /\ ParamsOK /\ BridgeInv /\ FundsType
  BY DEF FundsInv, BridgeInv
<1>2. CASE IsIssued(t)
  <2>1. Escrow(t)' = Escrow(t)
    BY <1>1, <1>2, StepNumbers DEF Credited, Escrow
  <2>2. Backed(t)'
    BY <1>1, <1>2, StepNumbers DEF Credited, Accounted, Backed
  <2>3. Limited(t)'
    BY <1>2 DEF Credited, Limited
  <2>. QED BY <1>1, <2>1, <2>2, <2>3 DEF Accounted, Covered
<1>3. CASE ~IsIssued(t)
  <2>1. PICK old, new, d :
          /\ old = ledger[t] + UncreditedDeposits(t) /\ new = ledger[t] + UncreditedDeposits(t)'
          /\ d = params[t].decimals
    OBVIOUS
  <2>2. /\ amount \in Nat /\ old \in Nat /\ new \in Nat /\ old = new + amount
        /\ ledger'[t] = ledger[t] /\ sent \in Nat /\ charged \in Nat
        /\ Convert(d, amount) = sent + charged
    BY <1>1, <1>3, <2>1, StepNumbers DEF Credited
  <2>3. Escrow(t)' = Escrow(t) - (sent + charged) /\ Escrow(t) \in Int
    BY <1>1, <1>3, <2>2, StepNumbers DEF Credited, Escrow
  <2>4. Convert(d, old) <= Escrow(t)
    BY <1>1, <1>3, <2>1 DEF Accounted, Backed
  <2>5. /\ Convert(d, new) \in Nat /\ Convert(d, old) \in Nat
        /\ Convert(d, new) + Convert(d, amount) <= Convert(d, old)
    BY <1>1, <1>3, <2>1, <2>2, ConvertFacts, ZenonT(40)
  <2>6. Convert(d, new) <= Escrow(t)' /\ Escrow(t)' >= 0
    BY <2>2, <2>3, <2>4, <2>5
  <2>7. Limited(t)'
    <3>1. Held(t)' <= Held(t) /\ Held(t) <= params[t].max_holding_amount
      BY <1>1, <1>3, <2>2, StepNumbers DEF Credited, Accounted, Limited
    <3>2. params[t].max_holding_amount \in Nat
      BY <1>1, TokenLegal
    <3>3. Held(t)' <= params[t].max_holding_amount
      BY <1>1, <3>1, <3>2, StepNumbers
    <3>. QED BY <1>3, <3>3 DEF Limited
  <2>. QED BY <1>3, <2>1, <2>2, <2>6, <2>7 DEF Accounted, Covered, Backed
<1>. QED BY <1>2, <1>3

\* A token of which a transfer starts stays in order.
LEMMA AccountedLocked ==
  ASSUME FundsInv, BridgeInv', FundsType', UNCHANGED params, NEW t \in BridgedTokens \cap DOMAIN params,
         NEW coin, NEW charged, Locked(t, coin, charged)
  PROVE  Accounted(t)'
<1>1. Accounted(t) /\ ParamsOK /\ BridgeInv /\ FundsType
  BY DEF FundsInv, BridgeInv
<1>2. Escrow(t)' = Escrow(t)
  BY <1>1, StepNumbers DEF Locked, Escrow
<1>3. Backed(t)'
  BY <1>1, <1>2 DEF Locked, BackingKept, Accounted, Backed
<1>4. Limited(t)'
  BY <1>1 DEF Locked, BackingKept, Accounted, Limited
<1>. QED BY <1>1, <1>2, <1>3, <1>4 DEF Accounted, Covered

\* A token of which coins are burnt stays in order.
LEMMA AccountedBurnt ==
  ASSUME FundsInv, BridgeInv', FundsType', UNCHANGED params, NEW t \in BridgedTokens \cap DOMAIN params,
         NEW coin, Burnt(t, coin)
  PROVE  Accounted(t)'
<1>1. Accounted(t) /\ ParamsOK /\ BridgeInv /\ FundsType
  BY DEF FundsInv, BridgeInv
<1>2. Escrow(t)' = Escrow(t)
  BY <1>1, StepNumbers DEF Burnt, Escrow
<1>3. Backed(t)'
  BY <1>1, StepNumbers DEF Burnt, Accounted, Backed
<1>4. Limited(t)'
  <2>1. params[t].max_holding_amount \in Nat
    BY <1>1, TokenLegal
  <2>2. Supply(t) <= params[t].max_holding_amount
    BY <1>1 DEF Burnt, Accounted, Limited
  <2>3. Supply(t)' <= params[t].max_holding_amount
    BY <1>1, <2>1, <2>2, StepNumbers DEF Burnt
  <2>. QED BY <2>3 DEF Burnt, Limited
<1>. QED BY <1>1, <1>2, <1>3, <1>4 DEF Accounted, Covered

\* A token of which a transfer fails stays in order,
LEMMA AccountedFailed ==
  ASSUME FundsInv, BridgeInv', FundsType', UNCHANGED params, NEW t \in BridgedTokens,
         NEW coin, NEW over, Failed(t, coin, over)
  PROVE  Accounted(t)'
<1>1. Escrow(t)' = Escrow(t)
  BY StepNumbers DEF Failed, Escrow, FundsInv
<1>2. Held(t)' <= Held(t) /\ BackingShrinks(t)
  BY StepNumbers DEF Failed, FundsInv
<1>. QED BY <1>1, <1>2, AccountedEscrow

\* one of which a refund is lost,
LEMMA AccountedOverwritten ==
  ASSUME FundsInv, BridgeInv', FundsType', UNCHANGED params, NEW t \in BridgedTokens,
         NEW over, Overwritten(t, over)
  PROVE  Accounted(t)'
<1>1. Escrow(t)' = Escrow(t)
  BY StepNumbers DEF Overwritten, Escrow, FundsInv
<1>2. Held(t)' <= Held(t) /\ BackingShrinks(t)
  BY StepNumbers DEF Overwritten, FundsInv
<1>. QED BY <1>1, <1>2, AccountedEscrow

\* one of which a refund is paid,
LEMMA AccountedRepaid ==
  ASSUME FundsInv, BridgeInv', FundsType', UNCHANGED params, NEW t \in BridgedTokens,
         NEW coin, Repaid(t, coin)
  PROVE  Accounted(t)'
<1>1. Escrow(t)' = Escrow(t)
  BY StepNumbers DEF Repaid, Escrow, FundsInv
<1>2. Held(t)' <= Held(t)
  BY StepNumbers DEF Repaid, FundsInv
<1>3. BackingShrinks(t)
  BY KeptShrinks DEF Repaid, FundsInv
<1>. QED BY <1>1, <1>2, <1>3, AccountedEscrow

\* and one of which fees are paid.
LEMMA AccountedFees ==
  ASSUME FundsInv, BridgeInv', FundsType', UNCHANGED params, NEW t \in BridgedTokens,
         NEW paid, FeesPaid(t, paid)
  PROVE  Accounted(t)'
<1>1. Escrow(t)' = Escrow(t)
  BY StepNumbers DEF FeesPaid, Escrow, FundsInv
<1>2. Held(t)' <= Held(t)
  BY StepNumbers DEF FeesPaid, FundsInv
<1>3. BackingShrinks(t)
  BY KeptShrinks DEF FeesPaid, FundsInv
<1>. QED BY <1>1, <1>2, <1>3, AccountedEscrow

\* A token that is deposited stays in order: of an XRPL token the multisig account holds
\* what is yet to be minted, of a Cosmos token as much circulates less.
LEMMA AccountedDeposited ==
  ASSUME FundsInv, BridgeInv', FundsType', UNCHANGED params, NEW t \in BridgedTokens,
         NEW amount, Deposited(t, amount)
  PROVE  Accounted(t)'
<1>1. Accounted(t) /\ ParamsOK /\ BridgeInv /\ FundsType
  BY DEF FundsInv, BridgeInv
<1>2. Escrow(t)' = Escrow(t) /\ Held(t)' = Held(t) /\ Supply(t)' = Supply(t)
  BY DEF Deposited, AccountKept, Escrow
<1>3. Covered(t)'
  BY <1>1, <1>2 DEF Accounted, Covered
<1>4. CASE IsIssued(t)
  <2>1. Backed(t)'
    BY <1>1, <1>4, StepNumbers DEF Deposited, Accounted, Backed
  <2>2. Limited(t)'
    BY <1>1, <1>2, <1>4 DEF Accounted, Limited
  <2>. QED BY <1>3, <2>1, <2>2 DEF Accounted
<1>5. CASE ~IsIssued(t)
  <2>1. PICK old, new, rest, d :
          /\ old = ledger[t] + UncreditedDeposits(t) /\ new = ledger'[t] + UncreditedDeposits(t)'
          /\ rest = old - new /\ d = params[t].decimals
    OBVIOUS
  <2>2. old \in Nat /\ new \in Nat /\ rest \in Nat /\ old = new + rest
    BY <1>1, <1>5, <2>1, StepNumbers DEF Deposited
  <2>3. Backed(t)'
    <3>1. SUFFICES ASSUME t \in DOMAIN params PROVE Convert(d, new) <= Escrow(t)
      BY <1>2, <1>5, <2>1 DEF Backed
    <3>2. Convert(d, old) <= Escrow(t)
      BY <1>1, <1>5, <2>1, <3>1 DEF Accounted, Backed
    <3>3. /\ Convert(d, new) \in Nat /\ Convert(d, rest) \in Nat /\ Convert(d, old) \in Nat
          /\ Convert(d, new) + Convert(d, rest) <= Convert(d, old)
      <4>1. d = params[t].decimals /\ new \in Nat /\ rest \in Nat
        BY <2>1, <2>2
      <4>2. /\ Convert(d, new) \in Nat /\ Convert(d, rest) \in Nat
            /\ Convert(d, new + rest) \in Nat
            /\ Convert(d, new) + Convert(d, rest) <= Convert(d, new + rest)
        BY <1>1, <1>5, <3>1, <4>1, ConvertFacts
      <4>. QED BY <2>2, <4>2
    <3>4. Escrow(t) \in Int
      BY <1>1, StepNumbers DEF Escrow
    <3>. QED BY <3>2, <3>3, <3>4
  <2>4. t \notin DOMAIN params => old = 0
    BY <1>1, <1>5, <2>1 DEF Accounted, Limited
  <2>5. t \notin DOMAIN params => new = 0
    BY <2>2, <2>4
  <2>6. Limited(t)'
    BY <1>1, <1>2, <1>5, <2>1, <2>5 DEF Accounted, Limited
  <2>. QED BY <1>3, <2>3, <2>6 DEF Accounted
<1>. QED BY <1>4, <1>5

\* A token of which a transfer is executed stays in order: what it converts to leaves
\* transit and becomes escrow, to the last coin.
LEMMA AccountedExecuted ==
  ASSUME FundsInv, BridgeInv', FundsType', UNCHANGED params, NEW t \in BridgedTokens \cap DOMAIN params,
         NEW sent, NEW spent, Executes(t, sent, spent)
  PROVE  Accounted(t)'
<1>1. Accounted(t) /\ ParamsOK /\ BridgeInv /\ FundsType
  BY DEF FundsInv, BridgeInv
<1>2. Limited(t)'
  BY <1>1 DEF Executes, Accounted, Limited
<1>3. CASE IsIssued(t)
  <2>1. Escrow(t)' = Escrow(t)
    BY <1>3 DEF Executes, Escrow
  <2>2. Backed(t)'
    BY <1>1, <1>3, StepNumbers DEF Executes, Accounted, Backed
  <2>. QED BY <1>1, <1>2, <2>1, <2>2 DEF Accounted, Covered
<1>4. CASE ~IsIssued(t)
  <2>1. PICK old, new, coin, d :
          /\ old = ledger[t] + UncreditedDeposits(t) /\ new = ledger'[t] + UncreditedDeposits(t)'
          /\ d = params[t].decimals /\ coin = Convert(d, spent)
    OBVIOUS
  <2>2. /\ old \in Nat /\ new \in Nat /\ spent \in Nat /\ new = old + spent
        /\ Exact(d, spent) /\ coin \in Nat
    BY <1>1, <1>4, <2>1, StepNumbers DEF Executes
  <2>3. Escrow(t)' = Escrow(t) + coin /\ Escrow(t) \in Int
    BY <1>1, <1>4, <2>1, <2>2, StepNumbers DEF Executes, Escrow
  <2>4. Convert(d, old) <= Escrow(t)
    BY <1>1, <1>4, <2>1 DEF Accounted, Backed
  <2>5. Convert(d, old) \in Nat /\ Convert(d, new) = Convert(d, old) + coin
    <3>1. d = params[t].decimals /\ old \in Nat /\ spent \in Nat /\ Exact(d, spent)
      BY <2>1, <2>2
    <3>2. /\ Convert(d, old) \in Nat
          /\ Convert(d, old + spent) = Convert(d, old) + Convert(d, spent)
      BY <1>1, <1>4, <3>1, ConvertFacts, ZenonT(40)
    <3>. QED BY <2>1, <2>2, <3>2
  <2>6. Convert(d, new) <= Escrow(t)' /\ Escrow(t)' >= 0
    BY <2>2, <2>3, <2>4, <2>5
  <2>. QED BY <1>2, <1>4, <2>1, <2>6 DEF Accounted, Covered, Backed
<1>. QED BY <1>3, <1>4

\* A token whose limit is changed stays in order if the new one is not below what there is.
LEMMA AccountedLimit ==
  ASSUME FundsInv, NEW t \in BridgedTokens, AccountKept(t), BackingKept(t),
         t \in DOMAIN params' <=> t \in DOMAIN params,
         t \in DOMAIN params =>
           /\ params'[t].decimals = params[t].decimals
           /\ (IF IsIssued(t) THEN Supply(t) ELSE Held(t)) <= params'[t].max_holding_amount
  PROVE  Accounted(t)'
<1>1. Accounted(t)
  BY DEF FundsInv
<1>2. Escrow(t)' = Escrow(t) /\ Held(t)' = Held(t)
  BY DEF AccountKept, Escrow
<1>3. /\ Supply(t)' = Supply(t) /\ ledger'[t] = ledger[t]
      /\ UncreditedDeposits(t)' = UncreditedDeposits(t)
      /\ UnconfirmedSpending(t)' = UnconfirmedSpending(t)
  BY DEF BackingKept
<1>4. Covered(t)'
  BY <1>1, <1>2 DEF Accounted, Covered
<1>5. Backed(t)'
  BY <1>1, <1>2, <1>3 DEF Accounted, Backed
<1>6. Limited(t)'
  BY <1>1, <1>2, <1>3 DEF Accounted, Limited
<1>. QED BY <1>4, <1>5, <1>6 DEF Accounted

ConvertZero ==
  \A t \in DOMAIN params : ~IsIssued(t) => Convert(params[t].decimals, 0) = 0

\* Nothing converts to nothing.
LEMMA ZeroConverts == ParamsOK => ConvertZero
<1> SUFFICES ASSUME ParamsOK, NEW t \in DOMAIN params, ~IsIssued(t)
             PROVE  Convert(params[t].decimals, 0) = 0
  BY DEF ConvertZero
<1>1. PICK d : d = params[t].decimals
  OBVIOUS
<1>2. Convert(d, 0) = 0
  BY <1>1, ConvertFacts
<1>. QED BY <1>1, <1>2

\* A registration keeps all tokens in order: of the new one there is nothing yet.
LEMMA RegisterAccounted ==
  ASSUME FundsInv, BridgeInv', NEW token, NEW parameters, Registers(token, parameters)
  PROVE  FundsType' /\ \A t \in BridgedTokens : AccountKept(t) /\ BackingKept(t) /\ Accounted(t)'
<1>1. BridgeInv /\ FundsType /\ ParamsOK
  BY DEF FundsInv, BridgeInv
<1>2. ParamsOK' /\ SameDecimals(params, params')
  BY <1>1, ParamsRegister
<1>3. FundsType' /\ \A u \in BridgedTokens : AccountKept(u) /\ BackingKept(u)
  BY <1>1, <1>2, ParamsEffect DEF Registers
<1>4. /\ token \in BridgedTokens /\ token \notin DOMAIN params
      /\ DOMAIN params' = DOMAIN params \cup {token}
      /\ \A t \in DOMAIN params : params'[t] = params[t]
  BY DEF Registers, Put
<1>5. ASSUME NEW t \in BridgedTokens \ {token} PROVE Accounted(t)'
  <2>1. t \in DOMAIN params =>
          (IF IsIssued(t) THEN Supply(t) ELSE Held(t)) <= params[t].max_holding_amount
    BY DEF FundsInv, Accounted, Limited
  <2>. QED BY <1>3, <1>4, <2>1, AccountedLimit
<1>6. Accounted(token)'
  <2>1. AccountKept(token) /\ BackingKept(token) /\ Accounted(token)
    BY <1>3, <1>4 DEF FundsInv
  <2>2. Escrow(token)' = Escrow(token) /\ Held(token)' = Held(token)
    BY <2>1 DEF AccountKept, Escrow
  <2>3. Covered(token)'
    BY <2>1, <2>2 DEF Accounted, Covered
  <2>4. token \in DOMAIN params' /\ params'[token] \in TokenParameters
    BY <1>2, <1>4 DEF ParamsOK
  <2>5. params'[token].max_holding_amount \in Nat
    BY <2>4 DEF TokenParameters
  <2>6. CASE IsIssued(token)
    <3>1. Supply(token)' = 0
      BY <1>4, <2>1, <2>6 DEF Accounted, Limited, BackingKept
    <3>2. Limited(token)'
      BY <2>4, <2>5, <2>6, <3>1 DEF Limited
    <3>3. Backed(token)'
      BY <2>1, <2>6 DEF Accounted, Backed, BackingKept
    <3>. QED BY <2>3, <3>2, <3>3 DEF Accounted
  <2>7. CASE ~IsIssued(token)
    <3>1. Held(token)' = 0 /\ ledger'[token] + UncreditedDeposits(token)' = 0
      BY <1>4, <2>1, <2>2, <2>7 DEF Accounted, Limited, BackingKept
    <3>2. Limited(token)'
      BY <2>4, <2>5, <2>7, <3>1 DEF Limited
    <3>3. Convert(params'[token].decimals, 0) = 0
      <4>1. ParamsOK' => ConvertZero'
        BY ZeroConverts, PTL
      <4>. QED BY <1>2, <2>4, <2>7, <4>1 DEF ConvertZero
    <3>4. Backed(token)'
      BY <2>2, <2>3, <2>7, <3>1, <3>3 DEF Covered, Backed
    <3>. QED BY <2>3, <3>2, <3>4 DEF Accounted
  <2>. QED BY <2>6, <2>7
<1>. QED BY <1>3, <1>5, <1>6

\* An update keeps all tokens in order: a limit below what there is is refused.
LEMMA UpdateAccounted ==
  ASSUME FundsInv, BridgeInv', NEW token, NEW update \in UpdateInputs, Updates(token, update)
  PROVE  FundsType' /\ \A t \in BridgedTokens : AccountKept(t) /\ BackingKept(t) /\ Accounted(t)'
<1>1. BridgeInv /\ FundsType /\ ParamsOK
  BY DEF FundsInv, BridgeInv
<1>2. /\ ParamsOK' /\ SameDecimals(params, params')
      /\ \A t \in DOMAIN params \ {token} : params'[t] = params[t]
      /\ params'[token].max_holding_amount =
           Or(update.max_holding_amount, params[token].max_holding_amount)
  BY <1>1, ParamsUpdate
<1>3. FundsType' /\ \A u \in BridgedTokens : AccountKept(u) /\ BackingKept(u)
  BY <1>1, <1>2, ParamsEffect DEF Updates, UpdateParams
<1>4. token \in DOMAIN params /\ DOMAIN params' = DOMAIN params
  BY DEF Updates, UpdateParams
<1>5. ASSUME NEW t \in BridgedTokens, t \in DOMAIN params
      PROVE  /\ params'[t].decimals = params[t].decimals
             /\ (IF IsIssued(t) THEN Supply(t) ELSE Held(t)) <= params'[t].max_holding_amount
  <2>1. (IF IsIssued(t) THEN Supply(t) ELSE Held(t)) <= params[t].max_holding_amount
    BY <1>5 DEF FundsInv, Accounted, Limited
  <2>2. CASE t # token
    BY <1>2, <1>5, <2>1, <2>2
  <2>3. CASE t = token
    <3>1. update.max_holding_amount # None =>
            (IF IsIssued(t) THEN Supply(t) ELSE Held(t)) <= update.max_holding_amount
      BY <2>3 DEF Updates, UpdateParams, set_token_max_holding_amount
    <3>. QED BY <1>2, <1>5, <2>1, <2>3, <3>1 DEF Or, SameDecimals
  <2>. QED BY <2>2, <2>3
<1>6. ASSUME NEW t \in BridgedTokens PROVE Accounted(t)'
  BY <1>3, <1>4, <1>5, AccountedLimit
<1>. QED BY <1>3, <1>6

-----------------------------------------------------------------------------
\* Every step

\* What may happen to a token
Touched(t) ==
  \/ /\ t \in DOMAIN params
     /\ \/ \E amount, sent, charged : Credited(t, amount, sent, charged)
        \/ \E coin, charged : Locked(t, coin, charged)
        \/ \E coin : Burnt(t, coin)
        \/ \E sent, spent : Executes(t, sent, spent)
  \/ \E coin, over : Failed(t, coin, over)
  \/ \E coin : Repaid(t, coin)
  \/ \E amount : Deposited(t, amount)

\* The other tokens keep their amounts.
Untouched(S) == \A u \in BridgedTokens \ S : AccountKept(u) /\ BackingShrinks(u)

\* A step leaves the coins alone, or touches one token, or loses a refund of another with
\* it, or pays fees of several.
Outcome ==
  \/ \A t \in BridgedTokens : AccountKept(t) /\ Accounted(t)'
  \/ UNCHANGED params /\ Untouched({})
  \/ UNCHANGED params /\ \E t \in BridgedTokens : Touched(t) /\ Untouched({t})
  \/ /\ UNCHANGED params
     /\ \E t, v \in BridgedTokens : \E coin, over :
          t # v /\ Failed(t, coin, 0) /\ Overwritten(v, over) /\ Untouched({t, v})
  \/ UNCHANGED params /\ \A t \in BridgedTokens : \E paid : FeesPaid(t, paid)

\* Every step is such.
LEMMA FundsOutcome ==
  ASSUME FundsInv, [BridgeNext]_bridgeVars, BridgeInv'
  PROVE  FundsType' /\ Outcome
<1>1. BridgeInv /\ FundsType /\ ParamsOK /\ \A t \in DOMAIN params : t \in BridgedTokens
  BY DEF FundsInv, BridgeInv, ParamsOK
<1>2. ASSUME NEW t, \A u \in BridgedTokens \ {t} : AccountKept(u) /\ BackingKept(u)
      PROVE  Untouched({t})
  BY <1>1, <1>2, KeptShrinks DEF Untouched
<1>3. CASE Idle
  <2>1. FundsType' /\ UNCHANGED params
    BY <1>1, <1>3 DEF Idle, fundVars, xrplVars, FundsType, FeesType, feeVars
  <2>2. Untouched({})
    BY <1>1, <1>3, IdleEffect, KeptShrinks DEF Untouched
  <2>. QED BY <2>1, <2>2 DEF Outcome
<1>4. ASSUME NEW e \in TransferInputs, Credits(e) PROVE FundsType' /\ Outcome
  <2>1. PICK t : t = e.token
    OBVIOUS
  <2>2. /\ t \in DOMAIN params /\ FundsType' /\ UNCHANGED params
        /\ \E amount, sent, charged : Credited(t, amount, sent, charged)
        /\ \A u \in BridgedTokens \ {t} : AccountKept(u) /\ BackingKept(u)
    BY <1>1, <1>4, <2>1, CreditEffect
  <2>. QED BY <1>1, <1>2, <2>2 DEF Outcome, Touched
<1>5. ASSUME NEW deposit \in DepositInputs, NEW key, Sends(deposit, key)
      PROVE  FundsType' /\ Outcome
  <2>1. PICK t : t = deposit.token
    OBVIOUS
  <2>2. /\ t \in DOMAIN params /\ FundsType' /\ UNCHANGED params
        /\ \E coin, charged : Locked(t, coin, charged)
        /\ \A u \in BridgedTokens \ {t} : AccountKept(u) /\ BackingKept(u)
    BY <1>1, <1>5, <2>1, SendEffect
  <2>. QED BY <1>1, <1>2, <2>2 DEF Outcome, Touched
<1>6. ASSUME NEW key, NEW result, Settles(key, result) PROVE FundsType' /\ Outcome
  <2>1. UNCHANGED params
    BY <1>6 DEF Settles
  <2>2. CASE key \notin Transfers
    <3>1. FundsType' /\ Untouched({})
      BY <1>1, <1>6, <2>2, SettleOther DEF Untouched
    <3>. QED BY <2>1, <3>1 DEF Outcome
  <2>3. CASE key \in Transfers /\ result = "Accepted"
    <3>1. PICK t \in BridgedTokens \cap DOMAIN params :
            /\ FundsType'
            /\ IF IsIssued(t) THEN \E coin : Burnt(t, coin)
               ELSE AccountKept(t) /\ BackingShrinks(t)
            /\ \A u \in BridgedTokens \ {t} : AccountKept(u) /\ BackingShrinks(u)
      BY <1>1, <1>6, <2>3, SettleAccepted
    <3>2. CASE IsIssued(t)
      <4>1. Touched(t) /\ Untouched({t})
        BY <3>1, <3>2 DEF Touched, Untouched
      <4>. QED BY <2>1, <3>1, <4>1 DEF Outcome
    <3>3. CASE ~IsIssued(t)
      <4>1. Untouched({})
        BY <3>1, <3>3 DEF Untouched
      <4>. QED BY <2>1, <3>1, <4>1 DEF Outcome
    <3>. QED BY <3>2, <3>3
  <2>4. CASE key \in Transfers /\ result # "Accepted"
    <3>1. PICK t \in BridgedTokens \cap DOMAIN params, v \in BridgedTokens :
            \E coin, over :
              \/ /\ Failed(t, coin, over)
                 /\ \A u \in BridgedTokens \ {t} : AccountKept(u) /\ BackingShrinks(u)
              \/ /\ t # v /\ Failed(t, coin, 0) /\ Overwritten(v, over)
                 /\ \A u \in BridgedTokens \ {t, v} : AccountKept(u) /\ BackingShrinks(u)
      BY <1>1, <1>6, <2>4, SettleFailed
    <3>2. FundsType'
      BY <1>1, <1>6, <2>4, SettleFailed
    <3>3. PICK coin, over :
            \/ Touched(t) /\ Untouched({t})
            \/ t # v /\ Failed(t, coin, 0) /\ Overwritten(v, over) /\ Untouched({t, v})
      BY <3>1 DEF Touched, Untouched
    <3>. QED BY <2>1, <3>2, <3>3 DEF Outcome
  <2>. QED BY <2>2, <2>3, <2>4
<1>7. ASSUME NEW sender \in Addr, NEW id, BridgeClaimRefund(sender, id)
      PROVE  FundsType' /\ Outcome
  <2>1. /\ FundsType' /\ UNCHANGED params
        /\ \E t \in BridgedTokens : \E coin :
              /\ Repaid(t, coin)
              /\ \A u \in BridgedTokens \ {t} : AccountKept(u) /\ BackingKept(u)
    BY <1>1, <1>7, RefundEffect
  <2>2. \E t \in BridgedTokens : Touched(t) /\ Untouched({t})
    BY <1>2, <2>1 DEF Touched
  <2>. QED BY <2>1, <2>2 DEF Outcome
<1>8. ASSUME NEW sender \in Addr, NEW amounts \in ClaimInputs, ClaimRelayerFees(sender, amounts)
      PROVE  FundsType' /\ Outcome
  BY <1>1, <1>8, ClaimEffect DEF Outcome
<1>9. ASSUME NEW token, NEW parameters, Registers(token, parameters)
      PROVE  FundsType' /\ Outcome
  BY <1>9, RegisterAccounted DEF Outcome
<1>10. ASSUME NEW token, NEW update \in UpdateInputs, Updates(token, update)
       PROVE  FundsType' /\ Outcome
  BY <1>10, UpdateAccounted DEF Outcome
<1>11. ASSUME NEW sender, NEW mint \in MintInputs, MintCosmosToken(sender, mint)
       PROVE  FundsType' /\ Outcome
  BY <1>1, <1>11, MintingEffect DEF Outcome, Untouched
<1>12. ASSUME NEW e \in TransferInputs, XRPLDeposit(e) PROVE FundsType' /\ Outcome
  <2>1. PICK t : t = e.token
    OBVIOUS
  <2>2. /\ FundsType' /\ UNCHANGED params
        /\ t \in BridgedTokens => \E amount : Deposited(t, amount)
        /\ \A u \in BridgedTokens \ {t} : AccountKept(u) /\ BackingKept(u)
    BY <1>1, <1>12, <2>1, DepositEffect
  <2>3. Untouched({t})
    BY <1>2, <2>2
  <2>4. CASE t \in BridgedTokens
    BY <2>2, <2>3, <2>4 DEF Outcome, Touched
  <2>5. CASE t \notin BridgedTokens
    <3>1. Untouched({})
      BY <2>3, <2>5 DEF Untouched
    <3>. QED BY <2>2, <3>1 DEF Outcome
  <2>. QED BY <2>4, <2>5
<1>13. ASSUME NEW key \in DOMAIN pendingOperations, XRPLExecute(key) PROVE FundsType' /\ Outcome
  <2>1. /\ FundsType' /\ UNCHANGED params
        /\ \E t \in BridgedTokens \cap DOMAIN params : \E sent, spent :
              /\ Executes(t, sent, spent)
              /\ \A u \in BridgedTokens \ {t} : AccountKept(u) /\ BackingKept(u)
    BY <1>1, <1>13, ExecuteEffect
  <2>2. \E t \in BridgedTokens : Touched(t) /\ Untouched({t})
    BY <1>2, <2>1 DEF Touched
  <2>. QED BY <2>1, <2>2 DEF Outcome
<1>. QED BY <1>1, <1>3, <1>4, <1>5, <1>6, <1>7, <1>8, <1>9, <1>10, <1>11, <1>12, <1>13, BridgeCases

\* A step keeps all tokens in order.
LEMMA FundsInvStep == FundsInv /\ [BridgeNext]_bridgeVars => FundsInv'
<1> SUFFICES ASSUME FundsInv, [BridgeNext]_bridgeVars PROVE FundsInv'
  OBVIOUS
<1>1. BridgeInv'
  BY BridgeInvStep DEF FundsInv
<1>2. FundsType' /\ Outcome
  BY <1>1, FundsOutcome
<1>3. ASSUME UNCHANGED params, NEW t \in BridgedTokens, AccountKept(t), BackingShrinks(t)
      PROVE  Accounted(t)'
  BY <1>1, <1>2, <1>3, AccountedKept
<1>4. ASSUME UNCHANGED params, NEW t \in BridgedTokens, Touched(t) PROVE Accounted(t)'
  <2>1. CASE \E amount, sent, charged : t \in DOMAIN params /\ Credited(t, amount, sent, charged)
    BY <1>1, <1>2, <1>4, <2>1, AccountedCredited
  <2>2. CASE \E coin, charged : t \in DOMAIN params /\ Locked(t, coin, charged)
    BY <1>1, <1>2, <1>4, <2>2, AccountedLocked
  <2>3. CASE \E coin : t \in DOMAIN params /\ Burnt(t, coin)
    BY <1>1, <1>2, <1>4, <2>3, AccountedBurnt
  <2>4. CASE \E sent, spent : t \in DOMAIN params /\ Executes(t, sent, spent)
    BY <1>1, <1>2, <1>4, <2>4, AccountedExecuted
  <2>5. CASE \E coin, over : Failed(t, coin, over)
    BY <1>1, <1>2, <1>4, <2>5, AccountedFailed
  <2>6. CASE \E coin : Repaid(t, coin)
    BY <1>1, <1>2, <1>4, <2>6, AccountedRepaid
  <2>7. CASE \E amount : Deposited(t, amount)
    BY <1>1, <1>2, <1>4, <2>7, AccountedDeposited
  <2>. QED BY <1>4, <2>1, <2>2, <2>3, <2>4, <2>5, <2>6, <2>7 DEF Touched
<1>5. \A t \in BridgedTokens : Accounted(t)'
  <2>1. CASE \A t \in BridgedTokens : AccountKept(t) /\ Accounted(t)'
    BY <2>1
  <2>2. CASE UNCHANGED params /\ Untouched({})
    BY <1>3, <2>2 DEF Untouched
  <2>3. CASE UNCHANGED params /\ \E t \in BridgedTokens : Touched(t) /\ Untouched({t})
    <3>1. PICK t \in BridgedTokens : Touched(t) /\ Untouched({t})
      BY <2>3
    <3>2. Accounted(t)'
      BY <1>4, <2>3, <3>1
    <3>3. \A u \in BridgedTokens \ {t} : Accounted(u)'
      BY <1>3, <2>3, <3>1 DEF Untouched
    <3>. QED BY <3>2, <3>3
  <2>4. ASSUME UNCHANGED params, NEW t \in BridgedTokens, NEW v \in BridgedTokens, NEW coin, NEW over,
               Failed(t, coin, 0), Overwritten(v, over), Untouched({t, v})
        PROVE  \A u \in BridgedTokens : Accounted(u)'
    <3>1. Accounted(t)'
      BY <1>1, <1>2, <2>4, AccountedFailed
    <3>2. Accounted(v)'
      BY <1>1, <1>2, <2>4, AccountedOverwritten
    <3>3. \A u \in BridgedTokens \ {t, v} : Accounted(u)'
      BY <1>3, <2>4 DEF Untouched
    <3>. QED BY <3>1, <3>2, <3>3
  <2>5. CASE UNCHANGED params /\ \A t \in BridgedTokens : \E paid : FeesPaid(t, paid)
    BY <1>1, <1>2, <2>5, AccountedFees
  <2>. QED BY <1>2, <2>1, <2>2, <2>3, <2>4, <2>5 DEF Outcome
<1>. QED BY <1>1, <1>2, <1>5 DEF FundsInv

\* At first nothing is owed, on its way or reported.
LEMMA NothingOwed ==
  ASSUME BridgeInit, NEW t \in BridgedTokens
  PROVE  /\ InTransit(t) = 0 /\ Refundable(t) = 0 /\ FeesOwed(t) = 0
         /\ UncreditedDeposits(t) = 0 /\ UnconfirmedSpending(t) = 0
<1>1. ASSUME NEW f, DOMAIN f = {} PROVE SumFunction(f) = 0
  BY <1>1, SumEmpty DEF SumFunction
<1>2. /\ DOMAIN pendingOperations = {} /\ DOMAIN pendingRefunds = {} /\ executed = {}
      /\ deposits = {} /\ DOMAIN feesCollected = {} /\ feeRemainders[t] = 0
  BY DEF BridgeInit, Init, NoCoins
<1>3. InTransit(t) = 0
  BY <1>1, <1>2 DEF InTransit, TransfersInTransit
<1>4. Refundable(t) = 0
  BY <1>1, <1>2 DEF Refundable, RefundsOf
<1>5. UncreditedDeposits(t) = 0
  BY <1>1, <1>2 DEF UncreditedDeposits, Uncredited
<1>6. UnconfirmedSpending(t) = 0
  BY <1>1, <1>2 DEF UnconfirmedSpending, Unconfirmed
<1>7. FeesOwed(t) = 0
  <2>1. SumFunction([a \in DOMAIN feesCollected |-> feesCollected[a][t]]) = 0
    BY <1>1, <1>2
  <2>. QED BY <1>2, <2>1 DEF FeesOwed
<1>. QED BY <1>3, <1>4, <1>5, <1>6, <1>7

\* The bridge starts in order.
LEMMA FundsInvInit == BridgeInit => FundsInv
<1> SUFFICES ASSUME BridgeInit PROVE FundsInv
  OBVIOUS
<1>1. BridgeInv
  BY BridgeInvInit
<1>2. FundsType
  BY BankAssumption, FS_EmptySet
     DEF BridgeInit, NoCoins, FundsType, FeesType, BalancesType
<1>3. ASSUME NEW t \in BridgedTokens PROVE Accounted(t)
  <2>1. /\ Held(t) = 0 /\ lost[t] = 0 /\ ledger[t] = 0
        /\ \A a \in BankAccount : bank[t][a] \in Nat /\ (IsIssued(t) => bank[t][a] = 0)
    BY BankAssumption DEF BridgeInit, NoCoins, Held, BankAccount
  <2>2. IsIssued(t) => Supply(t) = 0
    <3>1. PICK f : f = bank[t]
      OBVIOUS
    <3>2. IsIssued(t) => SumFunctionOnSet(f, {}) = SumFunctionOnSet(f, BankAccount)
      BY <2>1, <3>1, Accounts, SumPart
    <3>. QED BY <3>1, <3>2, SumEmpty DEF Supply
  <2>3. Escrow(t) = 0
    BY <2>1, NothingOwed DEF Escrow
  <2>4. Covered(t)
    BY <2>3 DEF Covered
  <2>5. t \in DOMAIN params => IsIssued(t) /\ params[t].max_holding_amount \in Nat
    BY BankAssumption, IdentityAssumption DEF BridgeInit, IsIssued, TokenParameters
  <2>6. Backed(t)
    BY <2>1, <2>2, <2>5, NothingOwed DEF Backed
  <2>7. Limited(t)
    BY <2>1, <2>2, <2>5, NothingOwed DEF Limited
  <2>. QED BY <2>4, <2>6, <2>7 DEF Accounted
<1>. QED BY <1>1, <1>2, <1>3 DEF FundsInv

\* Throughout, the coins of every token are in order.
THEOREM FundsInOrder == BridgeSpec => []FundsInv
  BY FundsInvInit, FundsInvStep, PTL DEF BridgeSpec

\* Balances, fees and remainders stay amounts, whatever is truncated, converted, split,
\* paid or claimed, and an operation that the XRPL executed is pending until it is settled.
THEOREM FundsAreTyped == BridgeSpec => []FundsTypeOK
<1>1. FundsInv => FundsTypeOK
  <2>1. BridgeInv => executed \subseteq DOMAIN pendingOperations
    BY DEF BridgeInv, TransfersOK, Transfers, PendingOfType
  <2>. QED BY <2>1 DEF FundsInv, FundsType, FeesType, BalancesType, FundsTypeOK
<1>. QED BY <1>1, FundsInOrder, PTL

\* Whatever the precisions, fees, limits, orders of votes and rotations, what one chain
\* represents the other one holds: the coins minted for an XRPL token, save those about to
\* be burnt, are with the multisig account, and the escrow covers what circulates of a
\* Cosmos token on the XRPL or is on its way back.
THEOREM CirculationIsBacked == BridgeSpec => []CirculationBacked
<1>1. FundsInv => CirculationBacked
  <2> SUFFICES ASSUME FundsInv, NEW t \in DOMAIN params
               PROVE  IF IsIssued(t)
                      THEN Supply(t) + UncreditedDeposits(t) <= ledger[t] + UnconfirmedSpending(t)
                      ELSE Convert(params[t].decimals, ledger[t] + UncreditedDeposits(t)) <= Escrow(t)
    BY DEF CirculationBacked, Convert
  <2>1. t \in BridgedTokens
    BY DEF FundsInv, BridgeInv, ParamsOK
  <2>. QED BY <2>1 DEF FundsInv, Accounted, Backed
<1>. QED BY <1>1, FundsInOrder, PTL

\* Neither confirmations that were checked vote by vote nor limits that the owner changes
\* take the bridge above the maximum holding amount of a token.
THEOREM MaxHoldingRespected == BridgeSpec => []WithinMaxHolding
<1>1. FundsInv => WithinMaxHolding
  BY DEF FundsInv, BridgeInv, ParamsOK, Accounted, Limited, WithinMaxHolding
<1>. QED BY <1>1, FundsInOrder, PTL

\* What a collection leaves undivided is less than a coin for each relayer.
LEMMA CollectLeavesDust ==
  ASSUME FundsInv, FeeRemaindersAreDust, NEW token \in BridgedTokens, NEW remainder \in Nat,
         params[token].bridging_fee \in Nat, handle_fee_collection(token, remainder)
  PROVE  FeeRemaindersAreDust'
<1> DEFINE total == params[token].bridging_fee + remainder + feeRemainders[token]
           n == Cardinality(config.relayers)
<1>1. feeRemainders \in [BridgedTokens -> Nat] /\ total \in Nat
  BY DEF FundsInv, FundsType, FeesType
<1>2. n \in Nat \ {0} /\ n <= MAX_RELAYERS
  BY RelayerCount DEF FundsInv, BridgeInv, SoundState, Sound
<1>3. \/ feeRemainders' = feeRemainders
      \/ feeRemainders' = [feeRemainders EXCEPT ![token] = fee_remainder(total, n)]
  BY DEF handle_fee_collection, feeVars
<1>4. fee_remainder(total, n) < MAX_RELAYERS
  <2> HIDE DEF total, n
  <2>1. fee_remainder(total, n) \in 0 .. n - 1
    BY <1>1, <1>2, FeeSplit
  <2>. QED BY <1>2, <2>1, BoundAssumption
<1> HIDE DEF total, n
<1>. QED BY <1>1, <1>3, <1>4 DEF FeeRemaindersAreDust

\* Nothing else than a collection changes the remainders.
LEMMA DustStep ==
  ASSUME FundsInv, FeeRemaindersAreDust, [BridgeNext]_bridgeVars
  PROVE  FeeRemaindersAreDust'
<1>1. BridgeInv
  BY DEF FundsInv
<1>2. CASE feeRemainders' = feeRemainders
  BY <1>2 DEF FeeRemaindersAreDust
<1>3. ASSUME NEW e \in TransferInputs, Credits(e) PROVE FeeRemaindersAreDust'
  <2>1. /\ e.token \in BridgedTokens /\ params[e.token].bridging_fee \in Nat
        /\ Credit(e).remainder \in Nat /\ handle_fee_collection(e.token, Credit(e).remainder)
    BY <1>1, <1>3, TokenLegal, CreditAmounts DEF Credits, BridgeInv
  <2>. QED BY <2>1, CollectLeavesDust
<1>4. ASSUME NEW deposit \in DepositInputs, NEW key, Sends(deposit, key)
      PROVE  FeeRemaindersAreDust'
  <2>1. /\ deposit.token \in BridgedTokens /\ params[deposit.token].bridging_fee \in Nat
        /\ Sent(deposit).remainder \in Nat
        /\ handle_fee_collection(deposit.token, Sent(deposit).remainder)
    BY <1>1, <1>4, TokenLegal, SendAmounts DEF Sends, BridgeInv
  <2>. QED BY <2>1, CollectLeavesDust
<1>5. ASSUME NEW item, NEW other,
             \/ Idle \/ Settles(item, other)
             \/ BridgeClaimRefund(other, item)
             \/ ClaimRelayerFees(other, item) \/ MintCosmosToken(other, item)
             \/ Registers(item, other) \/ Updates(item, other)
             \/ XRPLDeposit(item) \/ XRPLExecute(item)
      PROVE  feeRemainders' = feeRemainders
  BY <1>5 DEF Idle, Settles, BridgeClaimRefund, ClaimRelayerFees, MintCosmosToken, Registers,
              Updates, UpdateParams, XRPLDeposit, XRPLExecute, fundVars, feeVars
<1>. QED BY <1>1, <1>2, <1>3, <1>4, <1>5, BridgeCases

\* Whatever the fees, the claims and the rotations between collections, less than a coin
\* for each relayer is kept back from them.
THEOREM FeesAreDivided == BridgeSpec => []FeeRemaindersAreDust
<1>1. BridgeInit => FeeRemaindersAreDust
  <2> SUFFICES ASSUME BridgeInit PROVE FeeRemaindersAreDust
    OBVIOUS
  <2>1. Cardinality(config.relayers) \in Nat \ {0} /\ Cardinality(config.relayers) <= MAX_RELAYERS
    BY BridgeInvInit, RelayerCount DEF BridgeInv, SoundState, Sound
  <2>2. MAX_RELAYERS > 0
    BY <2>1, BoundAssumption
  <2>. QED BY <2>2 DEF BridgeInit, NoCoins, FeeRemaindersAreDust
<1>. QED BY <1>1, DustStep, FundsInOrder, PTL DEF BridgeSpec

-----------------------------------------------------------------------------
\* The bridge implements Custody.

Parts(held, transit, refundable, fees, escrow, gone) ==
  [held |-> held, transit |-> transit, refundable |-> refundable, fees |-> fees,
   escrow |-> escrow, lost |-> gone]

AccountOf(t) == Parts(Held(t), InTransit(t), Refundable(t), FeesOwed(t), Escrow(t), lost[t])

\* Custody locks what a sender pays,
LEMMA LockMove ==
  ASSUME NEW h \in Int, NEW m \in Int, NEW r \in Int, NEW f \in Int, NEW e \in Int, NEW l \in Int,
         NEW h2 \in Int, NEW m2 \in Int, NEW r2 \in Int, NEW f2 \in Int, NEW e2 \in Int,
         NEW l2 \in Int, m2 - m > 0, f2 - f >= 0, h2 = h + (m2 - m) + (f2 - f), r2 = r, e2 = e, l2 = l
  PROVE  CustodyOf!Lock(Parts(h, m, r, f, e, l), Parts(h2, m2, r2, f2, e2, l2))
<1>1. PICK old, new, a, b :
        /\ old = Parts(h, m, r, f, e, l) /\ new = Parts(h2, m2, r2, f2, e2, l2)
        /\ a = m2 - m /\ b = f2 - f
  OBVIOUS
<1>2. /\ new.transit - old.transit = a /\ new.fees - old.fees = b
      /\ a \in Int /\ a > 0 /\ b \in Int /\ b >= 0
  BY <1>1 DEF Parts
<1>3. new = Parts(h + a + b, m + a, r, f + b, e, l)
  BY <1>1
<1>4. PICK p : p = [old EXCEPT !.transit = @ + a]
  OBVIOUS
<1>5. p = Parts(h, m + a, r, f, e, l)
  BY <1>1, <1>4 DEF Parts
<1>6. PICK q : q = [p EXCEPT !.fees = @ + b]
  OBVIOUS
<1>7. q = Parts(h, m + a, r, f + b, e, l)
  BY <1>5, <1>6 DEF Parts
<1>8. new = [q EXCEPT !.held = @ + a + b]
  BY <1>3, <1>7 DEF Parts
<1>9. new = [old EXCEPT !.transit = @ + a, !.fees = @ + b, !.held = @ + a + b]
  BY <1>4, <1>6, <1>8
<1>10. CustodyOf!Lock(old, new)
  BY <1>2, <1>9 DEF CustodyOf!Lock
<1>. QED BY <1>1, <1>10

\* burns an issued coin that arrived,
LEMMA BurnMove ==
  ASSUME NEW h \in Int, NEW m \in Int, NEW r \in Int, NEW f \in Int, NEW e \in Int, NEW l \in Int,
         NEW h2 \in Int, NEW m2 \in Int, NEW r2 \in Int, NEW f2 \in Int, NEW e2 \in Int,
         NEW l2 \in Int, m - m2 > 0, h2 = h - (m - m2), r2 = r, f2 = f, e2 = e, l2 = l
  PROVE  CustodyOf!Arrive(Parts(h, m, r, f, e, l), Parts(h2, m2, r2, f2, e2, l2), TRUE)
<1>1. PICK old, new, a :
        /\ old = Parts(h, m, r, f, e, l) /\ new = Parts(h2, m2, r2, f2, e2, l2)
        /\ a = m - m2
  OBVIOUS
<1>2. /\ old.transit - new.transit = a
      /\ a \in Int /\ a > 0
  BY <1>1 DEF Parts
<1>3. new = Parts(h - a, m - a, r, f, e, l)
  BY <1>1
<1>4. PICK p : p = [old EXCEPT !.transit = @ - a]
  OBVIOUS
<1>5. p = Parts(h, m - a, r, f, e, l)
  BY <1>1, <1>4 DEF Parts
<1>6. new = [p EXCEPT !.held = @ - a]
  BY <1>3, <1>5 DEF Parts
<1>7. new = [old EXCEPT !.transit = @ - a, !.held = @ - a]
  BY <1>4, <1>6
<1>8. CustodyOf!Arrive(old, new, TRUE)
  BY <1>2, <1>7 DEF CustodyOf!Arrive
<1>. QED BY <1>1, <1>8

\* keeps another one as escrow,
LEMMA ArriveMove ==
  ASSUME NEW h \in Int, NEW m \in Int, NEW r \in Int, NEW f \in Int, NEW e \in Int, NEW l \in Int,
         NEW h2 \in Int, NEW m2 \in Int, NEW r2 \in Int, NEW f2 \in Int, NEW e2 \in Int,
         NEW l2 \in Int, m - m2 > 0, h2 = h, r2 = r, f2 = f, e2 = e + (m - m2), l2 = l, NEW issued, ~issued
  PROVE  CustodyOf!Arrive(Parts(h, m, r, f, e, l), Parts(h2, m2, r2, f2, e2, l2), issued)
<1>1. PICK old, new, a :
        /\ old = Parts(h, m, r, f, e, l) /\ new = Parts(h2, m2, r2, f2, e2, l2)
        /\ a = m - m2
  OBVIOUS
<1>2. /\ old.transit - new.transit = a
      /\ a \in Int /\ a > 0
  BY <1>1 DEF Parts
<1>3. new = Parts(h, m - a, r, f, e + a, l)
  BY <1>1
<1>4. PICK p : p = [old EXCEPT !.transit = @ - a]
  OBVIOUS
<1>5. p = Parts(h, m - a, r, f, e, l)
  BY <1>1, <1>4 DEF Parts
<1>6. new = [p EXCEPT !.escrow = @ + a]
  BY <1>3, <1>5 DEF Parts
<1>7. new = [old EXCEPT !.transit = @ - a, !.escrow = @ + a]
  BY <1>4, <1>6
<1>8. CustodyOf!Arrive(old, new, issued)
  BY <1>2, <1>7 DEF CustodyOf!Arrive
<1>. QED BY <1>1, <1>8

\* owes what failed to its sender,
LEMMA FailMove ==
  ASSUME NEW h \in Int, NEW m \in Int, NEW r \in Int, NEW f \in Int, NEW e \in Int, NEW l \in Int,
         NEW h2 \in Int, NEW m2 \in Int, NEW r2 \in Int, NEW f2 \in Int, NEW e2 \in Int,
         NEW l2 \in Int, m - m2 > 0, l2 - l >= 0, h2 = h, r2 = r + (m - m2) - (l2 - l), f2 = f, e2 = e
  PROVE  CustodyOf!Fail(Parts(h, m, r, f, e, l), Parts(h2, m2, r2, f2, e2, l2))
<1>1. PICK old, new, a, b :
        /\ old = Parts(h, m, r, f, e, l) /\ new = Parts(h2, m2, r2, f2, e2, l2)
        /\ a = m - m2 /\ b = l2 - l
  OBVIOUS
<1>2. /\ old.transit - new.transit = a /\ new.lost - old.lost = b
      /\ a \in Int /\ a > 0 /\ b \in Int /\ b >= 0
  BY <1>1 DEF Parts
<1>3. new = Parts(h, m - a, r + a - b, f, e, l + b)
  BY <1>1
<1>4. PICK p : p = [old EXCEPT !.transit = @ - a]
  OBVIOUS
<1>5. p = Parts(h, m - a, r, f, e, l)
  BY <1>1, <1>4 DEF Parts
<1>6. PICK q : q = [p EXCEPT !.refundable = @ + a - b]
  OBVIOUS
<1>7. q = Parts(h, m - a, r + a - b, f, e, l)
  BY <1>5, <1>6 DEF Parts
<1>8. new = [q EXCEPT !.lost = @ + b]
  BY <1>3, <1>7 DEF Parts
<1>9. new = [old EXCEPT !.transit = @ - a, !.refundable = @ + a - b, !.lost = @ + b]
  BY <1>4, <1>6, <1>8
<1>10. CustodyOf!Fail(old, new)
  BY <1>2, <1>9 DEF CustodyOf!Fail
<1>. QED BY <1>1, <1>10

\* gives up a refund that is stored over,
LEMMA OverwriteMove ==
  ASSUME NEW h \in Int, NEW m \in Int, NEW r \in Int, NEW f \in Int, NEW e \in Int, NEW l \in Int,
         NEW h2 \in Int, NEW m2 \in Int, NEW r2 \in Int, NEW f2 \in Int, NEW e2 \in Int,
         NEW l2 \in Int, l2 - l > 0, h2 = h, m2 = m, r2 = r - (l2 - l), f2 = f, e2 = e
  PROVE  CustodyOf!Overwrite(Parts(h, m, r, f, e, l), Parts(h2, m2, r2, f2, e2, l2))
<1>1. PICK old, new, a :
        /\ old = Parts(h, m, r, f, e, l) /\ new = Parts(h2, m2, r2, f2, e2, l2)
        /\ a = l2 - l
  OBVIOUS
<1>2. /\ new.lost - old.lost = a
      /\ a \in Int /\ a > 0
  BY <1>1 DEF Parts
<1>3. new = Parts(h, m, r - a, f, e, l + a)
  BY <1>1
<1>4. PICK p : p = [old EXCEPT !.refundable = @ - a]
  OBVIOUS
<1>5. p = Parts(h, m, r - a, f, e, l)
  BY <1>1, <1>4 DEF Parts
<1>6. new = [p EXCEPT !.lost = @ + a]
  BY <1>3, <1>5 DEF Parts
<1>7. new = [old EXCEPT !.refundable = @ - a, !.lost = @ + a]
  BY <1>4, <1>6
<1>8. CustodyOf!Overwrite(old, new)
  BY <1>2, <1>7 DEF CustodyOf!Overwrite
<1>. QED BY <1>1, <1>8

\* pays a refund,
LEMMA RefundMove ==
  ASSUME NEW h \in Int, NEW m \in Int, NEW r \in Int, NEW f \in Int, NEW e \in Int, NEW l \in Int,
         NEW h2 \in Int, NEW m2 \in Int, NEW r2 \in Int, NEW f2 \in Int, NEW e2 \in Int,
         NEW l2 \in Int, r - r2 > 0, h2 = h - (r - r2), m2 = m, f2 = f, e2 = e, l2 = l
  PROVE  CustodyOf!PayRefund(Parts(h, m, r, f, e, l), Parts(h2, m2, r2, f2, e2, l2))
<1>1. PICK old, new, a :
        /\ old = Parts(h, m, r, f, e, l) /\ new = Parts(h2, m2, r2, f2, e2, l2)
        /\ a = r - r2
  OBVIOUS
<1>2. /\ old.refundable - new.refundable = a
      /\ a \in Int /\ a > 0
  BY <1>1 DEF Parts
<1>3. new = Parts(h - a, m, r - a, f, e, l)
  BY <1>1
<1>4. PICK p : p = [old EXCEPT !.refundable = @ - a]
  OBVIOUS
<1>5. p = Parts(h, m, r - a, f, e, l)
  BY <1>1, <1>4 DEF Parts
<1>6. new = [p EXCEPT !.held = @ - a]
  BY <1>3, <1>5 DEF Parts
<1>7. new = [old EXCEPT !.refundable = @ - a, !.held = @ - a]
  BY <1>4, <1>6
<1>8. CustodyOf!PayRefund(old, new)
  BY <1>2, <1>7 DEF CustodyOf!PayRefund
<1>. QED BY <1>1, <1>8

\* pays fees,
LEMMA FeeMove ==
  ASSUME NEW h \in Int, NEW m \in Int, NEW r \in Int, NEW f \in Int, NEW e \in Int, NEW l \in Int,
         NEW h2 \in Int, NEW m2 \in Int, NEW r2 \in Int, NEW f2 \in Int, NEW e2 \in Int,
         NEW l2 \in Int, f - f2 > 0, h2 = h - (f - f2), m2 = m, r2 = r, e2 = e, l2 = l
  PROVE  CustodyOf!PayFees(Parts(h, m, r, f, e, l), Parts(h2, m2, r2, f2, e2, l2))
<1>1. PICK old, new, a :
        /\ old = Parts(h, m, r, f, e, l) /\ new = Parts(h2, m2, r2, f2, e2, l2)
        /\ a = f - f2
  OBVIOUS
<1>2. /\ old.fees - new.fees = a
      /\ a \in Int /\ a > 0
  BY <1>1 DEF Parts
<1>3. new = Parts(h - a, m, r, f - a, e, l)
  BY <1>1
<1>4. PICK p : p = [old EXCEPT !.fees = @ - a]
  OBVIOUS
<1>5. p = Parts(h, m, r, f - a, e, l)
  BY <1>1, <1>4 DEF Parts
<1>6. new = [p EXCEPT !.held = @ - a]
  BY <1>3, <1>5 DEF Parts
<1>7. new = [old EXCEPT !.fees = @ - a, !.held = @ - a]
  BY <1>4, <1>6
<1>8. CustodyOf!PayFees(old, new)
  BY <1>2, <1>7 DEF CustodyOf!PayFees
<1>. QED BY <1>1, <1>8

\* takes the fees of coins that are minted,
LEMMA MintMove ==
  ASSUME NEW h \in Int, NEW m \in Int, NEW r \in Int, NEW f \in Int, NEW e \in Int, NEW l \in Int,
         NEW h2 \in Int, NEW m2 \in Int, NEW r2 \in Int, NEW f2 \in Int, NEW e2 \in Int,
         NEW l2 \in Int, f2 - f >= 0, h2 = h + (f2 - f), m2 = m, r2 = r, e2 = e, l2 = l
  PROVE  CustodyOf!Release(Parts(h, m, r, f, e, l), Parts(h2, m2, r2, f2, e2, l2), TRUE)
<1>1. PICK old, new, b :
        /\ old = Parts(h, m, r, f, e, l) /\ new = Parts(h2, m2, r2, f2, e2, l2)
        /\ b = f2 - f
  OBVIOUS
<1>2. /\ new.fees - old.fees = b
      /\ b \in Int /\ b >= 0
  BY <1>1 DEF Parts
<1>3. new = Parts(h + b, m, r, f + b, e, l)
  BY <1>1
<1>4. PICK p : p = [old EXCEPT !.fees = @ + b]
  OBVIOUS
<1>5. p = Parts(h, m, r, f + b, e, l)
  BY <1>1, <1>4 DEF Parts
<1>6. new = [p EXCEPT !.held = @ + b]
  BY <1>3, <1>5 DEF Parts
<1>7. new = [old EXCEPT !.fees = @ + b, !.held = @ + b]
  BY <1>4, <1>6
<1>8. CustodyOf!Release(old, new, TRUE)
  BY <1>2, <1>7 DEF CustodyOf!Release
<1>. QED BY <1>1, <1>8

\* and pays others out of the escrow.
LEMMA ReleaseMove ==
  ASSUME NEW h \in Int, NEW m \in Int, NEW r \in Int, NEW f \in Int, NEW e \in Int, NEW l \in Int,
         NEW h2 \in Int, NEW m2 \in Int, NEW r2 \in Int, NEW f2 \in Int, NEW e2 \in Int,
         NEW l2 \in Int, h - h2 > 0, f2 - f >= 0, m2 = m, r2 = r,
         e2 = e - (h - h2) - (f2 - f), l2 = l, NEW issued, ~issued
  PROVE  CustodyOf!Release(Parts(h, m, r, f, e, l), Parts(h2, m2, r2, f2, e2, l2), issued)
<1>1. PICK old, new, b, a :
        /\ old = Parts(h, m, r, f, e, l) /\ new = Parts(h2, m2, r2, f2, e2, l2)
        /\ b = f2 - f /\ a = h - h2
  OBVIOUS
<1>2. /\ new.fees - old.fees = b /\ old.held - new.held = a
      /\ a \in Int /\ a > 0 /\ b \in Int /\ b >= 0
  BY <1>1 DEF Parts
<1>3. new = Parts(h - a, m, r, f + b, e - a - b, l)
  BY <1>1
<1>4. PICK p : p = [old EXCEPT !.held = @ - a]
  OBVIOUS
<1>5. p = Parts(h - a, m, r, f, e, l)
  BY <1>1, <1>4 DEF Parts
<1>6. PICK q : q = [p EXCEPT !.fees = @ + b]
  OBVIOUS
<1>7. q = Parts(h - a, m, r, f + b, e, l)
  BY <1>5, <1>6 DEF Parts
<1>8. new = [q EXCEPT !.escrow = @ - a - b]
  BY <1>3, <1>7 DEF Parts
<1>9. new = [old EXCEPT !.held = @ - a, !.fees = @ + b, !.escrow = @ - a - b]
  BY <1>4, <1>6, <1>8
<1>10. CustodyOf!Release(old, new, issued)
  BY <1>2, <1>9 DEF CustodyOf!Release
<1>. QED BY <1>1, <1>10

\* The parts of every balance are numbers in every state,
LEMMA AccountsTyped ==
  FundsInv => \A t \in BridgedTokens :
                /\ Held(t) \in Nat /\ InTransit(t) \in Nat /\ Refundable(t) \in Nat
                /\ FeesOwed(t) \in Nat /\ Escrow(t) \in Nat /\ lost[t] \in Nat
                /\ IsIssued(t) => Escrow(t) = 0
<1> SUFFICES ASSUME FundsInv, NEW t \in BridgedTokens
             PROVE  /\ Held(t) \in Nat /\ InTransit(t) \in Nat /\ Refundable(t) \in Nat
                    /\ FeesOwed(t) \in Nat /\ Escrow(t) \in Nat /\ lost[t] \in Nat
                    /\ IsIssued(t) => Escrow(t) = 0
  OBVIOUS
<1>1. /\ Held(t) \in Nat /\ InTransit(t) \in Nat /\ Refundable(t) \in Nat
      /\ FeesOwed(t) \in Nat /\ lost[t] \in Nat
  BY Numbers, FundsAreNumbers DEF AllNumbers, FundNumbers, FundsInv
<1>2. Escrow(t) >= 0 /\ (IsIssued(t) => Escrow(t) = 0)
  BY DEF FundsInv, Accounted, Covered
<1>3. Escrow(t) \in Int
  BY <1>1 DEF Escrow
<1>. QED BY <1>1, <1>2, <1>3

\* What keeps the parts of a balance keeps the balance.
LEMMA KeptAccount ==
  ASSUME NEW t, AccountKept(t)
  PROVE  AccountOf(t)' = AccountOf(t)
<1>1. Escrow(t)' = Escrow(t)
  BY DEF AccountKept, Escrow
<1>. QED BY <1>1 DEF AccountKept, AccountOf

\* A transfer that failed is refundable, and a refund that was stored over is lost.
LEMMA FailedMoves ==
  ASSUME FundsInv, NEW t \in BridgedTokens, NEW coin, NEW over
  PROVE  /\ Failed(t, coin, over) => CustodyOf!Fail(AccountOf(t), AccountOf(t)')
         /\ Overwritten(t, over) => CustodyOf!Overwrite(AccountOf(t), AccountOf(t)')
<1>1. PICK h, m, r, f, e, l :
        /\ h = Held(t) /\ m = InTransit(t) /\ r = Refundable(t) /\ f = FeesOwed(t)
        /\ e = Escrow(t) /\ l = lost[t]
  OBVIOUS
<1>2. PICK h2, m2, r2, f2, e2, l2 :
        /\ h2 = Held(t)' /\ m2 = InTransit(t)' /\ r2 = Refundable(t)' /\ f2 = FeesOwed(t)'
        /\ e2 = Escrow(t)' /\ l2 = lost'[t]
  OBVIOUS
<1>3. /\ AccountOf(t) = Parts(h, m, r, f, e, l) /\ AccountOf(t)' = Parts(h2, m2, r2, f2, e2, l2)
      /\ e = h - m - r - f - l /\ e2 = h2 - m2 - r2 - f2 - l2
  BY <1>1, <1>2 DEF AccountOf, Escrow
<1>4. h \in Nat /\ m \in Nat /\ r \in Nat /\ f \in Nat /\ e \in Nat /\ l \in Nat
  BY <1>1, AccountsTyped
<1>5. ASSUME Failed(t, coin, over) PROVE CustodyOf!Fail(AccountOf(t), AccountOf(t)')
  <2>1. /\ coin \in Nat \ {0} /\ over \in Nat /\ m = m2 + coin /\ m2 \in Nat
        /\ r2 = r - over + coin /\ l2 = l + over /\ h2 = h /\ f2 = f
    BY <1>1, <1>2, <1>5 DEF Failed
  <2>2. e2 = e /\ m2 = m - coin /\ r2 = r + coin - over
    BY <1>3, <1>4, <2>1
  <2>3. CustodyOf!Fail(Parts(h, m, r, f, e, l), Parts(h2, m2, r2, f2, e2, l2))
    BY <1>4, <2>1, <2>2, FailMove
  <2>. QED BY <1>3, <2>1, <2>2, <2>3
<1>6. ASSUME Overwritten(t, over) PROVE CustodyOf!Overwrite(AccountOf(t), AccountOf(t)')
  <2>1. /\ over \in Nat \ {0} /\ r = r2 + over /\ r2 \in Nat /\ l2 = l + over
        /\ h2 = h /\ m2 = m /\ f2 = f
    BY <1>1, <1>2, <1>6 DEF Overwritten
  <2>2. e2 = e /\ r2 = r - over
    BY <1>3, <1>4, <2>1
  <2>3. CustodyOf!Overwrite(Parts(h, m, r, f, e, l), Parts(h2, m2, r2, f2, e2, l2))
    BY <1>4, <2>1, <2>2, OverwriteMove
  <2>. QED BY <1>3, <2>1, <2>2, <2>3
<1>. QED BY <1>5, <1>6

\* Fees are paid from what is owed as fees.
LEMMA FeesMove ==
  ASSUME FundsInv, NEW t \in BridgedTokens, NEW paid, FeesPaid(t, paid)
  PROVE  AccountOf(t)' = AccountOf(t) \/ CustodyOf!PayFees(AccountOf(t), AccountOf(t)')
<1>1. PICK h, m, r, f, e, l :
        /\ h = Held(t) /\ m = InTransit(t) /\ r = Refundable(t) /\ f = FeesOwed(t)
        /\ e = Escrow(t) /\ l = lost[t]
  OBVIOUS
<1>2. PICK h2, f2, e2 : h2 = h - paid /\ f2 = f - paid /\ e2 = Escrow(t)'
  OBVIOUS
<1>3. /\ AccountOf(t) = Parts(h, m, r, f, e, l) /\ AccountOf(t)' = Parts(h2, m, r, f2, e2, l)
      /\ e = h - m - r - f - l /\ e2 = h2 - m - r - f2 - l /\ paid \in Nat
  BY <1>1, <1>2 DEF AccountOf, Escrow, FeesPaid
<1>4. h \in Nat /\ m \in Nat /\ r \in Nat /\ f \in Nat /\ e \in Nat /\ l \in Nat
  BY <1>1, AccountsTyped
<1>5. e2 = e
  BY <1>2, <1>3, <1>4
<1>6. CASE paid = 0
  <2>1. h2 = h /\ f2 = f
    BY <1>2, <1>4, <1>6
  <2>. QED BY <1>3, <1>5, <2>1
<1>7. CASE paid # 0
  <2>1. f - f2 > 0 /\ h2 = h - (f - f2) /\ h2 \in Int /\ f2 \in Int
    BY <1>2, <1>3, <1>4, <1>7
  <2>2. CustodyOf!PayFees(Parts(h, m, r, f, e, l), Parts(h2, m, r, f2, e2, l))
    BY <1>4, <1>5, <2>1, FeeMove
  <2>. QED BY <1>3, <2>2
<1>. QED BY <1>6, <1>7

\* Whatever touches a token moves coins between the parts of its balance as Custody
\* allows, or leaves the balance alone.
LEMMA TouchedMoves ==
  ASSUME FundsInv, NEW t \in BridgedTokens, Touched(t), NEW issued, issued = IsIssued(t)
  PROVE  \/ AccountOf(t)' = AccountOf(t)
         \/ CustodyOf!OneTransfer(AccountOf(t), AccountOf(t)', issued)
<1>1. PICK h, m, r, f, e, l :
        /\ h = Held(t) /\ m = InTransit(t) /\ r = Refundable(t) /\ f = FeesOwed(t)
        /\ e = Escrow(t) /\ l = lost[t]
  OBVIOUS
<1>2. PICK h2, m2, r2, f2, e2, l2 :
        /\ h2 = Held(t)' /\ m2 = InTransit(t)' /\ r2 = Refundable(t)' /\ f2 = FeesOwed(t)'
        /\ e2 = Escrow(t)' /\ l2 = lost'[t]
  OBVIOUS
<1>3. /\ AccountOf(t) = Parts(h, m, r, f, e, l) /\ AccountOf(t)' = Parts(h2, m2, r2, f2, e2, l2)
      /\ e = h - m - r - f - l /\ e2 = h2 - m2 - r2 - f2 - l2
  BY <1>1, <1>2 DEF AccountOf, Escrow
<1>4. h \in Nat /\ m \in Nat /\ r \in Nat /\ f \in Nat /\ e \in Nat /\ l \in Nat
  BY <1>1, AccountsTyped
<1>5. ASSUME NEW amount, NEW sent, NEW charged, Credited(t, amount, sent, charged)
      PROVE  CustodyOf!OneTransfer(AccountOf(t), AccountOf(t)', issued)
  <2>1. /\ sent \in Nat \ {0} /\ charged \in Nat /\ m2 = m /\ r2 = r /\ f2 = f + charged /\ l2 = l
        /\ h2 = IF IsIssued(t) THEN h + charged ELSE h - sent
    BY <1>1, <1>2, <1>5 DEF Credited
  <2>2. CASE IsIssued(t)
    <3>0. issued = TRUE
      BY <2>2
    <3>1. h2 = h + charged /\ e2 = e
      BY <1>3, <1>4, <2>1, <2>2
    <3>2. CustodyOf!Release(AccountOf(t), AccountOf(t)', issued)
      <4>1. CustodyOf!Release(Parts(h, m, r, f, e, l), Parts(h2, m2, r2, f2, e2, l2), TRUE)
        <5>1. /\ h2 \in Int /\ m2 \in Int /\ r2 \in Int /\ f2 \in Int /\ e2 \in Int /\ l2 \in Int
              /\ f2 - f >= 0 /\ h2 = h + (f2 - f) /\ m2 = m /\ r2 = r /\ e2 = e /\ l2 = l
          BY <1>4, <2>1, <3>1
        <5>2. h \in Int /\ m \in Int /\ r \in Int /\ f \in Int /\ e \in Int /\ l \in Int
          BY <1>4
        <5>. QED BY <5>1, <5>2, MintMove
      <4>. QED BY <1>3, <3>0, <4>1
    <3>. QED BY <3>2 DEF CustodyOf!OneTransfer
  <2>3. CASE ~IsIssued(t)
    <3>1. h2 = h - sent /\ e2 = e - sent - charged
      BY <1>3, <1>4, <2>1, <2>3
    <3>2. CustodyOf!Release(AccountOf(t), AccountOf(t)', issued)
      <4>1. CustodyOf!Release(Parts(h, m, r, f, e, l), Parts(h2, m2, r2, f2, e2, l2), issued)
        BY <1>4, <2>1, <2>3, <3>1, ReleaseMove
      <4>. QED BY <1>3, <4>1, <2>1, <2>3, <3>1
    <3>. QED BY <3>2 DEF CustodyOf!OneTransfer
  <2>. QED BY <2>2, <2>3
<1>6. ASSUME NEW coin, NEW charged, Locked(t, coin, charged)
      PROVE  CustodyOf!OneTransfer(AccountOf(t), AccountOf(t)', issued)
  <2>1. /\ coin \in Nat \ {0} /\ charged \in Nat /\ h2 = h + coin + charged /\ m2 = m + coin
        /\ r2 = r /\ f2 = f + charged /\ l2 = l
    BY <1>1, <1>2, <1>6 DEF Locked
  <2>2. e2 = e
    BY <1>3, <1>4, <2>1
  <2>3. CustodyOf!Lock(AccountOf(t), AccountOf(t)')
    <3>1. CustodyOf!Lock(Parts(h, m, r, f, e, l), Parts(h2, m2, r2, f2, e2, l2))
      BY <1>4, <2>1, <2>2, LockMove
    <3>. QED BY <1>3, <3>1, <2>1, <2>2
  <2>. QED BY <2>3 DEF CustodyOf!OneTransfer
<1>7. ASSUME NEW coin, Burnt(t, coin)
      PROVE  CustodyOf!OneTransfer(AccountOf(t), AccountOf(t)', issued)
  <2>1. /\ coin \in Nat \ {0} /\ IsIssued(t) /\ m = m2 + coin /\ m2 \in Nat /\ h2 = h - coin
        /\ r2 = r /\ f2 = f /\ l2 = l
    BY <1>1, <1>2, <1>7 DEF Burnt
  <2>2. e2 = e /\ m2 = m - coin
    BY <1>3, <1>4, <2>1
  <2>3. CustodyOf!Arrive(AccountOf(t), AccountOf(t)', issued)
    <3>0. issued = TRUE
      BY <2>1
    <3>1. CustodyOf!Arrive(Parts(h, m, r, f, e, l), Parts(h2, m2, r2, f2, e2, l2), TRUE)
      <4>1. /\ h2 \in Int /\ m2 \in Int /\ r2 \in Int /\ f2 \in Int /\ e2 \in Int /\ l2 \in Int
            /\ m - m2 > 0 /\ h2 = h - (m - m2) /\ r2 = r /\ f2 = f /\ e2 = e /\ l2 = l
        BY <1>4, <2>1, <2>2
      <4>2. h \in Int /\ m \in Int /\ r \in Int /\ f \in Int /\ e \in Int /\ l \in Int
        BY <1>4
      <4>. QED BY <4>1, <4>2, BurnMove
    <3>. QED BY <1>3, <3>0, <3>1
  <2>. QED BY <2>3 DEF CustodyOf!OneTransfer
<1>8. ASSUME NEW sent, NEW spent, Executes(t, sent, spent)
      PROVE  \/ AccountOf(t)' = AccountOf(t)
             \/ CustodyOf!OneTransfer(AccountOf(t), AccountOf(t)', issued)
  <2>1. h2 = h /\ r2 = r /\ f2 = f /\ l2 = l
    BY <1>1, <1>2, <1>8 DEF Executes
  <2>2. CASE IsIssued(t)
    <3>1. m2 = m
      BY <1>1, <1>2, <1>8, <2>2 DEF Executes
    <3>. QED BY <1>3, <2>1, <3>1
  <2>3. CASE ~IsIssued(t)
    <3>1. PICK coin : coin \in Nat \ {0} /\ m = m2 + coin /\ m2 \in Nat
      BY <1>1, <1>2, <1>8, <2>3 DEF Executes
    <3>2. e2 = e + coin /\ m2 = m - coin
      BY <1>3, <1>4, <2>1, <3>1
    <3>3. CustodyOf!Arrive(AccountOf(t), AccountOf(t)', issued)
      <4>1. CustodyOf!Arrive(Parts(h, m, r, f, e, l), Parts(h2, m2, r2, f2, e2, l2), issued)
        BY <1>4, <2>1, <2>3, <3>1, <3>2, ArriveMove
      <4>. QED BY <1>3, <4>1, <2>1, <2>3, <3>1, <3>2
    <3>. QED BY <3>3 DEF CustodyOf!OneTransfer
  <2>. QED BY <2>2, <2>3
<1>9. ASSUME NEW coin, NEW over, Failed(t, coin, over)
      PROVE  CustodyOf!OneTransfer(AccountOf(t), AccountOf(t)', issued)
  BY <1>9, FailedMoves DEF CustodyOf!OneTransfer
<1>10. ASSUME NEW coin, Repaid(t, coin)
       PROVE  CustodyOf!OneTransfer(AccountOf(t), AccountOf(t)', issued)
  <2>1. /\ coin \in Nat \ {0} /\ r = r2 + coin /\ r2 \in Nat /\ h2 = h - coin
        /\ m2 = m /\ f2 = f /\ l2 = l
    BY <1>1, <1>2, <1>10 DEF Repaid
  <2>2. e2 = e /\ r2 = r - coin
    BY <1>3, <1>4, <2>1
  <2>3. CustodyOf!PayRefund(AccountOf(t), AccountOf(t)')
    <3>1. CustodyOf!PayRefund(Parts(h, m, r, f, e, l), Parts(h2, m2, r2, f2, e2, l2))
      BY <1>4, <2>1, <2>2, RefundMove
    <3>. QED BY <1>3, <3>1, <2>1, <2>2
  <2>. QED BY <2>3 DEF CustodyOf!OneTransfer
<1>11. ASSUME NEW amount, Deposited(t, amount) PROVE AccountOf(t)' = AccountOf(t)
  BY <1>11, KeptAccount DEF Deposited
<1>. QED BY <1>5, <1>6, <1>7, <1>8, <1>9, <1>10, <1>11 DEF Touched

\* The accounts that the bridge's state stands for
AccountsOf == [t \in BridgedTokens |-> AccountOf(t)]

\* They are accounts of Custody,
LEMMA CustodyTyped == FundsInv => CustodyOf!TypeOK
<1> SUFFICES ASSUME FundsInv PROVE AccountsOf \in [BridgedTokens -> CustodyOf!Account]
  BY DEF CustodyOf!TypeOK, AccountsOf, AccountOf, Parts
<1>1. ASSUME NEW t \in BridgedTokens PROVE AccountOf(t) \in CustodyOf!Account
  BY AccountsTyped DEF AccountOf, Parts, CustodyOf!Account
<1>. QED BY <1>1 DEF AccountsOf

\* empty at first,
LEMMA CustodyStarts == BridgeInit => CustodyOf!Init
<1> SUFFICES ASSUME BridgeInit, NEW t \in BridgedTokens
             PROVE  AccountOf(t) = Parts(0, 0, 0, 0, 0, 0)
  BY DEF CustodyOf!Init, AccountOf, Parts
<1>1. Held(t) = 0 /\ lost[t] = 0
  BY BankAssumption DEF BridgeInit, NoCoins, Held, BankAccount
<1>2. Escrow(t) = 0
  BY <1>1, NothingOwed DEF Escrow
<1>. QED BY <1>1, <1>2, NothingOwed DEF AccountOf

\* and every step moves coins between their parts as Custody allows.
LEMMA CustodyStep ==
  ASSUME FundsInv, FundsInv', [BridgeNext]_bridgeVars
  PROVE  CustodyOf!Next \/ AccountsOf' = AccountsOf
<1>1. PICK old, new : old = AccountsOf /\ new = AccountsOf'
  OBVIOUS
<1>2. \A t \in BridgedTokens : old[t] = AccountOf(t) /\ new[t] = AccountOf(t)'
  BY <1>1 DEF AccountsOf
<1>3. Outcome
  BY FundsOutcome DEF FundsInv
<1>4. CustodyOf!TypeOK'
  BY CustodyTyped, PTL
<1>5. ASSUME NEW t \in BridgedTokens, AccountKept(t) PROVE new[t] = old[t]
  BY <1>2, <1>5, KeptAccount
<1>6. CASE \A t \in BridgedTokens : new[t] = old[t]
  BY <1>1, <1>6 DEF AccountsOf
<1>7. CASE \A t \in BridgedTokens : new[t] = old[t] \/ CustodyOf!PayFees(old[t], new[t])
  BY <1>1, <1>4, <1>7 DEF CustodyOf!Next, AccountsOf, AccountOf, Parts
<1>8. ASSUME NEW t \in BridgedTokens, Touched(t), Untouched({t})
      PROVE  CustodyOf!Next \/ AccountsOf' = AccountsOf
  <2>1. \A u \in BridgedTokens \ {t} : new[u] = old[u]
    BY <1>5, <1>8 DEF Untouched
  <2>2. PICK issued : issued = (t \in {u \in BridgedTokens : IsIssued(u)})
    OBVIOUS
  <2>3. issued = IsIssued(t)
    BY <2>2 DEF IsIssued
  <2>4. \/ new[t] = old[t]
        \/ CustodyOf!OneTransfer(old[t], new[t], issued)
    BY <1>2, <1>8, <2>3, TouchedMoves
  <2>5. CASE new[t] = old[t]
    BY <1>6, <2>1, <2>5
  <2>6. CASE CustodyOf!OneTransfer(old[t], new[t], issued)
    <3>1. CustodyOf!OneTransfer(old[t], new[t], t \in {u \in BridgedTokens : IsIssued(u)})
      BY <2>2, <2>6
    <3>. QED BY <1>1, <1>4, <2>1, <3>1 DEF CustodyOf!Next, AccountsOf, AccountOf, Parts
  <2>. QED BY <2>4, <2>5, <2>6
<1>9. ASSUME NEW t \in BridgedTokens, NEW v \in BridgedTokens, NEW coin, NEW over, t # v,
             Failed(t, coin, 0), Overwritten(v, over), Untouched({t, v})
      PROVE  CustodyOf!Next
  <2>1. \A u \in BridgedTokens \ {t, v} : new[u] = old[u]
    BY <1>5, <1>9 DEF Untouched
  <2>2. CustodyOf!Fail(old[t], new[t]) /\ CustodyOf!Overwrite(old[v], new[v])
    BY <1>2, <1>9, FailedMoves
  <2>3. \E d, e \in BridgedTokens :
          /\ d # e /\ CustodyOf!Fail(AccountsOf[d], AccountsOf'[d])
          /\ CustodyOf!Overwrite(AccountsOf[e], AccountsOf'[e])
          /\ \A other \in BridgedTokens \ {d, e} : AccountsOf'[other] = AccountsOf[other]
    BY <1>1, <1>9, <2>1, <2>2
  <2>. QED BY <1>4, <2>3, Zenon DEF CustodyOf!Next, AccountsOf, AccountOf, Parts
<1>10. CASE \A t \in BridgedTokens : \E paid : FeesPaid(t, paid)
  BY <1>2, <1>7, <1>10, FeesMove
<1>11. CASE \A t \in BridgedTokens : AccountKept(t)
  BY <1>5, <1>6, <1>11
<1>. QED BY <1>3, <1>8, <1>9, <1>10, <1>11 DEF Outcome, Untouched

\* The bridge implements Custody, for all tokens, amounts, precisions, fees, relayers and
\* orders of messages: every message moves coins of one token between the parts of the
\* contract's balance as Custody allows (a claim of fees may name several, and a refund may
\* be stored over one of another token).  So nobody's claim is ever paid with another's coins.
THEOREM BridgeImplementsCustody == BridgeSpec => CoinsInCustody
<1>1. BridgeInit => CustodyOf!Init
  BY CustodyStarts
<1>2. FundsInv /\ FundsInv' /\ [BridgeNext]_bridgeVars => CustodyOf!Next \/ AccountsOf' = AccountsOf
  BY CustodyStep
<1>3. FundsInv /\ FundsInv' /\ [BridgeNext]_bridgeVars =>
        [CustodyOf!Next]_[t \in BridgedTokens |->
                [held |-> Held(t), transit |-> InTransit(t), refundable |-> Refundable(t),
                 fees |-> FeesOwed(t), escrow |-> Escrow(t), lost |-> lost[t]]]
  BY <1>2 DEF AccountsOf, AccountOf, Parts
<1>. QED BY <1>1, <1>3, FundsInOrder, PTL DEF BridgeSpec, CoinsInCustody, CustodyOf!Spec

=============================================================================
