---------------------------- MODULE CustodyProofs ----------------------------
(***************************************************************************)
(* What Custody promises about the coins of the contract, for every set of *)
(* denoms and every amount.                                                *)
(***************************************************************************)
EXTENDS Custody, TLAPS

\* The account of one denom is balanced.
Balanced(a, issued) ==
  /\ a.held = a.transit + a.refundable + a.fees + a.escrow + a.lost
  /\ issued => a.escrow = 0

\* Every movement of coins of a denom keeps its account balanced.
LEMMA MovementBalanced ==
  ASSUME NEW old \in Account, NEW new \in Account, NEW issued, Balanced(old, issued),
         OneTransfer(old, new, issued) \/ PayFees(old, new) \/ Overwrite(old, new)
  PROVE  Balanced(new, issued)
<1>1. /\ old.held \in Nat /\ old.transit \in Nat /\ old.refundable \in Nat
      /\ old.fees \in Nat /\ old.escrow \in Nat /\ old.lost \in Nat
  BY DEF Account
<1>2. /\ new.held \in Nat /\ new.transit \in Nat /\ new.refundable \in Nat
      /\ new.fees \in Nat /\ new.escrow \in Nat /\ new.lost \in Nat
  BY DEF Account
<1>3. CASE Lock(old, new)
  <2> DEFINE s == new.transit - old.transit
             c == new.fees - old.fees
  <2>1. new = [old EXCEPT !.transit = @ + s, !.fees = @ + c, !.held = @ + s + c]
    BY <1>3 DEF Lock
  <2> HIDE DEF s, c
  <2>2. /\ new.held = old.held + s + c /\ new.refundable = old.refundable
        /\ new.escrow = old.escrow /\ new.lost = old.lost
    BY <2>1 DEF Account
  <2>. QED BY <1>1, <1>2, <2>2 DEF Balanced, s, c
<1>4. CASE Arrive(old, new, issued)
  <2> DEFINE s == old.transit - new.transit
  <2>1. CASE issued
    <3>1. new = [old EXCEPT !.transit = @ - s, !.held = @ - s]
      BY <1>4, <2>1 DEF Arrive
    <3> HIDE DEF s
    <3>2. /\ new.held = old.held - s /\ new.refundable = old.refundable
          /\ new.fees = old.fees /\ new.escrow = old.escrow /\ new.lost = old.lost
      BY <3>1 DEF Account
    <3>. QED BY <1>1, <1>2, <3>2 DEF Balanced, s
  <2>2. CASE ~issued
    <3>1. new = [old EXCEPT !.transit = @ - s, !.escrow = @ + s]
      BY <1>4, <2>2 DEF Arrive
    <3> HIDE DEF s
    <3>2. /\ new.held = old.held /\ new.refundable = old.refundable
          /\ new.fees = old.fees /\ new.escrow = old.escrow + s /\ new.lost = old.lost
      BY <3>1 DEF Account
    <3>. QED BY <1>1, <1>2, <2>2, <3>2 DEF Balanced, s
  <2>. QED BY <2>1, <2>2
<1>5. CASE Fail(old, new)
  <2> DEFINE s == old.transit - new.transit
             o == new.lost - old.lost
  <2>1. new = [old EXCEPT !.transit = @ - s, !.refundable = @ + s - o, !.lost = @ + o]
    BY <1>5 DEF Fail
  <2> HIDE DEF s, o
  <2>2. /\ new.held = old.held /\ new.refundable = old.refundable + s - o
        /\ new.fees = old.fees /\ new.escrow = old.escrow
    BY <2>1 DEF Account
  <2>. QED BY <1>1, <1>2, <2>2 DEF Balanced, s, o
<1>6. CASE PayRefund(old, new)
  <2> DEFINE p == old.refundable - new.refundable
  <2>1. new = [old EXCEPT !.refundable = @ - p, !.held = @ - p]
    BY <1>6 DEF PayRefund
  <2> HIDE DEF p
  <2>2. /\ new.held = old.held - p /\ new.transit = old.transit
        /\ new.fees = old.fees /\ new.escrow = old.escrow /\ new.lost = old.lost
    BY <2>1 DEF Account
  <2>. QED BY <1>1, <1>2, <2>2 DEF Balanced, p
<1>7. CASE PayFees(old, new)
  <2> DEFINE p == old.fees - new.fees
  <2>1. new = [old EXCEPT !.fees = @ - p, !.held = @ - p]
    BY <1>7 DEF PayFees
  <2> HIDE DEF p
  <2>2. /\ new.held = old.held - p /\ new.transit = old.transit
        /\ new.refundable = old.refundable /\ new.escrow = old.escrow /\ new.lost = old.lost
    BY <2>1 DEF Account
  <2>. QED BY <1>1, <1>2, <2>2 DEF Balanced, p
<1>8. CASE Release(old, new, issued)
  <2> DEFINE c == new.fees - old.fees
             p == old.held - new.held
  <2>1. CASE issued
    <3>1. new = [old EXCEPT !.fees = @ + c, !.held = @ + c]
      BY <1>8, <2>1 DEF Release
    <3> HIDE DEF c, p
    <3>2. /\ new.held = old.held + c /\ new.transit = old.transit
          /\ new.refundable = old.refundable /\ new.escrow = old.escrow /\ new.lost = old.lost
      BY <3>1 DEF Account
    <3>. QED BY <1>1, <1>2, <3>2 DEF Balanced, c
  <2>2. CASE ~issued
    <3>1. new = [old EXCEPT !.held = @ - p, !.fees = @ + c, !.escrow = @ - p - c]
      BY <1>8, <2>2 DEF Release
    <3> HIDE DEF c, p
    <3>2. /\ new.transit = old.transit /\ new.refundable = old.refundable
          /\ new.escrow = old.escrow - p - c /\ new.lost = old.lost
      BY <3>1 DEF Account
    <3>. QED BY <1>1, <1>2, <2>2, <3>2 DEF Balanced, c, p
  <2>. QED BY <2>1, <2>2
<1>9. CASE Overwrite(old, new)
  <2> DEFINE o == new.lost - old.lost
  <2>1. new = [old EXCEPT !.refundable = @ - o, !.lost = @ + o]
    BY <1>9 DEF Overwrite
  <2> HIDE DEF o
  <2>2. /\ new.held = old.held /\ new.transit = old.transit
        /\ new.refundable = old.refundable - o
        /\ new.fees = old.fees /\ new.escrow = old.escrow
    BY <2>1 DEF Account
  <2>. QED BY <1>1, <1>2, <2>2 DEF Balanced, o
<1>. QED BY <1>3, <1>4, <1>5, <1>6, <1>7, <1>8, <1>9 DEF OneTransfer

\* The contract holds exactly what it owes, of every denom and whatever messages
\* arrive: no movement of coins creates a claim without a coin or keeps a coin
\* without a claim.
THEOREM HeldIsOwedAlways == Spec => []HeldIsOwed
<1> DEFINE Inv == TypeOK /\ HeldIsOwed
<1>1. Init => Inv
  BY DEF Init, TypeOK, HeldIsOwed, Account
<1>2. Inv /\ [Next]_account => Inv'
  <2> SUFFICES ASSUME TypeOK, HeldIsOwed, [Next]_account PROVE TypeOK' /\ HeldIsOwed'
    OBVIOUS
  <2>1. TypeOK'
    BY DEF Next, TypeOK
  <2>2. \A d \in Denom : account[d] \in Account /\ Balanced(account[d], d \in Issued)
    BY DEF TypeOK, HeldIsOwed, Balanced
  <2>3. \A d \in Denom : \/ account'[d] = account[d]
                         \/ OneTransfer(account[d], account'[d], d \in Issued)
                         \/ PayFees(account[d], account'[d])
                         \/ Overwrite(account[d], account'[d])
    BY DEF Next, OneTransfer
  <2>4. ASSUME NEW d \in Denom PROVE Balanced(account'[d], d \in Issued)
    <3>1. account'[d] \in Account
      BY <2>1 DEF TypeOK
    <3>2. CASE account'[d] = account[d]
      BY <2>2, <3>2
    <3>3. CASE \/ OneTransfer(account[d], account'[d], d \in Issued)
               \/ PayFees(account[d], account'[d])
               \/ Overwrite(account[d], account'[d])
      BY <2>2, <3>1, <3>3, MovementBalanced
    <3>. QED BY <2>3, <3>2, <3>3
  <2>. QED BY <2>1, <2>4 DEF HeldIsOwed, Balanced
<1>3. Inv => HeldIsOwed
  OBVIOUS
<1>. QED BY <1>1, <1>2, <1>3, PTL DEF Spec

=============================================================================
