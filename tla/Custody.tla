------------------------------- MODULE Custody -------------------------------
(***************************************************************************)
(* What the bridge promises about the coins it holds.  For every denom the *)
(* contract's balance is divided into what is in transit to the XRPL, what *)
(* senders may take back, what relayers earned and what backs the amount   *)
(* that circulates on the XRPL; `lost' is what nobody can ever claim.      *)
(* Coins move between the parts, in and out, only as the actions say, and  *)
(* a step moves coins of one denom (a claim of fees may name several, and  *)
(* a refund may be stored over one of another denom).                      *)
(*                                                                         *)
(* Nothing here knows of tickets, evidences or operations.  An action is   *)
(* a relation between the account of a denom before and after it.          *)
(***************************************************************************)
EXTENDS Integers

CONSTANTS
  Denom,
  Issued        \* the denoms the bridge mints and burns

VARIABLE account        \* the balance of each denom and its parts

Account ==
  [held : Nat, transit : Nat, refundable : Nat, fees : Nat, escrow : Nat, lost : Nat]

TypeOK == account \in [Denom -> Account]

Init ==
  account = [d \in Denom |-> [held |-> 0, transit |-> 0, refundable |-> 0, fees |-> 0,
                              escrow |-> 0, lost |-> 0]]

-----------------------------------------------------------------------------
\* A transfer starts: what the sender paid is in transit, or fees.
Lock(old, new) ==
  LET sent == new.transit - old.transit
      charged == new.fees - old.fees
  IN /\ sent > 0 /\ charged >= 0
     /\ new = [old EXCEPT !.transit = @ + sent, !.fees = @ + charged,
                          !.held = @ + sent + charged]

\* A transfer arrived: an issued denom is burnt, another one stays as escrow.
Arrive(old, new, issued) ==
  LET sent == old.transit - new.transit
  IN /\ sent > 0
     /\ new = IF issued THEN [old EXCEPT !.transit = @ - sent, !.held = @ - sent]
                        ELSE [old EXCEPT !.transit = @ - sent, !.escrow = @ + sent]

\* A transfer failed: its sender may take it back.  A refund that is stored over
\* another one makes that one unclaimable.
Fail(old, new) ==
  LET sent == old.transit - new.transit
      overwritten == new.lost - old.lost
  IN /\ sent > 0 /\ overwritten >= 0
     /\ new = [old EXCEPT !.transit = @ - sent, !.refundable = @ + sent - overwritten,
                          !.lost = @ + overwritten]

\* The refund that is stored over may be one of another denom.
Overwrite(old, new) ==
  LET overwritten == new.lost - old.lost
  IN /\ overwritten > 0
     /\ new = [old EXCEPT !.refundable = @ - overwritten, !.lost = @ + overwritten]

PayRefund(old, new) ==
  LET paid == old.refundable - new.refundable
  IN /\ paid > 0
     /\ new = [old EXCEPT !.refundable = @ - paid, !.held = @ - paid]

PayFees(old, new) ==
  LET paid == old.fees - new.fees
  IN /\ paid > 0
     /\ new = [old EXCEPT !.fees = @ - paid, !.held = @ - paid]

\* A transfer from the XRPL is paid out.  Of an issued denom only the fees pass
\* through the contract; another one is taken from the escrow, fees included.
Release(old, new, issued) ==
  LET charged == new.fees - old.fees
      paid == old.held - new.held
  IN /\ charged >= 0
     /\ IF issued
        THEN new = [old EXCEPT !.fees = @ + charged, !.held = @ + charged]
        ELSE /\ paid > 0
             /\ new = [old EXCEPT !.held = @ - paid, !.fees = @ + charged,
                                  !.escrow = @ - paid - charged]

OneTransfer(old, new, issued) ==
  \/ Lock(old, new)
  \/ Arrive(old, new, issued)
  \/ Fail(old, new)
  \/ PayRefund(old, new)
  \/ Release(old, new, issued)

Next ==
  /\ TypeOK'
  /\ \/ \E d \in Denom :
          /\ OneTransfer(account[d], account'[d], d \in Issued)
          /\ \A other \in Denom \ {d} : account'[other] = account[other]
     \/ \E d, e \in Denom :
          /\ d # e /\ Fail(account[d], account'[d]) /\ Overwrite(account[e], account'[e])
          /\ \A other \in Denom \ {d, e} : account'[other] = account[other]
     \/ \A d \in Denom : PayFees(account[d], account'[d]) \/ account'[d] = account[d]

Spec == Init /\ [][Next]_account

-----------------------------------------------------------------------------
\* The contract holds exactly what it owes: every coin is in one part, nothing is
\* owed twice, and an issued denom is never kept without being owed.
HeldIsOwed ==
  \A d \in Denom :
    /\ account[d].held = account[d].transit + account[d].refundable + account[d].fees
                           + account[d].escrow + account[d].lost
    /\ d \in Issued => account[d].escrow = 0

=============================================================================
