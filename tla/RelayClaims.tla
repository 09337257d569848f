----------------------------- MODULE RelayClaims -----------------------------
(***************************************************************************)
(* Statements of the repository about operations on the XRPL that do not   *)
(* always hold when messages are late.  Each has a run in which TLC finds  *)
(* a behaviour of Relay that contradicts it.  The first holds where two    *)
(* quorums meet.                                                           *)
(***************************************************************************)
EXTENDS Relay

\* state.rs, PendingRefund: "Invalid transactions don't have a transaction hash because
\* they are never executed".  Unless two quorums always meet, votes of slow relayers about
\* an Invalid operation settle the next operation on its ticket, which was executed.
InvalidWasNeverExecuted ==
  [][\A key \in TransferKeys \ DOMAIN pendingOperations' :
       key \in Range(availableTickets') =>
         \A i \in DOMAIN ledger : ledger[i].tx.ticket # key]_relayVars

\* operation.rs, Operation: by the version "relayers can know if they need to provide
\* the signature again, for this version".  The next operation on a returned
\* ticket has version 1 too: a late signature is stored for it, and the relayer
\* cannot provide the right one any more.
SignaturesAreForThisOperation ==
  \A s \in signed : s.tx = TransactionOf(s.key)

=============================================================================
