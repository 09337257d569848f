---------------------------- MODULE MCOperations ----------------------------
(***************************************************************************)
(* Instances of Operations for TLC.  XRPL addresses are strings, tickets   *)
(* are 1, 2, ..., account sequences start at 101, so that no evidence of   *)
(* the honest sets names an account sequence as a ticket or vice versa.    *)
(***************************************************************************)
EXTENDS Claims, Migration

CONSTANTS o, r1, r2, r3, r4, contract

\* Identities
MCXRP == <<"zero", "XRP">>
MCRelayer(address, xrpl) == [cosmos_address |-> address, xrpl_address |-> xrpl]
Identity == [h \in TxHash |-> h]
Account == 101

\* The evidences of every instance name tickets as the XRPL hands them out.
ASSUME GrantAssumption == TicketsGrantedOnce

\* Evidences
Result(hash, account, ticket, result, operationResult) ==
  [kind |-> "XRPLTransactionResult", tx_hash |-> hash, account_sequence |-> account,
   ticket_sequence |-> ticket, transaction_result |-> result,
   operation_result |-> operationResult]

Tickets(tickets) == [tickets |-> tickets]

TransferOf(hash, token, amount, recipient) ==
  [kind |-> "XRPLToCosmosTransfer", tx_hash |-> hash, token |-> token,
   amount |-> amount, recipient |-> recipient, memo |-> ""]

\* The first allocation, on an account sequence, that gives tickets 1 .. n.
FirstAllocation(hash, n) ==
  {Result(hash, Account, None, "Accepted", Tickets([i \in 1 .. n |-> i]))}

-----------------------------------------------------------------------------
\* Tickets: one relayer, a threshold of two used tickets, batches of tickets
\* each granted by one transaction, results of every kind for every ticket, and
\* a migration in between.

OneRelayer == {MCRelayer(r1, "x1")}

TicketEvidences ==
  FirstAllocation("A", 3)
    \cup {Result("A", Account, None, "Rejected", Tickets(None)),
          Result(None, Account, None, "Invalid", Tickets(None))}
    \cup {Result("B", None, t, "Accepted", Tickets(<<4, 5>>)) : t \in 1 .. 3}
    \cup {Result(h, None, t, "Accepted", None) : h \in {"C", "D", "E"}, t \in 1 .. 5}
    \cup {Result(h, None, t, "Rejected", Tickets(None)) : h \in {"C", "D"}, t \in 1 .. 5}
    \cup {Result(None, None, t, "Invalid", Tickets(None)) : t \in 1 .. 5}

TicketSends == {[sender |-> o, token |-> MCXRP, amount |-> 7, recipient |-> "x1"]}

\* A migration to another relayer that allocates tickets after each used one
ToR2 ==
  {[relayers |-> {MCRelayer(r2, "x1")}, evidence_threshold |-> 1,
    used_ticket_sequence_threshold |-> 1, xrpl_base_fee |-> InitBaseFee]}

-----------------------------------------------------------------------------
\* Votes, rotation and an XRPL token: three relayers of whom two must agree.  The
\* relayers may report one hash in two spellings ("b", "B") and with two contents,
\* and any result for the rotation and for the trust line of the token, whichever
\* has the ticket.  The rotation replaces r1 and r3 by r4 and keeps the threshold,
\* or leaves r4 alone; three more rotations are refused, and so are tokens issued by
\* the multisig account and transfers to it.

ThreeRelayers == {MCRelayer(r1, "x1"), MCRelayer(r2, "x2"), MCRelayer(r3, "x3")}

RotationInputs ==
  {[new_relayers |-> {MCRelayer(r2, "x2"), MCRelayer(r4, "x4")}, new_evidence_threshold |-> 2],
   [new_relayers |-> {MCRelayer(r4, "x4")}, new_evidence_threshold |-> 1],
   [new_relayers |-> {MCRelayer(r2, "x2"), MCRelayer(r4, "x2")}, new_evidence_threshold |-> 1],
   [new_relayers |-> {MCRelayer(r2, "bridge")}, new_evidence_threshold |-> 1],
   [new_relayers |-> {MCRelayer(r4, "x4")}, new_evidence_threshold |-> 2]}

Spelling == [h \in TxHash |-> IF h = "b" THEN "B" ELSE h]

RotationEvidences ==
  FirstAllocation("A", 3)
    \cup {TransferOf("b", MCXRP, 7, o), TransferOf("B", MCXRP, 7, o),
          TransferOf("B", MCXRP, 7, contract)}
    \cup {Result("C", None, 1, "Accepted", None), Result(None, None, 1, "Invalid", None),
          Result("D", None, 2, "Rejected", None)}

USD == <<"iss", "USD">>

TokenInputs == {USD, <<"bridge", "USD">>, <<"iss", "XRP">>}

ToMultisig == {[sender |-> o, token |-> USD, amount |-> 7, recipient |-> "bridge"]}

-----------------------------------------------------------------------------
\* The violations: honest relayers, the smallest instances.

\* Every result of an XRPL transaction for the tickets 1 .. 3, each hash for one
\* ticket, and full batches of new tickets.
HonestEvidences ==
  FirstAllocation("A", 3)
    \cup {Result(<<"B", "C", "D">>[t], None, t, "Accepted", None) : t \in 1 .. 3}
    \cup {Result("D", None, 3, "Accepted", Tickets(<<4, 5>>))}
    \cup {Result(None, None, t, "Invalid", Tickets(None)) : t \in 1 .. 3}

=============================================================================
