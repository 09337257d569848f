-------------------------------- MODULE Relay --------------------------------
(***************************************************************************)
(* The contract together with the relayers and the XRPL.  Those two are    *)
(* outside the repository; they are modelled from how the contract uses    *)
(* them and from the workflow that spec/spec.md describes:                 *)
(*                                                                         *)
(*   - a relayer signs the transaction of a pending operation and sends    *)
(*     the signature, again as long as the contract does not have it;      *)
(*   - with enough valid signatures in the contract it submits the         *)
(*     transaction.  A malformed one is refused by every XRPL node, and    *)
(*     the relayer sends an Invalid result;                                *)
(*   - the XRPL validates a transaction if its signers are those of the    *)
(*     account, its fee is high enough and its ticket is not used;         *)
(*   - every relayer reports what it sees in the ledger.                   *)
(*                                                                         *)
(* A message of a relayer waits in `network' until it is delivered or      *)
(* lost, so it may reach the contract after the operation it was meant for *)
(* is gone.  Relayers are honest and use no other transaction than the one *)
(* of the operation they see.                                              *)
(***************************************************************************)
EXTENDS Operations

CONSTANTS
  RefusedRecipients,    \* recipients that make a transfer malformed on the XRPL
  XRPLHashes,           \* the hashes of validated transactions, in order
  FirstSequence,        \* the account sequence of the multisig at the start
  RecoveredTickets,     \* the number of tickets the owner asks for in RecoverTickets
  LoadFees,             \* fees the XRPL may ask for under load
  Cancels,              \* which operations the owner cancels
  Halters,              \* those who may halt the bridge
  MaxSends,             \* bound: transfers that users send
  MaxRejections,        \* bound: transactions that the XRPL rejects
  MaxSequence           \* bound: sequence numbers that operations use

ASSUME RelayAssumption ==
  /\ FirstSequence \in Nat /\ RecoveredTickets \in Nat \cup {None}
  /\ MaxSends \in Nat /\ MaxRejections \in Nat /\ MaxSequence \in Nat
  /\ LoadFees \subseteq Nat /\ None \notin Seq(Nat)
  /\ XRPLHashes \in Seq(TxHash)
  /\ Cancels \in {"none", "unsent", "any"} /\ Halters \subseteq Addr

\* The relayers and the thresholds of every term of office
RelayersEver ==
  {r.cosmos_address : r \in InitRelayers \cup UNION {s.new_relayers : s \in Rotations}}

Thresholds == {InitEvidenceThreshold} \cup {s.new_evidence_threshold : s \in Rotations}

\* Two quorums, of one term or of different ones, have a relayer in common.  The
\* contract does not ask for it; without it late votes may form a quorum.
QuorumsMeet ==
  /\ IsFiniteSet(RelayersEver)
  /\ \A x, y \in Thresholds : x + y > Cardinality(RelayersEver)

VARIABLES
  network,              \* signatures and Invalid results that relayers sent
  signed,               \* the transactions that the signatures in the contract sign
  submitted,            \* [tx, signers] submitted to the XRPL
  ledger,               \* the validated transactions of the multisig account
  xrplTickets,          \* tickets of the multisig account that are not used
  nextSequence,         \* its account sequence
  signerList,           \* its signers and their quorum
  loadFee,              \* the lowest fee that the XRPL accepts
  sends,                \* (history) transfers that were sent
  kept                  \* (history) those that were not turned into refunds

ledgerVars == <<ledger, xrplTickets, nextSequence, signerList>>
relayVars == <<vars, network, signed, submitted, ledgerVars, loadFee, sends, kept>>

-----------------------------------------------------------------------------
\* What a signature signs: everything of an operation that is in its transaction
TransactionOf(key) ==
  LET operation == pendingOperations[key]
  IN [ticket |-> operation.ticket_sequence, account |-> operation.account_sequence,
      operation_type |-> operation.operation_type, fee |-> operation.xrpl_base_fee]

Malformed(tx) ==
  tx.operation_type.type = "CosmosToXRPLTransfer"
    /\ tx.operation_type.recipient \in RefusedRecipients

XRPLAddressOf(relayer) ==
  (CHOOSE r \in config.relayers : r.cosmos_address = relayer).xrpl_address

SignersOf(relayers) == {r.xrpl_address : r \in relayers}

\* Relayers check the signatures that the contract has and use the valid ones, of
\* relayers in office.
ValidSignatures(key) ==
  {s \in signed : s.key = key /\ s.tx = TransactionOf(key) /\ is_relayer(s.relayer)}

\* Signatures of operations that are gone, or that a fee update removed
Forget(signatures) ==
  {s \in signatures : /\ s.key \in DOMAIN pendingOperations'
                      /\ \E t \in pendingOperations'[s.key].signatures : t.relayer = s.relayer}

TransferKeys ==
  {key \in DOMAIN pendingOperations :
     pendingOperations[key].operation_type.type = "CosmosToXRPLTransfer"}

\* The transfers that this step turns into refunds
Refunded(result) ==
  {key \in TransferKeys \ DOMAIN pendingOperations' :
     /\ result # "Accepted"
     /\ <<pendingOperations[key].operation_type.sender, pendingOperations[key].id>>
          \in DOMAIN pendingRefunds'}

\* What every message to the contract does to the variables of this module
AfterMessage(result) ==
  /\ signed' = Forget(signed)
  /\ kept' = kept - Cardinality(Refunded(result))
  /\ UNCHANGED <<submitted, ledgerVars, loadFee, sends>>

-----------------------------------------------------------------------------
\* When a transaction can be validated by the XRPL

SignedByQuorum(submission) ==
  /\ submission.signers \subseteq signerList.signers
  /\ Cardinality(submission.signers) >= signerList.quorum

SequenceUsable(tx) ==
  IF tx.ticket # None THEN tx.ticket \in xrplTickets ELSE tx.account = nextSequence

-----------------------------------------------------------------------------
\* Relayers

\* A relayer's messages are transactions of one account, sent one after the other.
Idle(relayer) == \A m \in network : m.relayer # relayer

SignatureOf(relayer, key) ==
  [kind |-> "signature", relayer |-> relayer, key |-> key,
   version |-> pendingOperations[key].version, tx |-> TransactionOf(key)]

Sign(relayer, key) ==
  /\ is_relayer(relayer)
  /\ \A s \in pendingOperations[key].signatures : s.relayer # relayer
  /\ Idle(relayer)
  /\ network' = network \cup {SignatureOf(relayer, key)}
  /\ UNCHANGED <<vars, signed, submitted, ledgerVars, loadFee, sends, kept>>

DeliverSignature(m) ==
  /\ m.kind = "signature"
  /\ SaveSignature(m.relayer, m.key, m.version)
  /\ network' = network \ {m}
  /\ signed' = signed \cup {[relayer |-> m.relayer, key |-> m.key, tx |-> m.tx]}
  /\ UNCHANGED <<submitted, ledgerVars, loadFee, sends, kept>>

Submission(key) ==
  [tx |-> TransactionOf(key), signers |-> {XRPLAddressOf(s.relayer) : s \in ValidSignatures(key)}]

CanSubmit(relayer, key) ==
  /\ is_relayer(relayer)
  /\ Cardinality(ValidSignatures(key)) >= config.evidence_threshold

\* An XRPL node takes a transaction with an unused ticket that it does not have yet.
Submit(relayer, key) ==
  /\ CanSubmit(relayer, key)
  /\ ~Malformed(TransactionOf(key))
  /\ SequenceUsable(TransactionOf(key))
  /\ \A s \in submitted : s.tx # TransactionOf(key) \/ ~SignedByQuorum(s)
  /\ submitted' = submitted \cup {Submission(key)}
  /\ UNCHANGED <<vars, network, signed, ledgerVars, loadFee, sends, kept>>

\* Allocations name an operation result, whatever their outcome.
ResultOf(hash, tx, result, tickets) ==
  [kind |-> "XRPLTransactionResult", tx_hash |-> hash,
   account_sequence |-> tx.account, ticket_sequence |-> tx.ticket,
   transaction_result |-> result,
   operation_result |-> IF tx.operation_type.type = "AllocateTickets"
                        THEN [tickets |-> tickets] ELSE None]

InvalidResult(relayer, key) ==
  [kind |-> "result", relayer |-> relayer,
   evidence |-> ResultOf(None, TransactionOf(key), "Invalid", None)]

ReportRefused(relayer, key) ==
  /\ CanSubmit(relayer, key)
  /\ Malformed(TransactionOf(key))
  /\ relayer \notin Votes(InvalidResult(relayer, key).evidence)
  /\ Idle(relayer)
  /\ network' = network \cup {InvalidResult(relayer, key)}
  /\ UNCHANGED <<vars, signed, submitted, ledgerVars, loadFee, sends, kept>>

DeliverResult(m) ==
  /\ m.kind = "result"
  /\ RecordEvidence(m.relayer, m.evidence) \/ ConfirmOperation(m.relayer, m.evidence)
  /\ network' = network \ {m}
  /\ AfterMessage(m.evidence.transaction_result)

\* A message is lost, or its delivery fails because the contract refuses it.
Lose(m) ==
  /\ network' = network \ {m}
  /\ UNCHANGED <<vars, signed, submitted, ledgerVars, loadFee, sends, kept>>

\* A relayer reports a validated transaction.
Report(relayer, entry) ==
  LET e == ResultOf(entry.hash, entry.tx, entry.result, entry.tickets)
  IN /\ RecordEvidence(relayer, e) \/ ConfirmOperation(relayer, e)
     /\ AfterMessage(entry.result)
     /\ UNCHANGED network

-----------------------------------------------------------------------------
\* The XRPL

\* The tickets that an accepted allocation creates
FirstTicket(tx) == IF tx.ticket # None THEN nextSequence ELSE nextSequence + 1

Granted(tx, result) ==
  IF tx.operation_type.type = "AllocateTickets" /\ result = "Accepted"
  THEN [i \in 1 .. tx.operation_type.number |-> FirstTicket(tx) + i - 1] ELSE None

Rejections == {i \in DOMAIN ledger : ledger[i].result = "Rejected"}

\* A transaction that the XRPL rejects uses up its ticket, too.
Validate(submission, result) ==
  LET tx == submission.tx
      granted == Granted(tx, result)
  IN /\ Len(ledger) < Len(XRPLHashes)
     /\ SignedByQuorum(submission)
     /\ SequenceUsable(tx)
     /\ tx.fee >= loadFee
     /\ result = "Rejected" => Cardinality(Rejections) < MaxRejections
     /\ ledger' = Append(ledger, [hash |-> XRPLHashes[Len(ledger) + 1], tx |-> tx,
                                  result |-> result, tickets |-> granted])
     /\ xrplTickets' = (xrplTickets \ {tx.ticket})
                         \cup (IF granted = None THEN {} ELSE Range(granted))
     /\ nextSequence' = FirstTicket(tx) + (IF granted = None THEN 0 ELSE Len(granted))
     /\ signerList' = IF tx.operation_type.type = "RotateKeys" /\ result = "Accepted"
                      THEN [signers |-> SignersOf(tx.operation_type.new_relayers),
                            quorum |-> tx.operation_type.new_evidence_threshold]
                      ELSE signerList
     /\ submitted' = {s \in submitted : s.tx.ticket # tx.ticket \/ s.tx.account # tx.account}
     /\ UNCHANGED <<vars, network, signed, loadFee, sends, kept>>

\* Load on the XRPL raises the fee.
RaiseLoad(fee) ==
  /\ fee > loadFee
  /\ loadFee' = fee
  /\ UNCHANGED <<vars, network, signed, submitted, ledgerVars, sends, kept>>

-----------------------------------------------------------------------------
\* Users and the owner

Send(send) ==
  /\ sends < MaxSends
  /\ SendToXRPL(send)
  /\ sends' = sends + 1
  /\ kept' = kept + 1
  /\ UNCHANGED <<network, signed, submitted, ledgerVars, loadFee>>

\* The owner raises the fee when the XRPL asks for more.
RaiseFee ==
  /\ config.xrpl_base_fee < loadFee
  /\ UpdateXRPLBaseFee(Owner, loadFee)
  /\ AfterMessage("Accepted")
  /\ UNCHANGED network

\* A transaction that is not malformed and was not submitted up to now
Unsent(tx) ==
  /\ ~Malformed(tx)
  /\ \A s \in submitted : s.tx.ticket # tx.ticket \/ s.tx.account # tx.account
  /\ SequenceUsable(tx)

OwnerNext ==
  \/ RecoverTickets(Owner, nextSequence, RecoveredTickets)
  \/ \E rotation \in Rotations :
        rotation.new_relayers # config.relayers /\ RotateKeys(Owner, rotation)
  \/ \E key \in DOMAIN pendingOperations :
        /\ Cancels = "any" \/ (Cancels = "unsent" /\ Unsent(TransactionOf(key)))
        /\ CancelPendingOperation(Owner, key)
  \/ ResumeBridge(Owner)

HaltNext == \E sender \in Halters : HaltBridge(sender)

-----------------------------------------------------------------------------
RelayInit ==
  /\ Init
  /\ network = {}
  /\ signed = {}
  /\ submitted = {}
  /\ ledger = <<>>
  /\ xrplTickets = {}
  /\ nextSequence = FirstSequence
  /\ signerList = [signers |-> SignersOf(InitRelayers), quorum |-> InitEvidenceThreshold]
  /\ loadFee = InitBaseFee
  /\ sends = 0
  /\ kept = 0

SignNextOf(relayer) == \E key \in DOMAIN pendingOperations : Sign(relayer, key)
SubmitNextOf(relayer) ==
  \E key \in DOMAIN pendingOperations : Submit(relayer, key) \/ ReportRefused(relayer, key)
DeliverNextOf(relayer) ==
  \E m \in network : m.relayer = relayer /\ (DeliverSignature(m) \/ DeliverResult(m))
LoseNextOf(relayer) == \E m \in network : m.relayer = relayer /\ Lose(m)
ReportNextOf(relayer) == \E i \in DOMAIN ledger : Report(relayer, ledger[i])
ValidateNext == \E submission \in submitted, result \in {"Accepted", "Rejected"} :
                  Validate(submission, result)

RelayNext ==
  \/ \E relayer \in Addr : SignNextOf(relayer)
  \/ \E relayer \in Addr : SubmitNextOf(relayer)
  \/ \E relayer \in Addr : DeliverNextOf(relayer)
  \/ \E relayer \in Addr : ReportNextOf(relayer)
  \/ \E relayer \in Addr : LoseNextOf(relayer)
  \/ ValidateNext
  \/ \E fee \in LoadFees : RaiseLoad(fee)
  \/ RaiseFee
  \/ \E send \in SendInputs : Send(send)
  \/ OwnerNext /\ AfterMessage("Invalid") /\ UNCHANGED network
  \/ HaltNext /\ AfterMessage("Invalid") /\ UNCHANGED network

RelaySpec == RelayInit /\ [][RelayNext]_relayVars

\* Relayers keep signing, submitting and reporting; a message that is sent again
\* and again is delivered at last, and none stays on its way for ever; the XRPL
\* validates what it can; the owner raises the fee when it has to.
RelayFairness ==
  /\ \A relayer \in Addr :
       /\ WF_relayVars(SignNextOf(relayer))
       /\ SF_relayVars(DeliverNextOf(relayer))
       /\ WF_relayVars(LoseNextOf(relayer))
       /\ WF_relayVars(SubmitNextOf(relayer))
       /\ WF_relayVars(ReportNextOf(relayer))
  /\ WF_relayVars(ValidateNext)
  /\ WF_relayVars(RaiseFee)

FairRelaySpec == RelaySpec /\ RelayFairness

-----------------------------------------------------------------------------
\* Properties

Delivered ==
  {i \in DOMAIN ledger : ledger[i].result = "Accepted"
                           /\ ledger[i].tx.operation_type.type = "CosmosToXRPLTransfer"}

\* A transfer is paid on the XRPL or refunded, and never both: those paid were all
\* kept by the bridge, and what it keeps is paid or still pending.  Votes and
\* signatures that arrive late, for tickets that were returned, must not count.
PaidOrRefunded ==
  /\ Cardinality(Delivered) <= kept
  /\ kept <= Cardinality(Delivered) + Cardinality(TransferKeys)

\* Tickets in the contract's queue are not used on the XRPL.
AvailableTicketsUnspent ==
  \A i \in DOMAIN availableTickets : availableTickets[i] \in xrplTickets

\* Every ticket that is not used on the XRPL is available to the contract, held by
\* a pending operation, or granted by an allocation whose result is still to come:
\* none is lost to rejected, refused, cancelled or late operations.
NoTicketLost ==
  \A ticket \in xrplTickets :
    \/ ticket \in Range(availableTickets)
    \/ ticket \in DOMAIN pendingOperations
    \/ \E i \in DOMAIN ledger :
         /\ ledger[i].tickets # None /\ ticket \in Range(ledger[i].tickets)
         /\ OperationKey(ledger[i].tx.ticket, ledger[i].tx.account) \in DOMAIN pendingOperations

\* The relayers of the contract are the signers of the account, except while the
\* contract waits for the result of a rotation that the XRPL has accepted.
SignersMatch ==
  \/ signerList = [signers |-> SignersOf(config.relayers),
                   quorum |-> config.evidence_threshold]
  \/ /\ pendingRotateKeys
     /\ \E key \in DOMAIN pendingOperations :
          LET type == pendingOperations[key].operation_type
          IN /\ type.type = "RotateKeys"
             /\ signerList = [signers |-> SignersOf(type.new_relayers),
                              quorum |-> type.new_evidence_threshold]

\* A pending operation is settled at last if the bridge stays active at last, in
\* spite of lost signatures, refused transactions, rejections and fee updates.
EveryOperationSettles ==
  <>[](config.bridge_state = "Active") =>
    \A key \in FirstSequence .. MaxSequence :
      key \in DOMAIN pendingOperations ~> key \notin DOMAIN pendingOperations

=============================================================================
