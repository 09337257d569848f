----------------------------- MODULE RelayProofs -----------------------------
(***************************************************************************)
(* Proofs about Relay: the contract, the messages in flight and the XRPL   *)
(* together, for every number of relayers, transfers, rotations, refused   *)
(* and rejected transactions.                                              *)
(***************************************************************************)
EXTENDS RelayClaims, OperationsProofs

-----------------------------------------------------------------------------
\* The invariant.  What depends on the available tickets and the queue has them
\* as parameters, since a message may change them twice: it settles an operation
\* and starts the next one.

Transaction ==
  [ticket : Nat \cup {None}, account : Nat \cup {None}, operation_type : OperationType, fee : Nat]

\* The key of the operation that a transaction is for
KeyOf(tx) == OperationKey(tx.ticket, tx.account)

\* A transaction of the operation, with any fee
IsFor(tx, operation) ==
  /\ tx.ticket = operation.ticket_sequence
  /\ tx.account = operation.account_sequence
  /\ tx.operation_type = operation.operation_type

Allocates(entry) ==
  entry.tx.operation_type.type = "AllocateTickets" /\ entry.result = "Accepted"

LedgerEntry ==
  [hash : TxHash, tx : Transaction, result : {"Accepted", "Rejected"},
   tickets : Seq(Nat) \cup {None}]

\* The ledger knows each sequence number once, and none of them can be used again.
EntryOK(entry) ==
  /\ entry.hash \in TxHash
  /\ entry.tx \in Transaction
  /\ ~Malformed(entry.tx)
  /\ entry.result \in {"Accepted", "Rejected"}
  /\ IF Allocates(entry) THEN entry.tickets \in Seq(Nat) /\ IsInjective(entry.tickets)
                         ELSE entry.tickets = None
  /\ KeyOf(entry.tx) \in Nat
  /\ KeyOf(entry.tx) < nextSequence
  /\ KeyOf(entry.tx) \notin xrplTickets

LedgerOK ==
  /\ nextSequence \in Nat
  /\ \A ticket \in xrplTickets : ticket \in Nat /\ ticket < nextSequence
  /\ ledger \in Seq(LedgerEntry)
  /\ \A i \in DOMAIN ledger : EntryOK(ledger[i])
  /\ \A i, j \in DOMAIN ledger : KeyOf(ledger[i].tx) = KeyOf(ledger[j].tx) => i = j

\* An operation is stored under its ticket, or it is a recovery on an account
\* sequence.  Its sequence number can be used, or it is in the ledger.
StoredUnder(key, operation) ==
  \/ /\ operation.ticket_sequence = key
     /\ operation.account_sequence = None
     /\ key \in xrplTickets \/ \E i \in DOMAIN ledger : KeyOf(ledger[i].tx) = key
  \/ /\ operation.ticket_sequence = None
     /\ operation.account_sequence = key
     /\ operation.operation_type.type = "AllocateTickets"
     /\ key = nextSequence \/ \E i \in DOMAIN ledger : KeyOf(ledger[i].tx) = key

\* What the operations and the ledger have to do with each other: the tickets that
\* an allocation created are not held by anybody until its result is confirmed.
EntryKnown(entry, tickets, operations) ==
  KeyOf(entry.tx) \in DOMAIN operations =>
    /\ IsFor(entry.tx, operations[KeyOf(entry.tx)])
    /\ Allocates(entry) =>
         Range(entry.tickets) \subseteq xrplTickets \ (Range(tickets) \cup DOMAIN operations)

SubmissionOK(submission, operations) ==
  LET tx == submission.tx
  IN /\ tx \in Transaction
     /\ ~Malformed(tx)
     /\ SequenceUsable(tx)
     /\ KeyOf(tx) \in DOMAIN operations
     /\ IsFor(tx, operations[KeyOf(tx)])

QueueOK(tickets, operations) ==
  /\ IsInjective(tickets)
  /\ Range(tickets) \subseteq xrplTickets \ DOMAIN operations
  /\ IsFiniteSet(DOMAIN operations)
  /\ \A key \in DOMAIN operations : StoredUnder(key, operations[key])
  /\ \A i \in DOMAIN ledger : EntryKnown(ledger[i], tickets, operations)
  /\ \A s \in submitted : SubmissionOK(s, operations)

\* Relayers and thresholds are those of some term of office.
TermsOK ==
  /\ relayerAddresses \subseteq RelayersEver
  /\ config.evidence_threshold \in Thresholds
  /\ \A key \in PendingOfType("RotateKeys") :
       LET rotation == pendingOperations[key].operation_type
       IN /\ {r.cosmos_address : r \in rotation.new_relayers} \subseteq RelayersEver
          /\ rotation.new_evidence_threshold \in Thresholds

\* The evidence that the transaction on a ticket is refused
Refusal(ticket) ==
  [kind |-> "XRPLTransactionResult", tx_hash |-> None, account_sequence |-> None,
   ticket_sequence |-> ticket, transaction_result |-> "Invalid", operation_result |-> None]

\* Those who voted for it, and those whose vote is on its way
OnTheWay(ticket) ==
  {r \in RelayersEver :
     [kind |-> "result", relayer |-> r, evidence |-> Refusal(ticket)] \in network}
Refusing(ticket) == Votes(Refusal(ticket)) \cup OnTheWay(ticket)

IsRefused(ticket) ==
  ticket \in DOMAIN pendingOperations /\ Malformed(TransactionOf(ticket))

\* Unless its operation is really refused, too few relayers say so of a ticket.
RefusalsOK ==
  /\ \A m \in network : m.kind = "result" =>
       \E ticket \in Nat : \E r \in RelayersEver \ Votes(Refusal(ticket)) :
         m = [kind |-> "result", relayer |-> r, evidence |-> Refusal(ticket)]
  /\ \A ticket \in Nat :
       IsRefused(ticket) \/ \A x \in Thresholds : Cardinality(Refusing(ticket)) < x

\* Rotations that the XRPL has accepted and the contract has not confirmed
Rotated ==
  {i \in DOMAIN ledger : /\ ledger[i].tx.operation_type.type = "RotateKeys"
                         /\ ledger[i].result = "Accepted"
                         /\ KeyOf(ledger[i].tx) \in DOMAIN pendingOperations}

SignerListOf(relayers, threshold) == [signers |-> SignersOf(relayers), quorum |-> threshold]

SignersOK ==
  /\ Rotated = {} => signerList = SignerListOf(config.relayers, config.evidence_threshold)
  /\ \A i \in Rotated :
       LET rotation == ledger[i].tx.operation_type
       IN signerList = SignerListOf(rotation.new_relayers, rotation.new_evidence_threshold)

\* Every transfer that is kept is paid, or is pending and not paid yet.
Unpaid == {key \in TransferKeys : \A i \in Delivered : KeyOf(ledger[i].tx) # key}

KeptOK == kept = Cardinality(Delivered) + Cardinality(Unpaid)

ContractInv == TypeOK /\ TicketUpdateFlag /\ RotationHaltsBridge /\ VotesInv

RelayInv ==
  /\ ContractInv
  /\ LedgerOK
  /\ QueueOK(availableTickets, pendingOperations)
  /\ TermsOK
  /\ RefusalsOK
  /\ SignersOK
  /\ KeptOK

-----------------------------------------------------------------------------
\* How the queue may change while the XRPL stays as it is

\* The invariant of the queue speaks of the XRPL as it is.
LEMMA QueueMoves ==
  ASSUME UNCHANGED <<submitted, ledgerVars>>, QueueOK(availableTickets', pendingOperations')
  PROVE  QueueOK(availableTickets, pendingOperations)'
  BY DEF QueueOK, StoredUnder, EntryKnown, SubmissionOK, SequenceUsable, ledgerVars, Malformed,
         KeyOf, IsFor, Allocates, OperationKey

\* Versions, fees and signatures do not matter to it.
LEMMA QueueRenewed ==
  ASSUME NEW tickets, NEW operations, NEW after, QueueOK(tickets, operations),
         DOMAIN after = DOMAIN operations,
         \A key \in DOMAIN operations :
           /\ after[key].ticket_sequence = operations[key].ticket_sequence
           /\ after[key].account_sequence = operations[key].account_sequence
           /\ after[key].operation_type = operations[key].operation_type
  PROVE  QueueOK(tickets, after)
<1>1. \A key \in DOMAIN after : StoredUnder(key, after[key])
  BY DEF QueueOK, StoredUnder
<1>2. ASSUME NEW tx, KeyOf(tx) \in DOMAIN after PROVE IsFor(tx, after[KeyOf(tx)]) <=> IsFor(tx, operations[KeyOf(tx)])
  BY <1>2 DEF IsFor
<1>3. \A i \in DOMAIN ledger : EntryKnown(ledger[i], tickets, after)
  BY <1>2 DEF QueueOK, EntryKnown
<1>4. \A s \in submitted : SubmissionOK(s, after)
  BY <1>2 DEF QueueOK, SubmissionOK
<1>. QED BY <1>1, <1>3, <1>4 DEF QueueOK

\* A new operation is stored under a number that the ledger does not have.
LEMMA QueueAdded ==
  ASSUME NEW tickets, NEW fewer, NEW operations, NEW after, NEW key,
         QueueOK(tickets, operations), key \notin DOMAIN operations,
         IsInjective(fewer), Range(fewer) \subseteq Range(tickets) \ {key},
         DOMAIN after = DOMAIN operations \cup {key},
         \A i \in DOMAIN operations : after[i] = operations[i],
         StoredUnder(key, after[key]),
         \A i \in DOMAIN ledger : KeyOf(ledger[i].tx) # key,
         \A i \in DOMAIN ledger :
           /\ KeyOf(ledger[i].tx) \in DOMAIN operations
           /\ Allocates(ledger[i])
           => key \notin Range(ledger[i].tickets)
  PROVE  QueueOK(fewer, after)
<1>1. IsFiniteSet(DOMAIN after)
  BY FS_AddElement DEF QueueOK
<1>2. \A i \in DOMAIN after : StoredUnder(i, after[i])
  BY DEF QueueOK
<1>3. \A i \in DOMAIN ledger : EntryKnown(ledger[i], fewer, after)
  BY DEF QueueOK, EntryKnown
<1>4. \A s \in submitted : SubmissionOK(s, after)
  BY DEF QueueOK, SubmissionOK
<1>. QED BY <1>1, <1>2, <1>3, <1>4 DEF QueueOK

\* An operation may take the next ticket.
LEMMA QueueTaken ==
  ASSUME LedgerOK, NEW tickets \in Seq(Nat), tickets # <<>>, NEW operations,
         QueueOK(tickets, operations), NEW operationType, NEW after,
         after = create_pending_operation(operations, Head(tickets), None, operationType)
  PROVE  /\ QueueOK(Tail(tickets), after)
         /\ Head(tickets) \in xrplTickets \ DOMAIN operations
         /\ Head(tickets) \in Nat
<1>1. PICK key \in Nat : key = Head(tickets)
  OBVIOUS
<1>2. key = OperationKey(key, None)
  BY IdentityAssumption DEF OperationKey
<1>3. /\ DOMAIN after = DOMAIN operations \cup {key}
      /\ after[key].ticket_sequence = key
      /\ after[key].account_sequence = None
      /\ \A i \in DOMAIN operations : i # key => after[i] = operations[i]
  BY <1>1, <1>2 DEF create_pending_operation, Put
<1>4. /\ IsInjective(Tail(tickets)) /\ Range(Tail(tickets)) \subseteq Range(tickets) \ {key}
      /\ key \in Range(tickets)
  BY <1>1, TailTickets DEF QueueOK
<1>5. key \in xrplTickets \ DOMAIN operations
  BY <1>4 DEF QueueOK
<1>6. \A i \in DOMAIN ledger : KeyOf(ledger[i].tx) # key
  BY <1>5 DEF LedgerOK, EntryOK
<1>7. \A i \in DOMAIN ledger :
        KeyOf(ledger[i].tx) \in DOMAIN operations /\ Allocates(ledger[i])
          => key \notin Range(ledger[i].tickets)
  BY <1>4 DEF QueueOK, EntryKnown
<1>8. StoredUnder(key, after[key])
  BY <1>3, <1>5 DEF StoredUnder
<1>9. \A i \in DOMAIN operations : after[i] = operations[i]
  BY <1>3, <1>5
<1>10. QueueOK(Tail(tickets), after)
  BY <1>3, <1>4, <1>5, <1>6, <1>7, <1>8, <1>9, QueueAdded
<1>. QED BY <1>1, <1>5, <1>10

\* A recovery may take the account sequence.
LEMMA QueueRecovered ==
  ASSUME LedgerOK, NEW operations, QueueOK(<<>>, operations), nextSequence \notin DOMAIN operations,
         NEW operationType, operationType.type = "AllocateTickets", NEW after,
         after = create_pending_operation(operations, None, nextSequence, operationType)
  PROVE  QueueOK(<<>>, after)
<1>1. PICK key : key = nextSequence
  OBVIOUS
<1>2. key = OperationKey(None, key) /\ key \in Nat
  BY <1>1 DEF OperationKey, LedgerOK
<1>3. /\ DOMAIN after = DOMAIN operations \cup {key}
      /\ after[key].ticket_sequence = None
      /\ after[key].account_sequence = key
      /\ after[key].operation_type = operationType
      /\ \A i \in DOMAIN operations : i # key => after[i] = operations[i]
  BY <1>1, <1>2 DEF create_pending_operation, Put
<1>4. StoredUnder(key, after[key])
  BY <1>1, <1>3 DEF StoredUnder
<1>5. \A i \in DOMAIN ledger : KeyOf(ledger[i].tx) # key
  BY <1>1 DEF LedgerOK, EntryOK
<1>6. \A i \in DOMAIN ledger :
        KeyOf(ledger[i].tx) \in DOMAIN operations /\ Allocates(ledger[i])
          => key \notin Range(ledger[i].tickets)
  <2>1. key \notin xrplTickets
    BY <1>1 DEF LedgerOK
  <2>. QED BY <2>1 DEF QueueOK, EntryKnown
<1>7. \A i \in DOMAIN operations : after[i] = operations[i]
  BY <1>1, <1>3
<1>8. PICK none : none = <<>> /\ IsInjective(none) /\ Range(none) = {}
  BY DEF IsInjective, Range
<1>9. QueueOK(none, operations)
  BY <1>8
<1>10. QueueOK(none, after)
  BY <1>1, <1>3, <1>4, <1>5, <1>6, <1>7, <1>8, <1>9, QueueAdded
<1>. QED BY <1>8, <1>10

-----------------------------------------------------------------------------
\* How an operation leaves the queue

NotSubmitted(key) == \A s \in submitted : KeyOf(s.tx) # key

\* A transaction in the ledger cannot be on its way as well.
LEMMA ValidatedNotSubmitted ==
  ASSUME LedgerOK, QueueOK(availableTickets, pendingOperations), NEW i \in DOMAIN ledger
  PROVE  NotSubmitted(KeyOf(ledger[i].tx))
<1>. SUFFICES ASSUME NEW s \in submitted, KeyOf(s.tx) = KeyOf(ledger[i].tx)
              PROVE  FALSE
  BY DEF NotSubmitted
<1>1. SequenceUsable(s.tx)
  BY DEF QueueOK, SubmissionOK
<1>2. /\ KeyOf(s.tx) \in Nat /\ KeyOf(s.tx) < nextSequence /\ nextSequence \in Nat
      /\ KeyOf(s.tx) \notin xrplTickets
  BY DEF LedgerOK, EntryOK
<1>. QED BY <1>1, <1>2 DEF SequenceUsable, KeyOf, OperationKey

\* What is left of the queue when an operation is removed
LEMMA QueueWithout ==
  ASSUME NEW tickets, NEW operations, QueueOK(tickets, operations), NEW key, NotSubmitted(key),
         NEW rest, rest = Without(operations, key)
  PROVE  /\ DOMAIN rest = DOMAIN operations \ {key}
         /\ \A k \in DOMAIN rest : rest[k] = operations[k]
         /\ QueueOK(tickets, rest)
<1>1. /\ DOMAIN rest = DOMAIN operations \ {key}
      /\ \A k \in DOMAIN rest : rest[k] = operations[k]
  BY WithoutEntries
<1>2. IsFiniteSet(DOMAIN rest)
  BY <1>1, FS_RemoveElement DEF QueueOK
<1>3. \A k \in DOMAIN rest : StoredUnder(k, rest[k])
  BY <1>1 DEF QueueOK
<1>4. \A i \in DOMAIN ledger : EntryKnown(ledger[i], tickets, rest)
  BY <1>1 DEF QueueOK, EntryKnown
<1>5. \A s \in submitted : SubmissionOK(s, rest)
  BY <1>1 DEF QueueOK, SubmissionOK, NotSubmitted
<1>. QED BY <1>1, <1>2, <1>3, <1>4, <1>5 DEF QueueOK

\* More tickets are available, none of them held or announced.
LEMMA QueueGrows ==
  ASSUME NEW tickets, NEW more, NEW operations, NEW new, QueueOK(tickets, operations), IsInjective(more),
         Range(more) \subseteq Range(tickets) \cup new,
         new \subseteq xrplTickets \ DOMAIN operations,
         \A i \in DOMAIN ledger :
           KeyOf(ledger[i].tx) \in DOMAIN operations /\ Allocates(ledger[i])
             => Range(ledger[i].tickets) \cap new = {}
  PROVE  QueueOK(more, operations)
<1>1. \A i \in DOMAIN ledger : EntryKnown(ledger[i], more, operations)
  BY DEF QueueOK, EntryKnown
<1>. QED BY <1>1 DEF QueueOK

\* The ticket of an operation that was never executed is returned.
LEMMA QueueReturned ==
  ASSUME NEW tickets \in Seq(Nat), NEW operations, QueueOK(tickets, operations),
         NEW key \in DOMAIN operations, key \in Nat, key \in xrplTickets, NotSubmitted(key),
         NEW more, more = <<key>> \o tickets, NEW rest, rest = Without(operations, key)
  PROVE  QueueOK(more, rest)
<1>1. /\ DOMAIN rest = DOMAIN operations \ {key}
      /\ QueueOK(tickets, rest)
  BY QueueWithout
<1>2. PICK one \in Seq(Nat) : one = <<key>> /\ IsInjective(one) /\ Range(one) = {key}
  BY OneTicket
<1>3. IsInjective(tickets) /\ Range(one) \cap Range(tickets) = {}
  BY <1>2 DEF QueueOK
<1>4. IsInjective(more) /\ Range(more) \subseteq Range(tickets) \cup {key}
  BY <1>2, <1>3, JoinTickets
<1>5. \A i \in DOMAIN ledger :
        KeyOf(ledger[i].tx) \in DOMAIN rest /\ Allocates(ledger[i])
          => Range(ledger[i].tickets) \cap {key} = {}
  BY <1>1 DEF QueueOK, EntryKnown
<1>6. {key} \subseteq xrplTickets \ DOMAIN rest
  BY <1>1
<1>. QED BY <1>1, <1>4, <1>5, <1>6, QueueGrows

\* An operation whose transaction is in the ledger is dropped.
LEMMA QueueDropped ==
  ASSUME LedgerOK, QueueOK(availableTickets, pendingOperations), NEW i \in DOMAIN ledger,
         NEW key, KeyOf(ledger[i].tx) = key, NEW rest, rest = Without(pendingOperations, key)
  PROVE  /\ DOMAIN rest = DOMAIN pendingOperations \ {key}
         /\ \A k \in DOMAIN rest : rest[k] = pendingOperations[k]
         /\ QueueOK(availableTickets, rest)
<1>1. NotSubmitted(key)
  BY ValidatedNotSubmitted
<1>. QED BY <1>1, QueueWithout

\* The tickets of an allocation become available when it is confirmed.
LEMMA QueueGranted ==
  ASSUME LedgerOK, QueueOK(availableTickets, pendingOperations), availableTickets \in Seq(Nat),
         TicketUpdateFlag, NEW i \in DOMAIN ledger, Allocates(ledger[i]),
         NEW key \in DOMAIN pendingOperations, KeyOf(ledger[i].tx) = key,
         NEW more, more = availableTickets \o ledger[i].tickets,
         NEW rest, rest = Without(pendingOperations, key)
  PROVE  QueueOK(more, rest)
<1>1. /\ DOMAIN rest = DOMAIN pendingOperations \ {key}
      /\ \A k \in DOMAIN rest : rest[k] = pendingOperations[k]
      /\ QueueOK(availableTickets, rest)
  BY QueueDropped
<1>2. /\ ledger[i].tickets \in Seq(Nat) /\ IsInjective(ledger[i].tickets)
      /\ IsFor(ledger[i].tx, pendingOperations[key])
      /\ Range(ledger[i].tickets) \subseteq
           xrplTickets \ (Range(availableTickets) \cup DOMAIN pendingOperations)
  BY DEF LedgerOK, EntryOK, QueueOK, EntryKnown
<1>3. PICK new \in Seq(Nat) : new = ledger[i].tickets /\ IsInjective(new)
  BY <1>2
<1>4. IsInjective(availableTickets) /\ Range(availableTickets) \cap Range(new) = {}
  BY <1>2, <1>3 DEF QueueOK
<1>5. IsInjective(more) /\ Range(more) \subseteq Range(availableTickets) \cup Range(new)
  BY <1>3, <1>4, JoinTickets
<1>6. ASSUME NEW j \in DOMAIN ledger, KeyOf(ledger[j].tx) \in DOMAIN rest, Allocates(ledger[j])
      PROVE  FALSE
  <2>1. IsFor(ledger[j].tx, pendingOperations[KeyOf(ledger[j].tx)])
    BY <1>1, <1>6 DEF QueueOK, EntryKnown
  <2>2. KeyOf(ledger[j].tx) \in PendingOfType("AllocateTickets")
    BY <1>1, <1>6, <2>1 DEF IsFor, Allocates, PendingOfType
  <2>3. key \in PendingOfType("AllocateTickets")
    BY <1>2 DEF IsFor, Allocates, PendingOfType
  <2>. QED BY <1>1, <1>6, <2>2, <2>3 DEF TicketUpdateFlag
<1>7. Range(new) \subseteq xrplTickets \ DOMAIN rest
  BY <1>1, <1>2, <1>3
<1>. QED BY <1>1, <1>5, <1>6, <1>7, QueueGrows

-----------------------------------------------------------------------------
\* What a message does to the queue, as far as the invariants tell it apart: the
\* operations in `gone' leave it, the others keep their type, and new ones have
\* the given type and a number that the ledger does not have.

Moved(gone, operationType) ==
  /\ gone \subseteq DOMAIN pendingOperations
  /\ gone \cap DOMAIN pendingOperations' = {}
  /\ \A key \in DOMAIN pendingOperations \ gone :
       /\ key \in DOMAIN pendingOperations'
       /\ pendingOperations'[key].operation_type = pendingOperations[key].operation_type
  /\ \A key \in DOMAIN pendingOperations' \ DOMAIN pendingOperations :
       /\ pendingOperations'[key].operation_type = operationType
       /\ \A i \in DOMAIN ledger : KeyOf(ledger[i].tx) # key

\* Nothing moves.
LEMMA KeptMoved == ASSUME Kept PROVE Moved({}, AllocationType)
  BY DEF Kept, Moved

\* An operation is created on the next ticket.
LEMMA TakenMoved ==
  ASSUME TypeOK, LedgerOK, QueueOK(availableTickets, pendingOperations), NEW operationType,
         NEW state, NEW rotating, create_operation_on_ticket(operationType, state, rotating)
  PROVE  /\ Moved({}, operationType)
         /\ QueueOK(availableTickets', pendingOperations')
         /\ \E key : /\ key \notin DOMAIN pendingOperations
                     /\ DOMAIN pendingOperations' = DOMAIN pendingOperations \cup {key}
<1>1. /\ availableTickets \in Seq(Nat) /\ Len(availableTickets) > 1
      /\ availableTickets' = Tail(availableTickets)
      /\ pendingOperations' = create_pending_operation(pendingOperations,
                                Head(availableTickets), None, operationType)
  BY DEF create_operation_on_ticket, allocate_ticket, TypeOK
<1>2. PICK after : after = pendingOperations'
  OBVIOUS
<1>3. availableTickets # <<>>
  BY <1>1
<1>4. /\ QueueOK(Tail(availableTickets), after)
      /\ Head(availableTickets) \in xrplTickets \ DOMAIN pendingOperations
      /\ Head(availableTickets) \in Nat
  BY <1>1, <1>2, <1>3, QueueTaken
<1>5. PICK key \in Nat : key = Head(availableTickets)
  BY <1>4
<1>6. OperationKey(key, None) = key
  BY <1>5, IdentityAssumption DEF OperationKey
<1>7. /\ DOMAIN after = DOMAIN pendingOperations \cup {key}
      /\ after[key].operation_type = operationType
      /\ \A i \in DOMAIN pendingOperations : i # key => after[i] = pendingOperations[i]
  BY <1>1, <1>2, <1>5, <1>6 DEF create_pending_operation, Put
<1>8. \A i \in DOMAIN ledger : KeyOf(ledger[i].tx) # key
  BY <1>4, <1>5 DEF LedgerOK, EntryOK
<1>9. Moved({}, operationType)
  BY <1>2, <1>4, <1>5, <1>7, <1>8 DEF Moved
<1>. QED BY <1>1, <1>2, <1>4, <1>5, <1>7, <1>9

\* An operation is settled: it leaves the queue, handle_operation leaves the tickets
\* `left', and an allocation may take the first of them.
SettledTo(key, left) ==
  \/ /\ availableTickets' = left
     /\ pendingOperations' = Without(pendingOperations, key)
  \/ /\ left # <<>>
     /\ availableTickets' = Tail(left)
     /\ pendingOperations' = create_pending_operation(Without(pendingOperations, key),
                                                      Head(left), None, AllocationType)

\* A confirmed result settles the operation it names.
LEMMA ConfirmSettles ==
  ASSUME TypeOK, NEW sender, NEW e \in Evidence, ConfirmOperation(sender, e)
  PROVE  \E left \in Seq(Nat) :
           /\ SettledTo(ResultKey(e), left)
           /\ HandledTo(pendingOperations[ResultKey(e)], e.transaction_result,
                        e.operation_result, e.ticket_sequence, left)
           /\ e.transaction_result = "Invalid" =>
                /\ availableTickets' = left
                /\ pendingOperations' = Without(pendingOperations, ResultKey(e))
<1>1. PICK key, operation, tickets, remaining :
        /\ key = ResultKey(e)
        /\ operation = pendingOperations[key]
        /\ tickets = TicketsHandled(operation, e.transaction_result, e.operation_result,
                                    e.ticket_sequence)
        /\ remaining = Without(pendingOperations, key)
  OBVIOUS
<1>2. /\ validate_basic(e) /\ ResultAllowed(e)
      /\ operation.operation_type.type = "AllocateTickets" => e.operation_result # None
      /\ IF e.transaction_result # "Invalid" /\ e.ticket_sequence # None
         THEN register_used_ticket(tickets, remaining)
         ELSE SetTicketState(tickets) /\ pendingOperations' = remaining
  BY <1>1 DEF ConfirmOperation, EvidenceAccepted, handle_operation
<1>3. /\ e.ticket_sequence \in Nat \cup {None}
      /\ e.transaction_result = "Accepted" /\ e.operation_result # None
           => e.operation_result.tickets \in Seq(Nat)
  BY <1>2, ResultTyped
<1>4. TicketsOK(tickets)
  BY <1>1, <1>2, <1>3, HandledTyped
<1>5. PICK left \in Seq(Nat) : left = tickets.available
  BY <1>4 DEF TicketsOK
<1>6. HandledTo(operation, e.transaction_result, e.operation_result, e.ticket_sequence, left)
  BY <1>1, <1>5, HandledAvailable
<1>7. CASE SetTicketState(tickets) /\ pendingOperations' = remaining
  BY <1>1, <1>5, <1>6, <1>7 DEF SetTicketState, SettledTo
<1>8. CASE /\ e.transaction_result # "Invalid"
           /\ register_used_ticket(tickets, remaining) /\ ~TriggersAllocation(tickets)
  <2>1. /\ pendingOperations' = remaining
        /\ availableTickets' = [tickets EXCEPT !.used = tickets.used + 1].available
    BY <1>8 DEF register_used_ticket, SetTicketState
  <2>2. availableTickets' = left
    BY <1>4, <1>5, <2>1 DEF TicketsOK
  <2>. QED BY <1>1, <1>5, <1>6, <1>8, <2>1, <2>2 DEF SettledTo
<1>9. CASE /\ e.transaction_result # "Invalid"
           /\ register_used_ticket(tickets, remaining) /\ TriggersAllocation(tickets)
  <2>1. /\ left # <<>>
        /\ availableTickets' = Tail(left)
        /\ pendingOperations' = create_pending_operation(remaining, Head(left), None,
                                                         AllocationType)
    BY <1>5, <1>9 DEF register_used_ticket, SetTicketState, TriggersAllocation
  <2>. QED BY <1>1, <1>5, <1>6, <1>9, <2>1 DEF SettledTo
<1>. QED BY <1>2, <1>7, <1>8, <1>9

\* A cancelled operation is settled without another one.
LEMMA CancelSettles ==
  ASSUME TypeOK, NEW sender, NEW key, CancelPendingOperation(sender, key)
  PROVE  /\ key \in DOMAIN pendingOperations
         /\ availableTickets' = IF pendingOperations[key].ticket_sequence # None
                                THEN <<pendingOperations[key].ticket_sequence>> \o availableTickets
                                ELSE availableTickets
         /\ pendingOperations' = Without(pendingOperations, key)
<1>1. PICK operation, operationResult, tickets :
        /\ operation = pendingOperations[key]
        /\ operationResult = IF operation.operation_type.type = "AllocateTickets"
                             THEN [tickets |-> None] ELSE None
        /\ tickets = TicketsHandled(operation, "Invalid", operationResult,
                                    operation.ticket_sequence)
  OBVIOUS
<1>2. /\ key \in DOMAIN pendingOperations
      /\ SetTicketState(tickets)
      /\ pendingOperations' = Without(pendingOperations, key)
  BY <1>1 DEF CancelPendingOperation
<1>3. HandledTo(operation, "Invalid", operationResult, operation.ticket_sequence,
                tickets.available)
  BY <1>1, HandledAvailable
<1>. QED BY <1>1, <1>2, <1>3 DEF HandledTo, SetTicketState

\* Settling keeps the invariant of the queue if handle_operation does.
LEMMA SettledMoved ==
  ASSUME TypeOK, LedgerOK, NEW key \in DOMAIN pendingOperations, NEW left \in Seq(Nat),
         SettledTo(key, left), QueueOK(left, Without(pendingOperations, key)),
         pendingOperations' = Without(pendingOperations, key) \/ key \notin Range(left)
  PROVE  /\ Moved({key}, AllocationType)
         /\ QueueOK(availableTickets', pendingOperations')
<1>1. PICK rest : rest = Without(pendingOperations, key)
  OBVIOUS
<1>2. /\ DOMAIN rest = DOMAIN pendingOperations \ {key}
      /\ \A k \in DOMAIN rest : rest[k] = pendingOperations[k]
  BY <1>1, WithoutEntries
<1>3. CASE availableTickets' = left /\ pendingOperations' = rest
  BY <1>1, <1>2, <1>3 DEF Moved
<1>4. CASE /\ left # <<>> /\ key \notin Range(left)
           /\ availableTickets' = Tail(left)
           /\ pendingOperations' = create_pending_operation(rest, Head(left), None,
                                                            AllocationType)
  <2>1. PICK after, type : after = pendingOperations' /\ type = AllocationType
    OBVIOUS
  <2>2. after = create_pending_operation(rest, Head(left), None, type)
    BY <1>4, <2>1
  <2>3. /\ QueueOK(Tail(left), after)
        /\ Head(left) \in xrplTickets \ DOMAIN rest
        /\ Head(left) \in Nat
    BY <1>1, <1>4, <2>2, QueueTaken
  <2>4. PICK new \in Nat : new = Head(left) /\ new \in xrplTickets \ DOMAIN rest
    BY <2>3
  <2>5. OperationKey(new, None) = new
    BY <2>4, IdentityAssumption DEF OperationKey
  <2>6. /\ DOMAIN after = DOMAIN rest \cup {new}
        /\ after[new].operation_type = type
        /\ \A i \in DOMAIN rest : i # new => after[i] = rest[i]
    BY <2>2, <2>4, <2>5 DEF create_pending_operation, Put
  <2>7. \A i \in DOMAIN ledger : KeyOf(ledger[i].tx) # new
    BY <2>4 DEF LedgerOK, EntryOK
  <2>8. new # key
    <3>1. left[1] = new /\ 1 \in DOMAIN left
      BY <1>4, <2>4
    <3>. QED BY <1>4, <3>1 DEF Range
  <2>9. Moved({key}, type)
    BY <1>2, <2>1, <2>4, <2>6, <2>7, <2>8 DEF Moved
  <2>. QED BY <1>4, <2>1, <2>3, <2>9
<1>5. pendingOperations' # rest => key \notin Range(left)
  BY <1>1
<1>6. CASE pendingOperations' = rest /\ ~(availableTickets' = left)
  <2>1. left # <<>> /\ rest = create_pending_operation(rest, Head(left), None, AllocationType)
    BY <1>1, <1>6 DEF SettledTo
  <2>2. QueueOK(left, rest)
    BY <1>1
  <2>3. PICK new \in Nat : new = Head(left)
    BY <2>1
  <2>4. OperationKey(new, None) = new
    BY <2>3, IdentityAssumption DEF OperationKey
  <2>5. new \in DOMAIN rest
    BY <2>1, <2>3, <2>4 DEF create_pending_operation, Put
  <2>6. left[1] = new /\ 1 \in DOMAIN left
    BY <2>1, <2>3
  <2>. QED BY <2>2, <2>5, <2>6 DEF QueueOK, Range
<1>. QED BY <1>1, <1>3, <1>4, <1>5, <1>6 DEF SettledTo

-----------------------------------------------------------------------------
\* How the invariants follow the queue

SameRelayers ==
  /\ config'.relayers = config.relayers
  /\ config'.evidence_threshold = config.evidence_threshold

\* A rotation that the queue may hold
InTerms(operationType) ==
  operationType.type = "RotateKeys" =>
    /\ {r.cosmos_address : r \in operationType.new_relayers} \subseteq RelayersEver
    /\ operationType.new_evidence_threshold \in Thresholds

\* The terms of office change to those of a pending rotation only.
LEMMA TermsMoved ==
  ASSUME TermsOK, NEW gone, NEW operationType, Moved(gone, operationType), InTerms(operationType),
         \/ SameRelayers
         \/ \E key \in PendingOfType("RotateKeys") :
              LET rotation == pendingOperations[key].operation_type
              IN /\ config'.relayers = rotation.new_relayers
                 /\ config'.evidence_threshold = rotation.new_evidence_threshold
  PROVE  TermsOK'
<1>1. \A key \in DOMAIN pendingOperations : InTerms(pendingOperations[key].operation_type)
  BY DEF TermsOK, PendingOfType, InTerms
<1>2. \A key \in DOMAIN pendingOperations' : InTerms(pendingOperations'[key].operation_type)
  BY <1>1 DEF Moved
<1>3. \A key \in PendingOfType("RotateKeys")' :
        LET rotation == pendingOperations'[key].operation_type
        IN /\ {r.cosmos_address : r \in rotation.new_relayers} \subseteq RelayersEver
           /\ rotation.new_evidence_threshold \in Thresholds
  BY <1>2 DEF PendingOfType, InTerms
<1>4. /\ {r.cosmos_address : r \in config'.relayers} \subseteq RelayersEver
      /\ config'.evidence_threshold \in Thresholds
  BY DEF TermsOK, SameRelayers, relayerAddresses
<1>5. RelayersEver' = RelayersEver /\ Thresholds' = Thresholds
  BY DEF RelayersEver, Thresholds
<1>. QED BY <1>3, <1>4, <1>5 DEF TermsOK, relayerAddresses

\* The signer list matches unless the confirmed operation is a rotation that the
\* XRPL has accepted.
LEMMA RotatedMoved ==
  ASSUME NEW gone, NEW operationType, Moved(gone, operationType), UNCHANGED ledger
  PROVE  Rotated' = {i \in Rotated : KeyOf(ledger[i].tx) \notin gone}
<1>1. ASSUME NEW i \in DOMAIN ledger
      PROVE  KeyOf(ledger[i].tx) \in DOMAIN pendingOperations' <=>
               KeyOf(ledger[i].tx) \in DOMAIN pendingOperations \ gone
  BY DEF Moved
<1>2. Rotated' = {i \in DOMAIN ledger : /\ ledger[i].tx.operation_type.type = "RotateKeys"
                                         /\ ledger[i].result = "Accepted"
                                         /\ KeyOf(ledger[i].tx) \in DOMAIN pendingOperations'}
  BY DEF Rotated, KeyOf
<1>. QED BY <1>1, <1>2 DEF Rotated

LEMMA SignersMoved ==
  ASSUME SignersOK, NEW gone, NEW operationType, Moved(gone, operationType),
         UNCHANGED <<ledger, signerList>>, SameRelayers,
         \A i \in Rotated : KeyOf(ledger[i].tx) \notin gone
  PROVE  SignersOK'
<1>1. Rotated' = Rotated
  BY RotatedMoved
<1>. QED BY <1>1 DEF SignersOK, SameRelayers, SignerListOf, SignersOf

\* The operations that leave the queue without being paid are refunded.
LEMMA UnpaidMoved ==
  ASSUME NEW gone, NEW operationType, Moved(gone, operationType), UNCHANGED ledger,
         operationType.type # "CosmosToXRPLTransfer"
  PROVE  Unpaid' = Unpaid \ gone /\ Delivered' = Delivered /\ TransferKeys' = TransferKeys \ gone
<1>1. Delivered' = Delivered
  BY DEF Delivered
<1>2. TransferKeys' = TransferKeys \ gone
  BY DEF TransferKeys, Moved
<1>3. Unpaid' = {key \in TransferKeys' : \A i \in Delivered : KeyOf(ledger[i].tx) # key}
  BY <1>1 DEF Unpaid, KeyOf
<1>. QED BY <1>1, <1>2, <1>3 DEF Unpaid

\* The sets that are counted
LEMMA Counted ==
  ASSUME LedgerOK, IsFiniteSet(DOMAIN pendingOperations)
  PROVE  /\ IsFiniteSet(Unpaid) /\ IsFiniteSet(Delivered) /\ IsFiniteSet(TransferKeys)
         /\ Cardinality(Unpaid) \in Nat /\ Cardinality(Delivered) \in Nat
<1>1. Unpaid \in SUBSET DOMAIN pendingOperations /\ TransferKeys \in SUBSET DOMAIN pendingOperations
  BY DEF Unpaid, TransferKeys
<1>2. IsFiniteSet(DOMAIN ledger)
  <2>1. DOMAIN ledger = 1 .. Len(ledger) /\ Len(ledger) \in Nat
    BY DEF LedgerOK
  <2>. QED BY <2>1, FS_Interval
<1>3. Delivered \in SUBSET DOMAIN ledger
  BY DEF Delivered
<1>4. IsFiniteSet(Unpaid) /\ IsFiniteSet(Delivered) /\ IsFiniteSet(TransferKeys)
  BY <1>1, <1>2, <1>3, FS_Subset
<1>. QED BY <1>4, FS_CardinalityType

LEMMA KeptByMessage ==
  ASSUME KeptOK, LedgerOK, IsFiniteSet(DOMAIN pendingOperations), NEW gone, NEW operationType,
         Moved(gone, operationType), operationType.type # "CosmosToXRPLTransfer",
         UNCHANGED ledger, NEW result, Refunded(result) = Unpaid \cap gone,
         kept' = kept - Cardinality(Refunded(result))
  PROVE  KeptOK'
<1>1. Unpaid' = Unpaid \ gone /\ Delivered' = Delivered
  BY UnpaidMoved
<1>2. /\ IsFiniteSet(Unpaid)
      /\ Cardinality(Unpaid) \in Nat /\ Cardinality(Delivered) \in Nat
  BY Counted
<1>3. Cardinality(Unpaid \ gone) = Cardinality(Unpaid) - Cardinality(Unpaid \cap gone)
  BY <1>2, FS_Difference
<1>4. Cardinality(Unpaid \cap gone) \in Nat
  <2>1. IsFiniteSet(Unpaid \cap gone)
    BY <1>2, FS_Subset
  <2>. QED BY <2>1, FS_CardinalityType
<1>5. Cardinality(Unpaid)' = Cardinality(Unpaid \ gone) /\ Cardinality(Delivered)' = Cardinality(Delivered)
  BY <1>1
<1>. QED BY <1>2, <1>3, <1>4, <1>5 DEF KeptOK

\* A message that settles nothing refunds nothing.
LEMMA KeptWithout ==
  ASSUME KeptOK, LedgerOK, IsFiniteSet(DOMAIN pendingOperations), NEW operationType,
         Moved({}, operationType), operationType.type # "CosmosToXRPLTransfer",
         UNCHANGED ledger, NEW result, kept' = kept - Cardinality(Refunded(result))
  PROVE  KeptOK'
<1>1. PICK gone : gone = {}
  OBVIOUS
<1>2. Refunded(result) = Unpaid \cap gone
  BY <1>1 DEF Refunded, Moved, TransferKeys
<1>3. Moved(gone, operationType)
  BY <1>1
<1>. QED BY <1>2, <1>3, KeptByMessage

\* Those who refuse a ticket are some of the relayers.
LEMMA RefusingFinite ==
  ASSUME QuorumsMeet, TermsOK, VotesInv, NEW ticket
  PROVE  /\ Refusing(ticket) \subseteq RelayersEver
         /\ IsFiniteSet(Refusing(ticket)) /\ Cardinality(Refusing(ticket)) \in Nat
<1>1. Votes(Refusal(ticket)) \subseteq relayerAddresses
  BY DEF Votes, VotesInv, VotesOfRelayersInOffice
<1>2. Refusing(ticket) \subseteq RelayersEver
  BY <1>1 DEF Refusing, OnTheWay, TermsOK
<1>3. IsFiniteSet(Refusing(ticket))
  BY <1>2, FS_Subset DEF QuorumsMeet
<1>. QED BY <1>2, <1>3, FS_CardinalityType

LEMMA ThresholdsNatural == Thresholds \subseteq Nat
  BY InputAssumption, InstantiateAssumption DEF Thresholds

\* Fewer are no more than before.
LEMMA FewerRefuse ==
  ASSUME NEW S, IsFiniteSet(S), NEW T, T \subseteq S, NEW x \in Nat, Cardinality(S) < x
  PROVE  Cardinality(T) < x
<1>1. /\ IsFiniteSet(T) /\ Cardinality(T) <= Cardinality(S)
  BY FS_Subset
<1>2. Cardinality(T) \in Nat /\ Cardinality(S) \in Nat
  BY <1>1, FS_CardinalityType
<1>. QED BY <1>1, <1>2

\* Votes that disappear and messages that arrive or are lost make no refusal.
LEMMA RefusalsMoved ==
  ASSUME QuorumsMeet, TermsOK, VotesInv, RefusalsOK, NEW gone, NEW operationType,
         Moved(gone, operationType), \A key \in gone : ~IsRefused(key),
         \A m \in network' : m.kind = "result" => m \in network,
         \A ticket \in Nat : Votes(Refusal(ticket))' \subseteq Votes(Refusal(ticket))
  PROVE  RefusalsOK'
<1>1. ASSUME NEW m \in network', m.kind = "result"
      PROVE  \E ticket \in Nat : \E r \in RelayersEver \ Votes(Refusal(ticket))' :
               m = [kind |-> "result", relayer |-> r, evidence |-> Refusal(ticket)]
  BY <1>1 DEF RefusalsOK
<1>2. ASSUME NEW ticket \in Nat, IsRefused(ticket) PROVE IsRefused(ticket)'
  <2>1. ticket \notin gone
    BY <1>2
  <2>. QED BY <1>2, <2>1 DEF IsRefused, Moved, Malformed, TransactionOf
<1>3. ASSUME NEW ticket \in Nat PROVE Refusing(ticket)' \subseteq Refusing(ticket)
  <2>1. OnTheWay(ticket)' \subseteq OnTheWay(ticket)
    BY DEF OnTheWay, Refusal
  <2>. QED BY <2>1 DEF Refusing
<1>4. ASSUME NEW ticket \in Nat PROVE IsFiniteSet(Refusing(ticket))
  BY RefusingFinite
<1>5. ASSUME NEW ticket \in Nat, NEW x \in Thresholds, Cardinality(Refusing(ticket)) < x
      PROVE  Cardinality(Refusing(ticket)') < x
  <2>1. x \in Nat
    BY ThresholdsNatural
  <2>. QED BY <1>3, <1>4, <1>5, <2>1, FewerRefuse
<1>6. ASSUME NEW ticket \in Nat
      PROVE  \/ IsRefused(ticket)'
             \/ \A x \in Thresholds : Cardinality(Refusing(ticket)') < x
  BY <1>2, <1>5 DEF RefusalsOK
<1>7. RelayersEver' = RelayersEver /\ Thresholds' = Thresholds
  BY DEF RelayersEver, Thresholds
<1>. QED BY <1>1, <1>6, <1>7 DEF RefusalsOK, Refusal

-----------------------------------------------------------------------------
\* The contract's own invariants.  Messages of Operations keep them; the others have
\* arguments that come from the XRPL.

LEMMA ContractNext == ASSUME ContractInv, [Next]_vars PROVE ContractInv'
  BY TypeStep, TicketFlagStep, RotationStep, VotesStep DEF ContractInv

\* Messages that Operations has, too
LEMMA ContractOwner ==
  ASSUME ContractInv, NEW sender \in Addr,
         \/ \E key \in DOMAIN pendingOperations : CancelPendingOperation(sender, key)
         \/ \E rotation \in Rotations : RotateKeys(sender, rotation)
         \/ HaltBridge(sender)
         \/ ResumeBridge(sender)
         \/ \E send \in SendInputs : SendToXRPL(send)
  PROVE  ContractInv'
<1>1. ASSUME NEW send \in SendInputs, SendToXRPL(send) PROVE Next
  <2>1. send.sender \in Addr
    BY InputAssumption
  <2>2. UserNext(send.sender)
    BY <1>1 DEF UserNext
  <2>. QED BY <2>1, <2>2 DEF Next
<1>2. ASSUME ~(\E send \in SendInputs : SendToXRPL(send)) PROVE Next
  <2>1. AdminNext(sender)
    BY <1>2 DEF AdminNext, ControlNext
  <2>. QED BY <2>1 DEF Next
<1>. QED BY <1>1, <1>2, ContractNext

\* Evidences
LEMMA ContractRecord ==
  ASSUME ContractInv, NEW sender \in Addr, NEW e \in Evidence, RecordEvidence(sender, e)
  PROVE  ContractInv' /\ Kept /\ SameRelayers
<1>1. TypeOK'
  BY TypeEvidence DEF ContractInv
<1>2. Kept /\ UNCHANGED <<pendingTicketUpdate, pendingRotateKeys, config>>
  BY DEF RecordEvidence, Kept, ticketVars
<1>3. TicketUpdateFlag'
  BY <1>2, TicketFlagKept DEF ContractInv
<1>4. RotationHaltsBridge'
  BY <1>2, RotationKept DEF ContractInv
<1>5. VotesInv'
  BY VotesRecorded DEF ContractInv
<1>. QED BY <1>1, <1>2, <1>3, <1>4, <1>5 DEF ContractInv, SameRelayers

LEMMA ContractConfirm ==
  ASSUME ContractInv, NEW sender \in Addr, NEW e \in Evidence, ConfirmOperation(sender, e)
  PROVE  ContractInv'
<1>1. TypeOK'
  BY TypeEvidence DEF ContractInv
<1>2. PICK key, operationType, result, evidences :
        /\ key = ResultKey(e) /\ operationType = pendingOperations[key].operation_type
        /\ handle_rotate_keys_confirmation(operationType, result, evidences)
  BY DEF ConfirmOperation, handle_operation
<1>3. Settled(key)
  BY <1>2, ConfirmEffect DEF ContractInv
<1>4. TicketUpdateFlag'
  BY <1>3, TicketFlagSettled DEF ContractInv
<1>5. /\ pendingRotateKeys' <=> pendingRotateKeys /\ operationType.type # "RotateKeys"
      /\ config'.bridge_state = config.bridge_state
  BY <1>2, RotationSettled DEF ContractInv
<1>6. RotationHaltsBridge'
  BY <1>2, <1>3, <1>5, RotationCleared DEF ContractInv
<1>7. VotesInv'
  BY VotesSettled DEF ContractInv
<1>. QED BY <1>1, <1>4, <1>6, <1>7 DEF ContractInv

\* Signatures and the base fee
LEMMA ContractSigned ==
  ASSUME ContractInv, NEW sender \in Addr, NEW key, NEW version,
         SaveSignature(sender, key, version)
  PROVE  ContractInv' /\ Kept /\ SameRelayers /\ UNCHANGED txEvidences
<1>1. TypeOK' /\ Kept
  BY TypeSignature, SignatureKept DEF ContractInv
<1>2. UNCHANGED <<pendingTicketUpdate, pendingRotateKeys, config, txEvidences>>
  BY DEF SaveSignature, ticketVars, evidenceVars
<1>3. TicketUpdateFlag' /\ RotationHaltsBridge' /\ VotesInv'
  BY <1>1, <1>2, TicketFlagKept, RotationKept, VotesLeft DEF ContractInv, VotesUntouched
<1>. QED BY <1>1, <1>2, <1>3 DEF ContractInv, SameRelayers

LEMMA ContractFee ==
  ASSUME ContractInv, NEW fee \in Nat, UpdateXRPLBaseFee(Owner, fee)
  PROVE  ContractInv' /\ Kept /\ SameRelayers /\ UNCHANGED txEvidences
<1>1. TypeOK' /\ Kept
  BY TypeBaseFee, BaseFeeKept DEF ContractInv
<1>2. /\ UNCHANGED <<pendingTicketUpdate, pendingRotateKeys, txEvidences>>
      /\ config' = [config EXCEPT !.xrpl_base_fee = fee]
  BY DEF UpdateXRPLBaseFee, ticketVars, evidenceVars
<1>3. SameRelayers /\ config'.bridge_state = config.bridge_state
  BY <1>2 DEF SameRelayers, ContractInv, TypeOK
<1>4. TicketUpdateFlag' /\ RotationHaltsBridge' /\ VotesInv'
  BY <1>1, <1>2, <1>3, TicketFlagKept, RotationKept, VotesLeft
     DEF ContractInv, VotesUntouched, SameRelayers
<1>. QED BY <1>1, <1>2, <1>3, <1>4 DEF ContractInv

\* The recovery of tickets
LEMMA ContractRecover ==
  ASSUME ContractInv, NEW account \in Nat, RecoverTickets(Owner, account, RecoveredTickets)
  PROVE  ContractInv' /\ SameRelayers /\ UNCHANGED txEvidences
<1>1. TypeOK'
  BY TypeRecoverTickets, RelayAssumption DEF ContractInv
<1>2. /\ ~pendingTicketUpdate /\ pendingTicketUpdate'
      /\ UNCHANGED <<config, pendingRotateKeys, evidenceVars, tokenVars>>
      /\ \E type : type.type = "AllocateTickets" /\ Started(type)
  BY RecoverEffect DEF ContractInv
<1>3. PICK type : type.type = "AllocateTickets" /\ Started(type)
  BY <1>2
<1>4. TicketUpdateFlag' /\ RotationHaltsBridge'
  BY <1>2, <1>3, TicketFlagAllocation, RotationApart DEF ContractInv
<1>5. VotesInv'
  BY <1>2, VotesLeft DEF ContractInv, VotesUntouched, evidenceVars
<1>. QED BY <1>1, <1>2, <1>4, <1>5 DEF ContractInv, SameRelayers, evidenceVars

-----------------------------------------------------------------------------
\* Messages that leave the queue as it is

\* The parts of the invariant that the XRPL has no share in, and the rest of it
LEMMA MessageStep ==
  ASSUME RelayInv, UNCHANGED <<submitted, ledgerVars>>, ContractInv',
         QueueOK(availableTickets', pendingOperations'), TermsOK', RefusalsOK', SignersOK', KeptOK'
  PROVE  RelayInv'
<1>1. LedgerOK'
  BY DEF RelayInv, LedgerOK, EntryOK, ledgerVars, Transaction, Malformed, Allocates, KeyOf, OperationKey,
         OperationType, Token, Relayer
<1>2. QueueOK(availableTickets, pendingOperations)'
  BY QueueMoves
<1>. QED BY <1>1, <1>2 DEF RelayInv

\* Every operation keeps its type and its sequence number.
Renewed ==
  /\ Kept
  /\ UNCHANGED availableTickets
  /\ \A key \in DOMAIN pendingOperations :
       /\ pendingOperations'[key].ticket_sequence = pendingOperations[key].ticket_sequence
       /\ pendingOperations'[key].account_sequence = pendingOperations[key].account_sequence

LEMMA RenewedStep ==
  ASSUME RelayInv, UNCHANGED <<submitted, ledgerVars>>, ContractInv', Renewed, SameRelayers,
         RefusalsOK', kept' = kept \/ \E result : kept' = kept - Cardinality(Refunded(result))
  PROVE  RelayInv'
<1>1. PICK none, type : none = {} /\ type = AllocationType
  OBVIOUS
<1>2. Moved(none, type) /\ Moved({}, type)
  BY <1>1, KeptMoved DEF Renewed
<1>3. type.type = "AllocateTickets"
  BY <1>1 DEF AllocationType
<1>4. QueueOK(availableTickets', pendingOperations')
  <2>1. PICK after : after = pendingOperations'
    OBVIOUS
  <2>2. QueueOK(availableTickets, after)
    BY <2>1, QueueRenewed DEF RelayInv, Renewed, Kept
  <2>. QED BY <2>1, <2>2 DEF Renewed
<1>5. TermsOK'
  BY <1>2, <1>3, TermsMoved DEF RelayInv, InTerms
<1>6. SignersOK'
  BY <1>1, <1>2, SignersMoved DEF RelayInv, ledgerVars
<1>7. LedgerOK /\ IsFiniteSet(DOMAIN pendingOperations) /\ UNCHANGED ledger /\ KeptOK
  BY DEF RelayInv, QueueOK, ledgerVars
<1>8. KeptOK'
  <2>1. CASE kept' = kept
    <3>1. Unpaid' = Unpaid /\ Delivered' = Delivered
      BY <1>1, <1>2, <1>3, <1>7, UnpaidMoved
    <3>. QED BY <1>7, <2>1, <3>1 DEF KeptOK
  <2>2. ASSUME NEW result, kept' = kept - Cardinality(Refunded(result)) PROVE KeptOK'
    BY <1>2, <1>3, <1>7, <2>2, KeptWithout
  <2>. QED BY <2>1, <2>2
<1>. QED BY <1>4, <1>5, <1>6, <1>8, MessageStep

\* Refusals when no vote is added and nothing is settled
LEMMA RefusalsRenewed ==
  ASSUME QuorumsMeet, RelayInv, Renewed, UNCHANGED txEvidences,
         \A m \in network' : m.kind = "result" => m \in network
  PROVE  RefusalsOK'
<1>1. PICK none, type : none = {} /\ type = AllocationType
  OBVIOUS
<1>2. Moved(none, type)
  BY <1>1, KeptMoved DEF Renewed
<1>3. \A ticket \in Nat : Votes(Refusal(ticket))' \subseteq Votes(Refusal(ticket))
  BY DEF Votes, Refusal
<1>4. QuorumsMeet /\ TermsOK /\ VotesInv /\ RefusalsOK
  BY DEF RelayInv, ContractInv
<1>. QED BY <1>1, <1>2, <1>3, <1>4, RefusalsMoved

\* A signature is delivered.
LEMMA SignatureStep ==
  ASSUME QuorumsMeet, RelayInv, NEW m \in network, m.relayer \in Addr, DeliverSignature(m)
  PROVE  RelayInv'
<1>1. PICK sender, key, version : sender \in Addr /\ SaveSignature(sender, key, version)
  BY DEF DeliverSignature
<1>2. ContractInv' /\ Kept /\ SameRelayers /\ UNCHANGED txEvidences
  BY <1>1, ContractSigned DEF RelayInv
<1>3. Renewed
  <2>1. TypeOK
    BY DEF RelayInv, ContractInv
  <2>2. PICK operation \in Operation : operation = pendingOperations[key]
    BY <1>1, <2>1, SignatureEffect DEF TypeOK
  <2>3. PICK signatures :
          signatures = operation.signatures \cup {[relayer |-> sender, version |-> version]}
    OBVIOUS
  <2>4. /\ pendingOperations'[key] = [operation EXCEPT !.signatures = signatures]
        /\ \A i \in DOMAIN pendingOperations :
             i # key => pendingOperations'[i] = pendingOperations[i]
    BY <1>1, <2>1, <2>2, <2>3, SignatureEffect
  <2>5. /\ pendingOperations'[key].ticket_sequence = pendingOperations[key].ticket_sequence
        /\ pendingOperations'[key].account_sequence = pendingOperations[key].account_sequence
    BY <2>2, <2>4 DEF Operation
  <2>6. UNCHANGED availableTickets
    BY <1>1 DEF SaveSignature, ticketVars
  <2>. QED BY <1>2, <2>4, <2>5, <2>6 DEF Renewed
<1>4. /\ network' = network \ {m} /\ kept' = kept
      /\ UNCHANGED <<submitted, ledgerVars>>
  BY DEF DeliverSignature
<1>5. RefusalsOK'
  BY <1>2, <1>3, <1>4, RefusalsRenewed
<1>. QED BY <1>2, <1>3, <1>4, <1>5, RenewedStep

\* The owner raises the fee.
LEMMA FeeStep ==
  ASSUME QuorumsMeet, RelayInv, loadFee \in Nat, RaiseFee
  PROVE  RelayInv'
<1>1. UpdateXRPLBaseFee(Owner, loadFee)
  BY DEF RaiseFee
<1>2. ContractInv' /\ Kept /\ SameRelayers /\ UNCHANGED txEvidences
  BY <1>1, ContractFee DEF RelayInv
<1>3. Renewed
  <2>1. ASSUME NEW key \in DOMAIN pendingOperations
        PROVE  /\ pendingOperations'[key].ticket_sequence = pendingOperations[key].ticket_sequence
               /\ pendingOperations'[key].account_sequence = pendingOperations[key].account_sequence
    <3>1. pendingOperations[key] \in Operation
      BY DEF RelayInv, ContractInv, TypeOK
    <3>. QED BY <1>1, <3>1 DEF UpdateXRPLBaseFee, Operation
  <2>2. UNCHANGED availableTickets
    BY <1>1 DEF UpdateXRPLBaseFee, ticketVars
  <2>. QED BY <1>2, <2>1, <2>2 DEF Renewed
<1>4. /\ network' = network /\ kept' = kept - Cardinality(Refunded("Accepted"))
      /\ UNCHANGED <<submitted, ledgerVars>>
  BY DEF RaiseFee, AfterMessage
<1>5. RefusalsOK'
  BY <1>2, <1>3, <1>4, RefusalsRenewed
<1>. QED BY <1>2, <1>3, <1>4, <1>5, RenewedStep

\* The bridge is halted or resumed.
LEMMA HaltStep ==
  ASSUME QuorumsMeet, RelayInv, NEW sender \in Addr, HaltBridge(sender) \/ ResumeBridge(sender),
         AfterMessage("Invalid"), UNCHANGED network
  PROVE  RelayInv'
<1>1. ContractInv'
  BY ContractOwner DEF RelayInv
<1>2. /\ UNCHANGED <<availableTickets, pendingOperations, txEvidences>>
      /\ SameRelayers
  BY DEF HaltBridge, ResumeBridge, ticketVars, evidenceVars, SameRelayers, RelayInv,
         ContractInv, TypeOK
<1>3. Renewed
  BY <1>2 DEF Renewed, Kept
<1>4. kept' = kept - Cardinality(Refunded("Invalid")) /\ UNCHANGED <<submitted, ledgerVars>>
  BY DEF AfterMessage
<1>5. RefusalsOK'
  BY <1>2, <1>3, RefusalsRenewed
<1>. QED BY <1>1, <1>2, <1>3, <1>4, <1>5, RenewedStep

-----------------------------------------------------------------------------
\* Votes

\* The evidence that a ticket is refused
LEMMA RefusalTyped ==
  ASSUME NEW ticket \in Nat
  PROVE  /\ Refusal(ticket) \in Evidence
         /\ ResultKey(Refusal(ticket)) = ticket
         /\ Refusal(ticket).transaction_result = "Invalid"
         /\ Refusal(ticket).ticket_sequence = ticket
         /\ Refusal(ticket).account_sequence = None
         /\ \A other \in Nat : Refusal(other) = Refusal(ticket) => other = ticket
<1>1. Refusal(ticket) \in ResultEvidence
  BY DEF Refusal, ResultEvidence, TransactionResult
<1>2. Refusal(ticket) \in Evidence
  BY <1>1 DEF Evidence
<1>3. /\ Refusal(ticket).transaction_result = "Invalid"
      /\ Refusal(ticket).ticket_sequence = ticket
      /\ Refusal(ticket).account_sequence = None
  BY DEF Refusal
<1>4. ResultKey(Refusal(ticket)) = ticket
  BY <1>3 DEF ResultKey, OperationKey
<1>5. ASSUME NEW other \in Nat, Refusal(other) = Refusal(ticket) PROVE other = ticket
  <2>1. Refusal(other).ticket_sequence = other
    BY DEF Refusal
  <2>. QED BY <1>3, <1>5, <2>1
<1>. QED BY <1>2, <1>3, <1>4, <1>5

\* The evidence of what the ledger has
ReportOf(entry) == ResultOf(entry.hash, entry.tx, entry.result, entry.tickets)

LEMMA ReportTyped ==
  ASSUME LedgerOK, NEW i \in DOMAIN ledger, NEW e, e = ReportOf(ledger[i])
  PROVE  /\ e \in Evidence
         /\ e.transaction_result = ledger[i].result
         /\ e.ticket_sequence = ledger[i].tx.ticket
         /\ e.account_sequence = ledger[i].tx.account
         /\ Allocates(ledger[i]) => e.operation_result.tickets = ledger[i].tickets
         /\ \A ticket : e # Refusal(ticket)
         /\ validate_basic(e) => ResultKey(e) = KeyOf(ledger[i].tx)
<1>1. PICK tx, hash, result, tickets :
        /\ tx = ledger[i].tx /\ hash = ledger[i].hash /\ result = ledger[i].result
        /\ tickets = ledger[i].tickets
  OBVIOUS
<1>2. /\ tx \in Transaction /\ hash \in TxHash /\ result \in {"Accepted", "Rejected"}
      /\ tickets \in Seq(Nat) \cup {None}
  <2>1. EntryOK(ledger[i])
    BY DEF LedgerOK
  <2>. QED BY <1>1, <2>1 DEF EntryOK
<1>3. PICK operationResult :
        operationResult = IF tx.operation_type.type = "AllocateTickets"
                          THEN [tickets |-> tickets] ELSE None
  OBVIOUS
<1>4. operationResult \in {None} \cup [tickets : Seq(Nat) \cup {None}]
  BY <1>2, <1>3
<1>5. e = [kind |-> "XRPLTransactionResult", tx_hash |-> hash, account_sequence |-> tx.account,
           ticket_sequence |-> tx.ticket, transaction_result |-> result,
           operation_result |-> operationResult]
  BY <1>1, <1>3 DEF ReportOf, ResultOf
<1>6. tx.account \in Nat \cup {None} /\ tx.ticket \in Nat \cup {None}
  BY <1>2 DEF Transaction
<1>7. e \in ResultEvidence
  BY <1>2, <1>4, <1>5, <1>6 DEF ResultEvidence, TransactionResult
<1>8. /\ e.kind = "XRPLTransactionResult" /\ e.tx_hash = hash
      /\ e.account_sequence = tx.account /\ e.ticket_sequence = tx.ticket
      /\ e.transaction_result = result /\ e.operation_result = operationResult
  BY <1>5
<1>9. ASSUME NEW ticket PROVE e # Refusal(ticket)
  <2>1. Refusal(ticket).tx_hash = None
    BY DEF Refusal
  <2>2. hash # None
    BY <1>2, IdentityAssumption
  <2>. QED BY <1>8, <2>1, <2>2
<1>10. ASSUME validate_basic(e) PROVE ResultKey(e) = KeyOf(tx)
  BY <1>6, <1>8, <1>10, IdentityAssumption DEF validate_basic, ResultKey, KeyOf, OperationKey
<1>11. Allocates(ledger[i]) => e.operation_result.tickets = tickets
  BY <1>1, <1>3, <1>8 DEF Allocates
<1>. QED BY <1>1, <1>7, <1>8, <1>9, <1>10, <1>11 DEF Evidence

\* A vote that arrives was on its way.
LEMMA RefusalsRecorded ==
  ASSUME QuorumsMeet, RelayInv, NEW m \in network, NEW ticket \in Nat, NEW r \in RelayersEver,
         m = [kind |-> "result", relayer |-> r, evidence |-> Refusal(ticket)],
         RecordEvidence(r, Refusal(ticket)), network' = network \ {m}
  PROVE  RefusalsOK'
<1>1. txEvidences' = Put(txEvidences, Refusal(ticket), Votes(Refusal(ticket)) \cup {r})
  BY DEF RecordEvidence
<1>2. ASSUME NEW t \in Nat
      PROVE  Votes(Refusal(t))' =
               IF t = ticket THEN Votes(Refusal(t)) \cup {r} ELSE Votes(Refusal(t))
  <2>1. PICK e, f : e = Refusal(ticket) /\ f = Refusal(t)
    OBVIOUS
  <2>2. e = f <=> t = ticket
    BY <2>1, RefusalTyped
  <2>3. Refusal(t)' = Refusal(t)
    BY DEF Refusal
  <2>4. Votes(Refusal(t))' = IF f \in DOMAIN txEvidences' THEN txEvidences'[f] ELSE {}
    BY <2>1, <2>3 DEF Votes
  <2>. QED BY <1>1, <2>1, <2>2, <2>4 DEF Votes, Put
<1>3. ASSUME NEW n \in network', n.kind = "result"
      PROVE  \E t \in Nat : \E s \in RelayersEver \ Votes(Refusal(t))' :
               n = [kind |-> "result", relayer |-> s, evidence |-> Refusal(t)]
  <2>1. n \in network /\ n # m
    BY <1>3
  <2>2. PICK t \in Nat :
          \E s \in RelayersEver \ Votes(Refusal(t)) :
            n = [kind |-> "result", relayer |-> s, evidence |-> Refusal(t)]
    BY <1>3, <2>1 DEF RelayInv, RefusalsOK
  <2>3. PICK s \in RelayersEver \ Votes(Refusal(t)) :
          n = [kind |-> "result", relayer |-> s, evidence |-> Refusal(t)]
    BY <2>2
  <2>4. t # ticket \/ s # r
    BY <2>1, <2>3
  <2>. QED BY <1>2, <2>3, <2>4
<1>4. ASSUME NEW t \in Nat PROVE Refusing(t)' \subseteq Refusing(t)
  <2>1. OnTheWay(t)' \subseteq OnTheWay(t)
    BY DEF OnTheWay, Refusal
  <2>2. r \in OnTheWay(ticket)
    BY DEF OnTheWay
  <2>. QED BY <1>2, <2>1, <2>2 DEF Refusing
<1>5. ASSUME NEW t \in Nat, NEW x \in Thresholds, Cardinality(Refusing(t)) < x
      PROVE  Cardinality(Refusing(t)') < x
  <2>1. x \in Nat
    BY ThresholdsNatural
  <2>2. TermsOK /\ VotesInv
    BY DEF RelayInv, ContractInv
  <2>3. IsFiniteSet(Refusing(t))
    BY <2>2, RefusingFinite
  <2>. QED BY <1>4, <1>5, <2>1, <2>3, FewerRefuse
<1>6. UNCHANGED pendingOperations
  BY DEF RecordEvidence
<1>7. ASSUME NEW t \in Nat
      PROVE  \/ IsRefused(t)'
             \/ \A x \in Thresholds : Cardinality(Refusing(t)') < x
  <2>1. IsRefused(t)' <=> IsRefused(t)
    BY <1>6 DEF IsRefused, Malformed, TransactionOf
  <2>. QED BY <1>5, <2>1 DEF RelayInv, RefusalsOK
<1>8. RelayersEver' = RelayersEver /\ Thresholds' = Thresholds
  BY DEF RelayersEver, Thresholds
<1>. QED BY <1>3, <1>7, <1>8 DEF RefusalsOK, Refusal

\* A vote for what the ledger has is no refusal.
LEMMA RefusalsReported ==
  ASSUME QuorumsMeet, RelayInv, NEW sender, NEW e, RecordEvidence(sender, e), UNCHANGED network,
         \A ticket : e # Refusal(ticket), Renewed
  PROVE  RefusalsOK'
<1>1. PICK none, type : none = {} /\ type = AllocationType
  OBVIOUS
<1>2. Moved(none, type)
  BY <1>1, KeptMoved DEF Renewed
<1>3. txEvidences' = Put(txEvidences, e, Votes(e) \cup {sender})
  BY DEF RecordEvidence
<1>4. ASSUME NEW ticket \in Nat PROVE Votes(Refusal(ticket))' \subseteq Votes(Refusal(ticket))
  <2>1. PICK f : f = Refusal(ticket) /\ f # e
    OBVIOUS
  <2>2. Refusal(ticket)' = Refusal(ticket)
    BY DEF Refusal
  <2>3. Votes(Refusal(ticket))' = IF f \in DOMAIN txEvidences' THEN txEvidences'[f] ELSE {}
    BY <2>1, <2>2 DEF Votes
  <2>. QED BY <1>3, <2>1, <2>3 DEF Votes, Put
<1>5. QuorumsMeet /\ TermsOK /\ VotesInv /\ RefusalsOK
  BY DEF RelayInv, ContractInv
<1>. QED BY <1>1, <1>2, <1>4, <1>5, RefusalsMoved

-----------------------------------------------------------------------------
\* Evidences below the threshold

LEMMA RecordRenews == ASSUME NEW sender, NEW e, RecordEvidence(sender, e) PROVE Renewed
  BY DEF RecordEvidence, Renewed, Kept, ticketVars

\* What a result message says
LEMMA MessageRefuses ==
  ASSUME RelayInv, NEW m \in network, m.kind = "result"
  PROVE  \E ticket \in Nat : \E r \in RelayersEver \ Votes(Refusal(ticket)) :
           /\ m = [kind |-> "result", relayer |-> r, evidence |-> Refusal(ticket)]
           /\ m.relayer = r /\ m.evidence = Refusal(ticket)
<1>1. PICK ticket \in Nat : \E r \in RelayersEver \ Votes(Refusal(ticket)) :
        m = [kind |-> "result", relayer |-> r, evidence |-> Refusal(ticket)]
  BY DEF RelayInv, RefusalsOK
<1>2. PICK r \in RelayersEver \ Votes(Refusal(ticket)) :
        m = [kind |-> "result", relayer |-> r, evidence |-> Refusal(ticket)]
  BY <1>1
<1>3. m.relayer = r /\ m.evidence = Refusal(ticket)
  BY <1>2
<1>. QED BY <1>2, <1>3

LEMMA RecordRefusalStep ==
  ASSUME QuorumsMeet, RelayInv, NEW m \in network, m.relayer \in Addr, DeliverResult(m),
         RecordEvidence(m.relayer, m.evidence)
  PROVE  RelayInv'
<1>1. m.kind = "result"
  BY DEF DeliverResult
<1>2. PICK ticket \in Nat : \E r \in RelayersEver \ Votes(Refusal(ticket)) :
        /\ m = [kind |-> "result", relayer |-> r, evidence |-> Refusal(ticket)]
        /\ m.relayer = r /\ m.evidence = Refusal(ticket)
  BY <1>1, MessageRefuses
<1>3. PICK r \in RelayersEver \ Votes(Refusal(ticket)) :
        /\ m = [kind |-> "result", relayer |-> r, evidence |-> Refusal(ticket)]
        /\ m.relayer = r /\ m.evidence = Refusal(ticket)
  BY <1>2
<1>4. r \in Addr /\ RecordEvidence(r, Refusal(ticket)) /\ Refusal(ticket) \in Evidence
  BY <1>3, RefusalTyped
<1>5. /\ network' = network \ {m} /\ UNCHANGED <<submitted, ledgerVars>>
      /\ \E result : kept' = kept - Cardinality(Refunded(result))
  BY DEF DeliverResult, AfterMessage
<1>6. ContractInv' /\ Kept /\ SameRelayers
  BY <1>4, ContractRecord DEF RelayInv
<1>7. Renewed
  BY <1>4, RecordRenews
<1>8. RefusalsOK'
  BY <1>3, <1>4, <1>5, RefusalsRecorded
<1>. QED BY <1>5, <1>6, <1>7, <1>8, RenewedStep

LEMMA RecordReportStep ==
  ASSUME QuorumsMeet, RelayInv, NEW relayer \in Addr, NEW i \in DOMAIN ledger,
         RecordEvidence(relayer, ReportOf(ledger[i])), AfterMessage(ledger[i].result),
         UNCHANGED network
  PROVE  RelayInv'
<1>1. PICK e : e = ReportOf(ledger[i])
  OBVIOUS
<1>2. e \in Evidence /\ (\A ticket : e # Refusal(ticket)) /\ RecordEvidence(relayer, e)
  BY <1>1, ReportTyped DEF RelayInv
<1>3. /\ UNCHANGED <<submitted, ledgerVars>>
      /\ \E result : kept' = kept - Cardinality(Refunded(result))
  BY DEF AfterMessage
<1>4. ContractInv' /\ Kept /\ SameRelayers
  BY <1>2, ContractRecord DEF RelayInv
<1>5. Renewed
  BY <1>2, RecordRenews
<1>6. RefusalsOK'
  BY <1>2, <1>5, RefusalsReported
<1>. QED BY <1>3, <1>4, <1>5, <1>6, RenewedStep

-----------------------------------------------------------------------------
\* An operation is settled

\* A transfer that is not accepted is refunded; an accepted one was paid.
LEMMA RefundedNotPaid ==
  ASSUME NEW key \in DOMAIN pendingOperations, NEW type, Moved({key}, type), NEW result,
         result # "Accepted",
         handle_cosmos_to_xrpl_transfer_confirmation(pendingOperations[key], result),
         \A i \in Delivered : KeyOf(ledger[i].tx) # key
  PROVE  Refunded(result) = Unpaid \cap {key}
<1>1. TransferKeys \ DOMAIN pendingOperations' = TransferKeys \cap {key}
  BY DEF Moved, TransferKeys
<1>2. Unpaid \cap {key} = TransferKeys \cap {key}
  BY DEF Unpaid
<1>3. ASSUME key \in TransferKeys
      PROVE  <<pendingOperations[key].operation_type.sender, pendingOperations[key].id>>
               \in DOMAIN pendingRefunds'
  <2>1. pendingOperations[key].operation_type.type = "CosmosToXRPLTransfer"
    BY <1>3 DEF TransferKeys
  <2>. QED BY <2>1, RefundStored
<1>. QED BY <1>1, <1>2, <1>3 DEF Refunded

LEMMA RefundedPaid ==
  ASSUME NEW key \in DOMAIN pendingOperations, NEW i \in DOMAIN ledger,
         KeyOf(ledger[i].tx) = key, IsFor(ledger[i].tx, pendingOperations[key]),
         ledger[i].result = "Accepted"
  PROVE  Refunded("Accepted") = Unpaid \cap {key}
  BY DEF Refunded, Unpaid, TransferKeys, Delivered, IsFor

\* What settling does to the relayers and to the votes
LEMMA ConfirmRelayers ==
  ASSUME TypeOK, NEW sender, NEW e, ConfirmOperation(sender, e), NEW operationType,
         operationType = pendingOperations[ResultKey(e)].operation_type
  PROVE  /\ IF operationType.type = "RotateKeys" /\ e.transaction_result = "Accepted"
            THEN /\ config'.relayers = operationType.new_relayers
                 /\ config'.evidence_threshold = operationType.new_evidence_threshold
            ELSE SameRelayers
         /\ Votes(e)' = {}
         /\ \A f : Votes(f)' \subseteq Votes(f)
<1>1. handle_rotate_keys_confirmation(operationType, e.transaction_result, Without(txEvidences, e))
  BY DEF ConfirmOperation, handle_operation
<1>2. IF operationType.type = "RotateKeys" /\ e.transaction_result = "Accepted"
      THEN /\ config'.relayers = operationType.new_relayers
           /\ config'.evidence_threshold = operationType.new_evidence_threshold
      ELSE SameRelayers
  BY <1>1 DEF handle_rotate_keys_confirmation, SameRelayers, TypeOK
<1>3. txEvidences' = Without(txEvidences, e) \/ txEvidences' = [f \in {} |-> {}]
  BY <1>1 DEF handle_rotate_keys_confirmation
<1>4. /\ DOMAIN txEvidences' \subseteq DOMAIN txEvidences \ {e}
      /\ \A f \in DOMAIN txEvidences' : txEvidences'[f] = txEvidences[f]
  <2>1. CASE txEvidences' = Without(txEvidences, e)
    BY <2>1, WithoutEntries
  <2>2. CASE txEvidences' = [f \in {} |-> {}]
    BY <2>2
  <2>. QED BY <1>3, <2>1, <2>2
<1>5. Votes(e)' = {} /\ \A f : Votes(f)' \subseteq Votes(f)
  BY <1>4 DEF Votes
<1>. QED BY <1>2, <1>5

\* The result of a validated transaction is confirmed: it settles the operation of
\* that transaction, and the tickets that it created, if any, become available.
LEMMA ConfirmedTickets ==
  ASSUME RelayInv, NEW sender \in Addr, NEW i \in DOMAIN ledger, NEW e,
         e = ReportOf(ledger[i]), ConfirmOperation(sender, e), NEW key, key = KeyOf(ledger[i].tx)
  PROVE  /\ key = ResultKey(e) /\ key \in DOMAIN pendingOperations
         /\ IsFor(ledger[i].tx, pendingOperations[key])
         /\ key \notin xrplTickets
         /\ \E left \in Seq(Nat) :
              /\ SettledTo(key, left)
              /\ left = IF Allocates(ledger[i]) THEN availableTickets \o ledger[i].tickets
                                                ELSE availableTickets
<1>1. TypeOK /\ LedgerOK /\ QueueOK(availableTickets, pendingOperations)
  BY DEF RelayInv, ContractInv
<1>2. /\ e \in Evidence /\ e.transaction_result = ledger[i].result
      /\ Allocates(ledger[i]) => e.operation_result.tickets = ledger[i].tickets
  BY <1>1, ReportTyped
<1>3. validate_basic(e) /\ ResultAllowed(e)
  BY DEF ConfirmOperation, EvidenceAccepted
<1>4. key = ResultKey(e) /\ key \in DOMAIN pendingOperations
  BY <1>1, <1>3, ReportTyped DEF ResultAllowed
<1>5. PICK left \in Seq(Nat) :
        /\ SettledTo(key, left)
        /\ HandledTo(pendingOperations[key], e.transaction_result, e.operation_result,
                     e.ticket_sequence, left)
  BY <1>1, <1>2, <1>4, ConfirmSettles
<1>6. IsFor(ledger[i].tx, pendingOperations[key])
  BY <1>1, <1>4 DEF QueueOK, EntryKnown
<1>7. ledger[i].result \in {"Accepted", "Rejected"} /\ key \notin xrplTickets
  BY <1>1 DEF LedgerOK, EntryOK
<1>8. left = IF Allocates(ledger[i]) THEN availableTickets \o ledger[i].tickets
                                     ELSE availableTickets
  BY <1>2, <1>5, <1>6, <1>7 DEF HandledTo, Allocates, IsFor
<1>. QED BY <1>4, <1>5, <1>6, <1>7, <1>8

LEMMA ConfirmedQueue ==
  ASSUME RelayInv, NEW sender \in Addr, NEW i \in DOMAIN ledger, NEW e,
         e = ReportOf(ledger[i]), ConfirmOperation(sender, e), NEW key, key = KeyOf(ledger[i].tx)
  PROVE  /\ key = ResultKey(e) /\ key \in DOMAIN pendingOperations
         /\ IsFor(ledger[i].tx, pendingOperations[key])
         /\ Moved({key}, AllocationType)
         /\ QueueOK(availableTickets', pendingOperations')
<1>1. /\ TypeOK /\ LedgerOK /\ QueueOK(availableTickets, pendingOperations)
      /\ TicketUpdateFlag /\ availableTickets \in Seq(Nat)
  BY DEF RelayInv, ContractInv, TypeOK
<1>2. /\ key = ResultKey(e) /\ key \in DOMAIN pendingOperations
      /\ IsFor(ledger[i].tx, pendingOperations[key])
      /\ key \notin xrplTickets
  BY ConfirmedTickets
<1>3. PICK left \in Seq(Nat) :
        /\ SettledTo(key, left)
        /\ left = IF Allocates(ledger[i]) THEN availableTickets \o ledger[i].tickets
                                          ELSE availableTickets
  BY ConfirmedTickets
<1>4. PICK rest : rest = Without(pendingOperations, key)
  OBVIOUS
<1>5. QueueOK(left, rest)
  <2>1. CASE Allocates(ledger[i])
    BY <1>1, <1>2, <1>3, <1>4, <2>1, QueueGranted
  <2>2. CASE ~Allocates(ledger[i])
    <3>1. QueueOK(availableTickets, rest)
      BY <1>1, <1>4, QueueDropped
    <3>. QED BY <1>3, <2>2, <3>1
  <2>. QED BY <2>1, <2>2
<1>6. key \notin Range(left)
  BY <1>2, <1>5 DEF QueueOK
<1>7. /\ Moved({key}, AllocationType)
      /\ QueueOK(availableTickets', pendingOperations')
  BY <1>1, <1>2, <1>3, <1>4, <1>5, <1>6, SettledMoved
<1>. QED BY <1>2, <1>7

\* The signers match again when a rotation is confirmed.
LEMMA ConfirmedSigners ==
  ASSUME RelayInv, NEW i \in DOMAIN ledger, NEW key \in DOMAIN pendingOperations,
         key = KeyOf(ledger[i].tx), IsFor(ledger[i].tx, pendingOperations[key]),
         Moved({key}, AllocationType), UNCHANGED <<ledger, signerList>>,
         IF ledger[i].tx.operation_type.type = "RotateKeys" /\ ledger[i].result = "Accepted"
         THEN /\ config'.relayers = ledger[i].tx.operation_type.new_relayers
              /\ config'.evidence_threshold = ledger[i].tx.operation_type.new_evidence_threshold
         ELSE SameRelayers
  PROVE  SignersOK'
<1>1. \A j \in DOMAIN ledger : KeyOf(ledger[j].tx) = key => j = i
  BY DEF RelayInv, LedgerOK
<1>2. CASE i \notin Rotated
  <2>1. SameRelayers
    BY <1>2 DEF Rotated
  <2>2. \A j \in Rotated : KeyOf(ledger[j].tx) \notin {key}
    BY <1>1, <1>2 DEF Rotated
  <2>3. PICK gone, type : gone = {key} /\ type = AllocationType
    OBVIOUS
  <2>4. Moved(gone, type) /\ \A j \in Rotated : KeyOf(ledger[j].tx) \notin gone
    BY <2>2, <2>3
  <2>. QED BY <2>1, <2>4, SignersMoved DEF RelayInv
<1>3. CASE i \in Rotated
  <2>1. ASSUME NEW j \in Rotated PROVE j = i
    <3>1. /\ KeyOf(ledger[j].tx) \in DOMAIN pendingOperations
          /\ IsFor(ledger[j].tx, pendingOperations[KeyOf(ledger[j].tx)])
      BY DEF Rotated, RelayInv, QueueOK, EntryKnown
    <3>2. KeyOf(ledger[j].tx) \in PendingOfType("RotateKeys")
      BY <3>1 DEF PendingOfType, IsFor, Rotated
    <3>3. key \in PendingOfType("RotateKeys")
      BY <1>3 DEF PendingOfType, IsFor, Rotated
    <3>. QED BY <1>1, <3>2, <3>3 DEF RelayInv, ContractInv, RotationHaltsBridge, Rotated
  <2>2. PICK gone, type : gone = {key} /\ type = AllocationType
    OBVIOUS
  <2>3. Moved(gone, type)
    BY <2>2
  <2>4. Rotated' = {j \in Rotated : KeyOf(ledger[j].tx) \notin gone}
    BY <2>3, RotatedMoved
  <2>5. Rotated' = {}
    BY <2>1, <2>2, <2>4
  <2>6. /\ config'.relayers = ledger[i].tx.operation_type.new_relayers
        /\ config'.evidence_threshold = ledger[i].tx.operation_type.new_evidence_threshold
    BY <1>3 DEF Rotated
  <2>7. signerList = SignerListOf(ledger[i].tx.operation_type.new_relayers,
                                  ledger[i].tx.operation_type.new_evidence_threshold)
    BY <1>3 DEF RelayInv, SignersOK
  <2>. QED BY <2>5, <2>6, <2>7 DEF SignersOK, SignerListOf, SignersOf
<1>. QED BY <1>2, <1>3

LEMMA ConfirmReportStep ==
  ASSUME QuorumsMeet, RelayInv, NEW relayer \in Addr, NEW i \in DOMAIN ledger,
         ConfirmOperation(relayer, ReportOf(ledger[i])), AfterMessage(ledger[i].result),
         UNCHANGED network
  PROVE  RelayInv'
<1>1. PICK e, key, result : e = ReportOf(ledger[i]) /\ key = KeyOf(ledger[i].tx)
                              /\ result = ledger[i].result
  OBVIOUS
<1>2. ConfirmOperation(relayer, e) /\ TypeOK /\ LedgerOK
  BY <1>1 DEF RelayInv, ContractInv
<1>3. /\ key = ResultKey(e) /\ key \in DOMAIN pendingOperations
      /\ IsFor(ledger[i].tx, pendingOperations[key])
      /\ Moved({key}, AllocationType)
      /\ QueueOK(availableTickets', pendingOperations')
  BY <1>1, <1>2, ConfirmedQueue
<1>4. /\ e \in Evidence /\ e.transaction_result = result
      /\ \A ticket : e # Refusal(ticket)
  BY <1>1, <1>2, ReportTyped
<1>5. PICK type : type = pendingOperations[key].operation_type
  OBVIOUS
<1>6. type = ledger[i].tx.operation_type
  BY <1>3, <1>5 DEF IsFor
<1>7. IF type.type = "RotateKeys" /\ result = "Accepted"
      THEN /\ config'.relayers = type.new_relayers
           /\ config'.evidence_threshold = type.new_evidence_threshold
      ELSE SameRelayers
  BY <1>2, <1>3, <1>4, <1>5, ConfirmRelayers
<1>8. \A f : Votes(f)' \subseteq Votes(f)
  BY <1>2, <1>3, <1>5, ConfirmRelayers
<1>9. /\ UNCHANGED <<submitted, ledgerVars, ledger, signerList>>
      /\ kept' = kept - Cardinality(Refunded(result))
  BY <1>1 DEF AfterMessage, ledgerVars
<1>10. PICK gone, new : gone = {key} /\ new = AllocationType
  OBVIOUS
<1>11. Moved(gone, new) /\ new.type = "AllocateTickets"
  BY <1>3, <1>10 DEF AllocationType
<1>12. ContractInv'
  BY <1>2, <1>4, ContractConfirm DEF RelayInv
<1>13. TermsOK'
  <2>1. \/ SameRelayers
        \/ \E k \in PendingOfType("RotateKeys") :
             LET rotation == pendingOperations[k].operation_type
             IN /\ config'.relayers = rotation.new_relayers
                /\ config'.evidence_threshold = rotation.new_evidence_threshold
    BY <1>3, <1>5, <1>7 DEF PendingOfType
  <2>. QED BY <1>11, <2>1, TermsMoved DEF RelayInv, InTerms
<1>14. SignersOK'
  BY <1>1, <1>3, <1>6, <1>7, <1>9, ConfirmedSigners
<1>15. RefusalsOK'
  <2>1. ~IsRefused(key)
    BY <1>2, <1>5, <1>6 DEF IsRefused, Malformed, TransactionOf, LedgerOK, EntryOK
  <2>2. QuorumsMeet /\ TermsOK /\ VotesInv /\ RefusalsOK
    BY DEF RelayInv, ContractInv
  <2>3. \A ticket \in Nat : Votes(Refusal(ticket))' \subseteq Votes(Refusal(ticket))
    <3>. SUFFICES ASSUME NEW ticket \in Nat
                  PROVE  Votes(Refusal(ticket))' \subseteq Votes(Refusal(ticket))
      OBVIOUS
    <3>1. PICK f : f = Refusal(ticket)
      OBVIOUS
    <3>2. Votes(Refusal(ticket))' = Votes(f)'
      BY <3>1 DEF Votes, Refusal
    <3>. QED BY <1>8, <3>1, <3>2
  <2>. QED BY <1>10, <1>11, <2>1, <2>2, <2>3, RefusalsMoved
<1>16. KeptOK'
  <2>1. Refunded(result) = Unpaid \cap {key}
    <3>1. CASE result = "Accepted"
      BY <1>1, <1>3, <3>1, RefundedPaid
    <3>2. CASE result # "Accepted"
      <4>1. handle_cosmos_to_xrpl_transfer_confirmation(pendingOperations[key], result)
        BY <1>2, <1>3, <1>4 DEF ConfirmOperation, handle_operation
      <4>2. \A j \in Delivered : KeyOf(ledger[j].tx) # key
        BY <1>1, <1>2, <3>2 DEF Delivered, LedgerOK
      <4>. QED BY <1>3, <1>10, <1>11, <3>2, <4>1, <4>2, RefundedNotPaid
    <3>. QED BY <3>1, <3>2
  <2>2. KeptOK /\ LedgerOK /\ IsFiniteSet(DOMAIN pendingOperations) /\ UNCHANGED ledger
    BY <1>9 DEF RelayInv, QueueOK
  <2>. QED BY <1>9, <1>10, <1>11, <2>1, <2>2, KeptByMessage
<1>. QED BY <1>3, <1>9, <1>12, <1>13, <1>14, <1>15, <1>16, MessageStep

\* The transaction of a refused operation is nowhere on the XRPL.
LEMMA RefusedUnused ==
  ASSUME RelayInv, NEW key \in Nat, IsRefused(key)
  PROVE  /\ key \in DOMAIN pendingOperations
         /\ pendingOperations[key].operation_type.type = "CosmosToXRPLTransfer"
         /\ key \in xrplTickets
         /\ NotSubmitted(key)
         /\ \A i \in DOMAIN ledger : KeyOf(ledger[i].tx) # key
<1>1. PICK operation : operation = pendingOperations[key]
  OBVIOUS
<1>2. /\ key \in DOMAIN pendingOperations
      /\ operation.operation_type.type = "CosmosToXRPLTransfer"
      /\ operation.operation_type.recipient \in RefusedRecipients
  BY <1>1 DEF IsRefused, Malformed, TransactionOf
<1>3. ASSUME NEW tx, IsFor(tx, operation) PROVE Malformed(tx)
  BY <1>2, <1>3 DEF IsFor, Malformed
<1>4. NotSubmitted(key)
  BY <1>1, <1>2, <1>3 DEF NotSubmitted, RelayInv, QueueOK, SubmissionOK
<1>5. \A i \in DOMAIN ledger : KeyOf(ledger[i].tx) # key
  BY <1>1, <1>2, <1>3 DEF RelayInv, QueueOK, EntryKnown, LedgerOK, EntryOK
<1>6. key \in xrplTickets
  BY <1>1, <1>2, <1>5 DEF RelayInv, QueueOK, StoredUnder
<1>. QED BY <1>1, <1>2, <1>4, <1>5, <1>6

\* A quorum says that an operation is refused: it is, and too few votes of the same
\* kind are left on their way for the next operation on its ticket.
LEMMA RefusalQuorum ==
  ASSUME QuorumsMeet, RelayInv, NEW m \in network, NEW ticket \in Nat,
         NEW r \in RelayersEver \ Votes(Refusal(ticket)),
         m = [kind |-> "result", relayer |-> r, evidence |-> Refusal(ticket)],
         ThresholdReached(r, Refusal(ticket))
  PROVE  /\ IsRefused(ticket)
         /\ \A x \in Thresholds :
              Cardinality(RelayersEver \ (Votes(Refusal(ticket)) \cup {r})) < x
<1>1. PICK quorum : quorum = Votes(Refusal(ticket)) \cup {r}
  OBVIOUS
<1>2. TermsOK /\ VotesInv /\ config.evidence_threshold \in Thresholds
  BY DEF RelayInv, ContractInv, TermsOK
<1>3. PICK y \in Thresholds : y = config.evidence_threshold
  BY <1>2
<1>4. Cardinality(quorum) >= y
  BY <1>1, <1>3 DEF ThresholdReached
<1>5. quorum \subseteq Refusing(ticket)
  BY <1>1 DEF Refusing, OnTheWay
<1>6. /\ Refusing(ticket) \subseteq RelayersEver /\ IsFiniteSet(Refusing(ticket))
      /\ Cardinality(Refusing(ticket)) \in Nat
  BY <1>2, RefusingFinite
<1>7. quorum \subseteq RelayersEver /\ IsFiniteSet(quorum) /\ y \in Nat
  BY <1>5, <1>6, FS_Subset, ThresholdsNatural
<1>8. Cardinality(quorum) \in Nat
  BY <1>7, FS_CardinalityType
<1>9. IsRefused(ticket)
  <2>. SUFFICES ASSUME ~IsRefused(ticket) PROVE FALSE
    OBVIOUS
  <2>1. Cardinality(Refusing(ticket)) < y
    BY DEF RelayInv, RefusalsOK
  <2>2. Cardinality(quorum) < y
    BY <1>5, <1>6, <1>7, <2>1, FewerRefuse
  <2>. QED BY <1>4, <1>7, <1>8, <2>2
<1>10. ASSUME NEW x \in Thresholds PROVE Cardinality(RelayersEver \ quorum) < x
  <2>1. IsFiniteSet(RelayersEver) /\ x + y > Cardinality(RelayersEver) /\ x \in Nat
    BY ThresholdsNatural DEF QuorumsMeet
  <2>2. Cardinality(RelayersEver) \in Nat
    BY <2>1, FS_CardinalityType
  <2>3. RelayersEver \cap quorum = quorum
    BY <1>7
  <2>4. Cardinality(RelayersEver \ quorum) = Cardinality(RelayersEver) - Cardinality(quorum)
    BY <2>1, <2>3, FS_Difference
  <2>. QED BY <1>4, <1>7, <1>8, <2>1, <2>2, <2>4
<1>. QED BY <1>1, <1>9, <1>10

\* What is left of the refusals then
LEMMA RefusalsConfirmed ==
  ASSUME QuorumsMeet, RelayInv, NEW m \in network, NEW ticket \in Nat,
         NEW r \in RelayersEver \ Votes(Refusal(ticket)),
         m = [kind |-> "result", relayer |-> r, evidence |-> Refusal(ticket)],
         ThresholdReached(r, Refusal(ticket)), network' = network \ {m},
         NEW type, Moved({ticket}, type), Votes(Refusal(ticket))' = {},
         \A t \in Nat : Votes(Refusal(t))' \subseteq Votes(Refusal(t))
  PROVE  RefusalsOK'
<1>1. ASSUME NEW n \in network', n.kind = "result"
      PROVE  \E t \in Nat : \E s \in RelayersEver \ Votes(Refusal(t))' :
               n = [kind |-> "result", relayer |-> s, evidence |-> Refusal(t)]
  BY <1>1 DEF RelayInv, RefusalsOK
<1>2. ASSUME NEW t \in Nat, t # ticket
      PROVE  \/ IsRefused(t)'
             \/ \A x \in Thresholds : Cardinality(Refusing(t)') < x
  <2>1. IsRefused(t) => IsRefused(t)'
    BY <1>2 DEF IsRefused, Moved, Malformed, TransactionOf
  <2>2. Refusing(t)' \subseteq Refusing(t)
    <3>1. OnTheWay(t)' \subseteq OnTheWay(t)
      BY DEF OnTheWay, Refusal
    <3>. QED BY <3>1 DEF Refusing
  <2>3. IsFiniteSet(Refusing(t))
    BY RefusingFinite DEF RelayInv, ContractInv
  <2>4. ASSUME NEW x \in Thresholds, Cardinality(Refusing(t)) < x
        PROVE  Cardinality(Refusing(t)') < x
    <3>1. x \in Nat
      BY ThresholdsNatural
    <3>. QED BY <2>2, <2>3, <2>4, <3>1, FewerRefuse
  <2>. QED BY <2>1, <2>4 DEF RelayInv, RefusalsOK
<1>3. ASSUME NEW x \in Thresholds PROVE Cardinality(Refusing(ticket)') < x
  <2>1. PICK others : others = RelayersEver \ (Votes(Refusal(ticket)) \cup {r})
    OBVIOUS
  <2>2. Cardinality(others) < x /\ x \in Nat
    BY <2>1, RefusalQuorum, ThresholdsNatural
  <2>3. OnTheWay(ticket)' \subseteq others
    <3>. SUFFICES ASSUME NEW s \in OnTheWay(ticket)' PROVE s \in others
      OBVIOUS
    <3>1. PICK n \in network : /\ n # m /\ s \in RelayersEver
                               /\ n = [kind |-> "result", relayer |-> s, evidence |-> Refusal(ticket)]
      BY DEF OnTheWay, Refusal, RelayersEver
    <3>2. s # r
      BY <3>1
    <3>3. PICK t \in Nat : \E q \in RelayersEver \ Votes(Refusal(t)) :
            n = [kind |-> "result", relayer |-> q, evidence |-> Refusal(t)]
      BY <3>1 DEF RelayInv, RefusalsOK
    <3>4. t = ticket /\ s \notin Votes(Refusal(ticket))
      BY <3>1, <3>3, RefusalTyped
    <3>. QED BY <2>1, <3>1, <3>2, <3>4
  <2>4. Refusing(ticket)' \subseteq others
    BY <2>3 DEF Refusing
  <2>5. IsFiniteSet(others)
    BY <2>1, FS_Difference DEF QuorumsMeet
  <2>. QED BY <2>2, <2>4, <2>5, FewerRefuse
<1>4. RelayersEver' = RelayersEver /\ Thresholds' = Thresholds
  BY DEF RelayersEver, Thresholds
<1>. QED BY <1>1, <1>2, <1>3, <1>4 DEF RefusalsOK, Refusal

\* An operation that was never executed leaves the queue.
LEMMA UnusedStep ==
  ASSUME RelayInv, NEW key \in DOMAIN pendingOperations, Moved({key}, AllocationType),
         QueueOK(availableTickets', pendingOperations'), ContractInv', RefusalsOK', SameRelayers,
         \A i \in DOMAIN ledger : KeyOf(ledger[i].tx) # key,
         handle_cosmos_to_xrpl_transfer_confirmation(pendingOperations[key], "Invalid"),
         AfterMessage("Invalid")
  PROVE  RelayInv'
<1>1. PICK gone, type, result : gone = {key} /\ type = AllocationType /\ result = "Invalid"
  OBVIOUS
<1>2. Moved(gone, type) /\ type.type = "AllocateTickets"
  BY <1>1 DEF AllocationType
<1>3. /\ UNCHANGED <<submitted, ledgerVars, ledger, signerList>>
      /\ kept' = kept - Cardinality(Refunded(result))
  BY <1>1 DEF AfterMessage, ledgerVars
<1>4. TermsOK'
  BY <1>2, TermsMoved DEF RelayInv, InTerms
<1>5. SignersOK'
  <2>1. \A i \in Rotated : KeyOf(ledger[i].tx) \notin gone
    BY <1>1 DEF Rotated
  <2>. QED BY <1>2, <1>3, <2>1, SignersMoved DEF RelayInv
<1>6. KeptOK'
  <2>1. Refunded(result) = Unpaid \cap {key}
    <3>1. \A i \in Delivered : KeyOf(ledger[i].tx) # key
      BY DEF Delivered
    <3>2. /\ handle_cosmos_to_xrpl_transfer_confirmation(pendingOperations[key], result)
          /\ result # "Accepted" /\ Moved({key}, type)
      BY <1>1
    <3>. QED BY <3>1, <3>2, RefundedNotPaid
  <2>2. KeptOK /\ LedgerOK /\ IsFiniteSet(DOMAIN pendingOperations)
    BY DEF RelayInv, QueueOK
  <2>. QED BY <1>1, <1>2, <1>3, <2>1, <2>2, KeptByMessage
<1>. QED BY <1>3, <1>4, <1>5, <1>6, MessageStep

\* The refusal of a transaction is confirmed: its ticket is returned.
LEMMA RefusedQueue ==
  ASSUME RelayInv, NEW key \in Nat, IsRefused(key), NEW left \in Seq(Nat),
         left = <<key>> \o availableTickets, availableTickets' = left,
         pendingOperations' = Without(pendingOperations, key)
  PROVE  /\ Moved({key}, AllocationType)
         /\ QueueOK(availableTickets', pendingOperations')
<1>1. /\ TypeOK /\ LedgerOK /\ QueueOK(availableTickets, pendingOperations)
      /\ availableTickets \in Seq(Nat)
  BY DEF RelayInv, ContractInv, TypeOK
<1>2. key \in DOMAIN pendingOperations /\ key \in xrplTickets /\ NotSubmitted(key)
  BY RefusedUnused
<1>3. PICK rest : rest = Without(pendingOperations, key)
  OBVIOUS
<1>4. QueueOK(left, rest)
  BY <1>1, <1>2, <1>3, QueueReturned
<1>5. SettledTo(key, left)
  BY DEF SettledTo
<1>. QED BY <1>1, <1>2, <1>3, <1>4, <1>5, SettledMoved

LEMMA ConfirmedRefusal ==
  ASSUME QuorumsMeet, RelayInv, NEW m \in network, DeliverResult(m),
         ConfirmOperation(m.relayer, m.evidence)
  PROVE  \E ticket \in Nat : \E r \in RelayersEver \ Votes(Refusal(ticket)) :
           /\ m = [kind |-> "result", relayer |-> r, evidence |-> Refusal(ticket)]
           /\ m.relayer = r /\ m.evidence = Refusal(ticket)
           /\ ThresholdReached(r, Refusal(ticket)) /\ IsRefused(ticket)
           /\ \E left \in Seq(Nat) :
                /\ left = <<ticket>> \o availableTickets
                /\ availableTickets' = left
                /\ pendingOperations' = Without(pendingOperations, ticket)
<1>1. m.kind = "result"
  BY DEF DeliverResult
<1>2. PICK ticket \in Nat : \E r \in RelayersEver \ Votes(Refusal(ticket)) :
        /\ m = [kind |-> "result", relayer |-> r, evidence |-> Refusal(ticket)]
        /\ m.relayer = r /\ m.evidence = Refusal(ticket)
  BY <1>1, MessageRefuses
<1>3. PICK r \in RelayersEver \ Votes(Refusal(ticket)) :
        /\ m = [kind |-> "result", relayer |-> r, evidence |-> Refusal(ticket)]
        /\ m.relayer = r /\ m.evidence = Refusal(ticket)
  BY <1>2
<1>4. PICK e \in Evidence : e = Refusal(ticket)
  BY RefusalTyped
<1>5. /\ ResultKey(e) = ticket /\ e.transaction_result = "Invalid"
      /\ e.ticket_sequence = ticket
  BY <1>4, RefusalTyped
<1>6. ConfirmOperation(r, e) /\ TypeOK
  BY <1>3, <1>4 DEF RelayInv, ContractInv
<1>7. ThresholdReached(r, Refusal(ticket))
  BY <1>4, <1>6 DEF ConfirmOperation
<1>8. IsRefused(ticket)
  BY <1>3, <1>7, RefusalQuorum
<1>9. PICK operation : operation = pendingOperations[ticket]
  OBVIOUS
<1>10. operation.operation_type.type = "CosmosToXRPLTransfer"
  BY <1>8, <1>9, RefusedUnused
<1>11. PICK left \in Seq(Nat) :
         /\ HandledTo(operation, e.transaction_result, e.operation_result, e.ticket_sequence, left)
         /\ availableTickets' = left
         /\ pendingOperations' = Without(pendingOperations, ticket)
  BY <1>5, <1>6, <1>9, ConfirmSettles
<1>12. left = <<ticket>> \o availableTickets
  BY <1>5, <1>10, <1>11, IdentityAssumption DEF HandledTo
<1>. QED BY <1>3, <1>7, <1>8, <1>11, <1>12

LEMMA ConfirmRefusalStep ==
  ASSUME QuorumsMeet, RelayInv, NEW m \in network, m.relayer \in Addr, DeliverResult(m),
         ConfirmOperation(m.relayer, m.evidence)
  PROVE  RelayInv'
<1>1. PICK ticket \in Nat : \E r \in RelayersEver \ Votes(Refusal(ticket)) :
        /\ m = [kind |-> "result", relayer |-> r, evidence |-> Refusal(ticket)]
        /\ m.relayer = r /\ m.evidence = Refusal(ticket)
        /\ ThresholdReached(r, Refusal(ticket)) /\ IsRefused(ticket)
        /\ \E left \in Seq(Nat) :
             /\ left = <<ticket>> \o availableTickets
             /\ availableTickets' = left
             /\ pendingOperations' = Without(pendingOperations, ticket)
  BY ConfirmedRefusal
<1>2. PICK r \in RelayersEver \ Votes(Refusal(ticket)) :
        /\ m = [kind |-> "result", relayer |-> r, evidence |-> Refusal(ticket)]
        /\ m.relayer = r /\ m.evidence = Refusal(ticket)
        /\ ThresholdReached(r, Refusal(ticket))
  BY <1>1
<1>3. PICK e \in Evidence : e = Refusal(ticket)
  BY RefusalTyped
<1>4. ResultKey(e) = ticket /\ e.transaction_result = "Invalid"
  BY <1>3, RefusalTyped
<1>5. r \in Addr /\ ConfirmOperation(r, e) /\ TypeOK
  BY <1>2, <1>3 DEF RelayInv, ContractInv
<1>6. PICK operation : operation = pendingOperations[ticket]
  OBVIOUS
<1>7. /\ ticket \in DOMAIN pendingOperations
       /\ operation.operation_type.type = "CosmosToXRPLTransfer"
       /\ \A i \in DOMAIN ledger : KeyOf(ledger[i].tx) # ticket
  BY <1>1, <1>6, RefusedUnused
<1>8. /\ Moved({ticket}, AllocationType)
       /\ QueueOK(availableTickets', pendingOperations')
  BY <1>1, RefusedQueue
<1>9. SameRelayers /\ Votes(e)' = {} /\ \A f : Votes(f)' \subseteq Votes(f)
  <2>1. PICK operationType : operationType = operation.operation_type
    OBVIOUS
  <2>. QED BY <1>4, <1>5, <1>6, <1>7, <2>1, ConfirmRelayers
<1>10. ASSUME NEW t \in Nat
       PROVE  /\ Votes(Refusal(t))' \subseteq Votes(Refusal(t))
              /\ t = ticket => Votes(Refusal(t))' = {}
  <2>1. PICK f : f = Refusal(t)
    OBVIOUS
  <2>2. Votes(Refusal(t))' = Votes(f)'
    BY <2>1 DEF Votes, Refusal
  <2>. QED BY <1>3, <1>9, <2>1, <2>2
<1>11. network' = network \ {m} /\ AfterMessage("Invalid")
  BY <1>2, <1>3, <1>4 DEF DeliverResult
<1>12. PICK type : type = AllocationType
  OBVIOUS
<1>13. RefusalsOK'
  BY <1>2, <1>8, <1>10, <1>11, <1>12, RefusalsConfirmed
<1>14. ContractInv'
  BY <1>5, ContractConfirm DEF RelayInv
<1>15. handle_cosmos_to_xrpl_transfer_confirmation(pendingOperations[ticket], "Invalid")
  BY <1>4, <1>5 DEF ConfirmOperation, handle_operation
<1>. QED BY <1>7, <1>8, <1>9, <1>11, <1>13, <1>14, <1>15, UnusedStep

\* An operation whose transaction was not sent is cancelled.
LEMMA UnsentUnused ==
  ASSUME RelayInv, NEW key \in DOMAIN pendingOperations, Unsent(TransactionOf(key))
  PROVE  /\ NotSubmitted(key)
         /\ \A i \in DOMAIN ledger : KeyOf(ledger[i].tx) # key
         /\ ~IsRefused(key)
         /\ pendingOperations[key].ticket_sequence # None =>
              pendingOperations[key].ticket_sequence = key /\ key \in xrplTickets
<1>1. PICK operation, tx : operation = pendingOperations[key] /\ tx = TransactionOf(key)
  OBVIOUS
<1>2. tx.ticket = operation.ticket_sequence /\ tx.account = operation.account_sequence
  BY <1>1 DEF TransactionOf
<1>3. NotSubmitted(key)
  <2>. SUFFICES ASSUME NEW s \in submitted, KeyOf(s.tx) = key PROVE FALSE
    BY DEF NotSubmitted
  <2>1. IsFor(s.tx, operation)
    BY <1>1 DEF RelayInv, QueueOK, SubmissionOK
  <2>. QED BY <1>1, <1>2, <2>1 DEF Unsent, IsFor
<1>4. SequenceUsable(tx) /\ StoredUnder(key, operation) /\ key \in Nat
  BY <1>1 DEF Unsent, RelayInv, QueueOK, ContractInv, TypeOK
<1>5. IF operation.ticket_sequence # None
      THEN operation.ticket_sequence = key /\ key \in xrplTickets
      ELSE key = nextSequence
  BY <1>2, <1>4, IdentityAssumption DEF SequenceUsable, StoredUnder
<1>6. \A i \in DOMAIN ledger : KeyOf(ledger[i].tx) # key
  BY <1>5 DEF RelayInv, LedgerOK, EntryOK
<1>7. ~IsRefused(key)
  BY DEF Unsent, IsRefused
<1>. QED BY <1>1, <1>3, <1>5, <1>6, <1>7

LEMMA CancelStep ==
  ASSUME QuorumsMeet, RelayInv, NEW key \in DOMAIN pendingOperations,
         Unsent(TransactionOf(key)), CancelPendingOperation(Owner, key), AfterMessage("Invalid"),
         UNCHANGED network
  PROVE  RelayInv'
<1>1. /\ TypeOK /\ LedgerOK /\ QueueOK(availableTickets, pendingOperations)
      /\ availableTickets \in Seq(Nat) /\ key \in Nat /\ Owner \in Addr
  BY IdentityAssumption DEF RelayInv, ContractInv, TypeOK
<1>2. /\ NotSubmitted(key) /\ ~IsRefused(key)
      /\ \A i \in DOMAIN ledger : KeyOf(ledger[i].tx) # key
      /\ pendingOperations[key].ticket_sequence # None =>
           pendingOperations[key].ticket_sequence = key /\ key \in xrplTickets
  BY UnsentUnused
<1>3. PICK rest : rest = Without(pendingOperations, key)
  OBVIOUS
<1>4. PICK left \in Seq(Nat) :
        /\ availableTickets' = left /\ pendingOperations' = rest /\ QueueOK(left, rest)
  <2>1. CASE pendingOperations[key].ticket_sequence # None
    <3>1. PICK left : left = <<key>> \o availableTickets
      OBVIOUS
    <3>2. availableTickets' = left /\ pendingOperations' = rest
      BY <1>1, <1>2, <1>3, <2>1, <3>1, CancelSettles
    <3>3. QueueOK(left, rest)
      BY <1>1, <1>2, <1>3, <2>1, <3>1, QueueReturned
    <3>4. left \in Seq(Nat)
      <4>1. <<key>> \in Seq(Nat)
        BY <1>1, OneTicket
      <4>. QED BY <1>1, <3>1, <4>1
    <3>. QED BY <3>2, <3>3, <3>4
  <2>2. CASE pendingOperations[key].ticket_sequence = None
    <3>1. availableTickets' = availableTickets /\ pendingOperations' = rest
      BY <1>1, <1>3, <2>2, CancelSettles
    <3>2. QueueOK(availableTickets, rest)
      BY <1>1, <1>2, <1>3, QueueWithout
    <3>. QED BY <1>1, <3>1, <3>2
  <2>. QED BY <2>1, <2>2
<1>5. SettledTo(key, left)
  BY <1>3, <1>4 DEF SettledTo
<1>6. Moved({key}, AllocationType) /\ QueueOK(availableTickets', pendingOperations')
  BY <1>1, <1>3, <1>4, <1>5, SettledMoved
<1>7. /\ handle_rotate_keys_confirmation(pendingOperations[key].operation_type, "Invalid", txEvidences)
      /\ handle_cosmos_to_xrpl_transfer_confirmation(pendingOperations[key], "Invalid")
  BY DEF CancelPendingOperation, handle_operation
<1>8. UNCHANGED <<config, txEvidences>> /\ SameRelayers
  BY <1>7 DEF handle_rotate_keys_confirmation, SameRelayers
<1>9. ContractInv'
  BY <1>1, ContractOwner DEF RelayInv
<1>10. RefusalsOK'
  <2>1. PICK gone, type : gone = {key} /\ type = AllocationType
    OBVIOUS
  <2>2. Moved(gone, type) /\ \A k \in gone : ~IsRefused(k)
    BY <1>2, <1>6, <2>1
  <2>3. \A ticket \in Nat : Votes(Refusal(ticket))' \subseteq Votes(Refusal(ticket))
    BY <1>8 DEF Votes, Refusal
  <2>4. QuorumsMeet /\ TermsOK /\ VotesInv /\ RefusalsOK
    BY DEF RelayInv, ContractInv
  <2>. QED BY <2>2, <2>3, <2>4, RefusalsMoved
<1>. QED BY <1>2, <1>6, <1>7, <1>8, <1>9, <1>10, UnusedStep

-----------------------------------------------------------------------------
\* An operation is started

\* Nothing is refused or voted for when an operation is started.
LEMMA RefusalsStarted ==
  ASSUME QuorumsMeet, RelayInv, NEW type, Moved({}, type), UNCHANGED <<txEvidences, network>>
  PROVE  RefusalsOK'
<1>1. PICK gone : gone = {}
  OBVIOUS
<1>2. Moved(gone, type) /\ \A key \in gone : ~IsRefused(key)
  BY <1>1
<1>3. \A ticket \in Nat : Votes(Refusal(ticket))' \subseteq Votes(Refusal(ticket))
  BY DEF Votes, Refusal
<1>4. QuorumsMeet /\ TermsOK /\ VotesInv /\ RefusalsOK
  BY DEF RelayInv, ContractInv
<1>. QED BY <1>2, <1>3, <1>4, RefusalsMoved

LEMMA StartedStep ==
  ASSUME QuorumsMeet, RelayInv, NEW type, Moved({}, type), InTerms(type), SameRelayers,
         UNCHANGED <<txEvidences, network, submitted, ledgerVars>>, ContractInv', KeptOK',
         QueueOK(availableTickets', pendingOperations')
  PROVE  RelayInv'
<1>1. PICK gone : gone = {}
  OBVIOUS
<1>2. Moved(gone, type) /\ UNCHANGED <<ledger, signerList>>
  BY <1>1 DEF ledgerVars
<1>3. TermsOK'
  BY <1>2, TermsMoved DEF RelayInv
<1>4. SignersOK'
  BY <1>1, <1>2, SignersMoved DEF RelayInv
<1>5. RefusalsOK'
  BY RefusalsStarted
<1>. QED BY <1>3, <1>4, <1>5, MessageStep

\* A message of the owner that starts an operation refunds nothing.
LEMMA StartedByOwner ==
  ASSUME QuorumsMeet, RelayInv, NEW type, Moved({}, type), InTerms(type), SameRelayers,
         type.type # "CosmosToXRPLTransfer", UNCHANGED <<txEvidences, network>>,
         AfterMessage("Invalid"), ContractInv', QueueOK(availableTickets', pendingOperations')
  PROVE  RelayInv'
<1>1. /\ UNCHANGED <<submitted, ledgerVars, ledger>>
      /\ kept' = kept - Cardinality(Refunded("Invalid"))
  BY DEF AfterMessage, ledgerVars
<1>2. PICK result : kept' = kept - Cardinality(Refunded(result))
  BY <1>1
<1>3. KeptOK /\ LedgerOK /\ IsFiniteSet(DOMAIN pendingOperations)
  BY DEF RelayInv, QueueOK
<1>4. KeptOK'
  BY <1>1, <1>2, <1>3, KeptWithout
<1>. QED BY <1>1, <1>4, StartedStep

\* RecoverTickets
LEMMA RecoverStep ==
  ASSUME QuorumsMeet, RelayInv, RecoverTickets(Owner, nextSequence, RecoveredTickets),
         AfterMessage("Invalid"), UNCHANGED network
  PROVE  RelayInv'
<1>1. PICK key, type :
        /\ key = nextSequence
        /\ type = [type |-> "AllocateTickets",
                   number |-> IF RecoveredTickets = None THEN usedTickets ELSE RecoveredTickets]
  OBVIOUS
<1>2. /\ availableTickets = <<>> /\ availableTickets' = <<>>
      /\ key \notin DOMAIN pendingOperations
      /\ pendingOperations' = create_pending_operation(pendingOperations, None, nextSequence, type)
  BY <1>1 DEF RecoverTickets, may_create_operation
<1>3. LedgerOK /\ QueueOK(availableTickets, pendingOperations) /\ key \in Nat
  BY <1>1 DEF RelayInv, LedgerOK
<1>4. PICK after : after = pendingOperations'
  OBVIOUS
<1>5. /\ QueueOK(<<>>, pendingOperations)
      /\ type.type = "AllocateTickets"
      /\ after = create_pending_operation(pendingOperations, None, nextSequence, type)
  BY <1>1, <1>2, <1>3, <1>4
<1>6. QueueOK(<<>>, after)
  BY <1>1, <1>2, <1>3, <1>5, QueueRecovered
<1>7. QueueOK(availableTickets', pendingOperations')
  BY <1>2, <1>4, <1>6
<1>8. OperationKey(None, key) = key
  BY DEF OperationKey
<1>9. /\ DOMAIN after = DOMAIN pendingOperations \cup {key}
      /\ after[key].operation_type = type
      /\ \A i \in DOMAIN pendingOperations : i # key => after[i] = pendingOperations[i]
  BY <1>1, <1>5, <1>8 DEF create_pending_operation, Put
<1>10. \A i \in DOMAIN ledger : KeyOf(ledger[i].tx) # key
  BY <1>1, <1>3 DEF LedgerOK, EntryOK
<1>11. Moved({}, type)
  BY <1>2, <1>4, <1>9, <1>10 DEF Moved
<1>12. ContractInv' /\ SameRelayers /\ UNCHANGED txEvidences
  BY <1>1, <1>3, ContractRecover DEF RelayInv
<1>. QED BY <1>5, <1>7, <1>11, <1>12, StartedByOwner DEF InTerms

\* RotateKeys
LEMMA RotateStep ==
  ASSUME QuorumsMeet, RelayInv, NEW rotation \in Rotations, RotateKeys(Owner, rotation),
         AfterMessage("Invalid"), UNCHANGED network
  PROVE  RelayInv'
<1>1. PICK type : type = [type |-> "RotateKeys", new_relayers |-> rotation.new_relayers,
                          new_evidence_threshold |-> rotation.new_evidence_threshold]
  OBVIOUS
<1>2. /\ create_operation_on_ticket(type, "Halted", TRUE)
      /\ UNCHANGED txEvidences /\ config' = [config EXCEPT !.bridge_state = "Halted"]
  BY <1>1 DEF RotateKeys, evidenceVars
<1>3. Moved({}, type) /\ QueueOK(availableTickets', pendingOperations')
  BY <1>2, TakenMoved DEF RelayInv, ContractInv
<1>4. SameRelayers
  BY <1>2 DEF SameRelayers, RelayInv, ContractInv, TypeOK
<1>5. /\ type.type = "RotateKeys" /\ type.new_relayers = rotation.new_relayers
      /\ type.new_evidence_threshold = rotation.new_evidence_threshold
  BY <1>1
<1>6. InTerms(type)
  BY <1>5 DEF InTerms, RelayersEver, Thresholds
<1>7. ContractInv'
  BY IdentityAssumption, ContractOwner DEF RelayInv
<1>. QED BY <1>2, <1>3, <1>4, <1>5, <1>6, <1>7, StartedByOwner

\* SendToXRPL
LEMMA SendStep ==
  ASSUME QuorumsMeet, RelayInv, NEW send \in SendInputs, Send(send)
  PROVE  RelayInv'
<1>1. PICK type : type = Transfer(send)
  OBVIOUS
<1>2. type.type = "CosmosToXRPLTransfer"
  BY <1>1 DEF Transfer
<1>3. /\ create_operation_on_ticket(type, config.bridge_state, pendingRotateKeys)
      /\ UNCHANGED <<txEvidences, network, submitted, ledgerVars, ledger>> /\ SameRelayers
      /\ kept' = kept + 1
  BY <1>1 DEF Send, SendToXRPL, evidenceVars, SameRelayers, ledgerVars
<1>4. TypeOK /\ LedgerOK /\ QueueOK(availableTickets, pendingOperations)
  BY DEF RelayInv, ContractInv
<1>5. /\ Moved({}, type) /\ QueueOK(availableTickets', pendingOperations')
      /\ \E key : /\ key \notin DOMAIN pendingOperations
                  /\ DOMAIN pendingOperations' = DOMAIN pendingOperations \cup {key}
  BY <1>3, <1>4, TakenMoved
<1>6. PICK key : /\ key \notin DOMAIN pendingOperations
                 /\ DOMAIN pendingOperations' = DOMAIN pendingOperations \cup {key}
  BY <1>5
<1>7. /\ pendingOperations'[key].operation_type = type
      /\ \A i \in DOMAIN ledger : KeyOf(ledger[i].tx) # key
      /\ \A k \in DOMAIN pendingOperations :
           pendingOperations'[k].operation_type = pendingOperations[k].operation_type
  BY <1>5, <1>6 DEF Moved
<1>8. Delivered' = Delivered
  BY <1>3 DEF Delivered
<1>9. TransferKeys' = TransferKeys \cup {key}
  BY <1>2, <1>6, <1>7 DEF TransferKeys
<1>10. Unpaid' = Unpaid \cup {key} /\ key \notin Unpaid
  <2>1. Unpaid' = {k \in TransferKeys' : \A i \in Delivered : KeyOf(ledger[i].tx) # k}
    BY <1>3, <1>8 DEF Unpaid, KeyOf
  <2>. QED BY <1>6, <1>7, <1>9, <2>1 DEF Unpaid, TransferKeys, Delivered
<1>11. /\ IsFiniteSet(Unpaid) /\ Cardinality(Unpaid) \in Nat /\ Cardinality(Delivered) \in Nat
  BY <1>4, Counted DEF QueueOK
<1>12. Cardinality(Unpaid \cup {key}) = Cardinality(Unpaid) + 1
  BY <1>10, <1>11, FS_AddElement
<1>13. Cardinality(Unpaid)' = Cardinality(Unpaid) + 1 /\ Cardinality(Delivered)' = Cardinality(Delivered)
  BY <1>8, <1>10, <1>12
<1>14. KeptOK'
  BY <1>3, <1>11, <1>13 DEF RelayInv, KeptOK
<1>15. ContractInv'
  <2>1. SendToXRPL(send)
    BY DEF Send
  <2>. QED BY <2>1, IdentityAssumption, ContractOwner DEF RelayInv
<1>. QED BY <1>2, <1>3, <1>5, <1>14, <1>15, StartedStep DEF InTerms

-----------------------------------------------------------------------------
\* Steps of the relayers and of the XRPL, which leave the contract alone

LEMMA ContractStays ==
  ASSUME RelayInv, UNCHANGED vars
  PROVE  ContractInv' /\ TermsOK' /\ Kept /\ SameRelayers
<1>1. ContractInv'
  BY ContractNext DEF RelayInv
<1>2. UNCHANGED <<config, pendingOperations>>
  BY DEF vars
<1>3. RelayersEver' = RelayersEver /\ Thresholds' = Thresholds
  BY DEF RelayersEver, Thresholds
<1>4. TermsOK'
  BY <1>2, <1>3 DEF RelayInv, TermsOK, relayerAddresses, PendingOfType
<1>. QED BY <1>1, <1>2, <1>4 DEF Kept, SameRelayers

\* Messages are sent and lost, the XRPL is under load.
LEMMA SilentStep ==
  ASSUME QuorumsMeet, RelayInv, UNCHANGED <<vars, submitted, ledgerVars, kept>>,
         \A m \in network' : m.kind = "result" => m \in network
  PROVE  RelayInv'
<1>1. Renewed /\ UNCHANGED txEvidences
  BY DEF Renewed, Kept, vars, ticketVars, evidenceVars
<1>2. RefusalsOK'
  BY <1>1, RefusalsRenewed
<1>. QED BY <1>1, <1>2, ContractStays, RenewedStep

\* A relayer reports that the transaction of an operation is refused.
LEMMA RefuseStep ==
  ASSUME QuorumsMeet, RelayInv, NEW relayer, NEW key \in DOMAIN pendingOperations,
         ReportRefused(relayer, key)
  PROVE  RelayInv'
<1>1. /\ is_relayer(relayer) /\ Malformed(TransactionOf(key))
      /\ relayer \notin Votes(InvalidResult(relayer, key).evidence)
      /\ network' = network \cup {InvalidResult(relayer, key)}
      /\ UNCHANGED <<vars, submitted, ledgerVars, kept>>
  BY DEF ReportRefused, CanSubmit
<1>2. key \in Nat /\ relayer \in RelayersEver /\ IsRefused(key)
  BY <1>1 DEF RelayInv, ContractInv, TypeOK, TermsOK, is_relayer, IsRefused
<1>3. PICK operation, tx : operation = pendingOperations[key] /\ tx = TransactionOf(key)
  OBVIOUS
<1>4. operation.operation_type.type = "CosmosToXRPLTransfer"
  BY <1>1, <1>3 DEF Malformed, TransactionOf
<1>5. operation.ticket_sequence = key /\ operation.account_sequence = None
  <2>1. StoredUnder(key, operation)
    BY <1>3 DEF RelayInv, QueueOK
  <2>. QED BY <1>4, <2>1 DEF StoredUnder
<1>6. tx.ticket = key /\ tx.account = None /\ tx.operation_type.type # "AllocateTickets"
  BY <1>3, <1>4, <1>5 DEF TransactionOf
<1>7. ResultOf(None, tx, "Invalid", None) = Refusal(key)
  BY <1>6 DEF ResultOf, Refusal
<1>8. PICK m : m = [kind |-> "result", relayer |-> relayer, evidence |-> Refusal(key)]
  OBVIOUS
<1>9. InvalidResult(relayer, key) = m /\ InvalidResult(relayer, key).evidence = Refusal(key)
  BY <1>3, <1>7, <1>8 DEF InvalidResult
<1>10. network' = network \cup {m} /\ relayer \notin Votes(Refusal(key))
  BY <1>1, <1>9
<1>11. UNCHANGED <<txEvidences, pendingOperations>>
  BY <1>1 DEF vars, evidenceVars
<1>12. ASSUME NEW t PROVE Votes(Refusal(t))' = Votes(Refusal(t))
  BY <1>11 DEF Votes, Refusal
<1>13. ASSUME NEW n \in network', n.kind = "result"
       PROVE  \E t \in Nat : \E s \in RelayersEver \ Votes(Refusal(t))' :
                n = [kind |-> "result", relayer |-> s, evidence |-> Refusal(t)]
  <2>1. CASE n = m
    BY <1>2, <1>8, <1>10, <1>12, <2>1
  <2>2. CASE n \in network
    BY <1>12, <1>13, <2>2 DEF RelayInv, RefusalsOK
  <2>. QED BY <1>10, <1>13, <2>1, <2>2
<1>14. ASSUME NEW t \in Nat
       PROVE  \/ IsRefused(t)'
              \/ \A x \in Thresholds : Cardinality(Refusing(t)') < x
  <2>1. IsRefused(t)' <=> IsRefused(t)
    BY <1>11 DEF IsRefused, Malformed, TransactionOf
  <2>2. CASE t = key
    BY <1>2, <2>1, <2>2
  <2>3. CASE t # key
    <3>1. \A s : [kind |-> "result", relayer |-> s, evidence |-> Refusal(t)] # m
      <4>1. Refusal(t) # Refusal(key)
        BY <1>2, <2>3, RefusalTyped
      <4>2. m.evidence = Refusal(key)
        BY <1>8
      <4>. QED BY <4>1, <4>2
    <3>2. OnTheWay(t)' = OnTheWay(t)
      BY <1>10, <3>1 DEF OnTheWay, Refusal, RelayersEver
    <3>3. Refusing(t)' = Refusing(t)
      BY <1>12, <3>2 DEF Refusing
    <3>. QED BY <2>1, <3>3 DEF RelayInv, RefusalsOK
  <2>. QED BY <2>2, <2>3
<1>15. RelayersEver' = RelayersEver /\ Thresholds' = Thresholds
  BY DEF RelayersEver, Thresholds
<1>16. RefusalsOK'
  BY <1>13, <1>14, <1>15 DEF RefusalsOK, Refusal
<1>17. Renewed
  BY <1>1 DEF Renewed, Kept, vars, ticketVars
<1>. QED BY <1>1, <1>16, <1>17, ContractStays, RenewedStep

\* What follows from the parts that the submitted transactions have no share in
LEMMA XRPLStep ==
  ASSUME RelayInv, UNCHANGED <<vars, network>>, LedgerOK',
         QueueOK(availableTickets, pendingOperations)', SignersOK', KeptOK'
  PROVE  RelayInv'
<1>1. UNCHANGED <<txEvidences, pendingOperations>>
  BY DEF vars, evidenceVars
<1>2. RefusalsOK'
  BY <1>1 DEF RelayInv, RefusalsOK, Refusing, OnTheWay, Votes, Refusal, IsRefused, Malformed,
              TransactionOf, RelayersEver, Thresholds
<1>. QED BY <1>2, ContractStays DEF RelayInv

\* A transaction is submitted.
LEMMA SubmitStep ==
  ASSUME QuorumsMeet, RelayInv, NEW relayer, NEW key \in DOMAIN pendingOperations,
         Submit(relayer, key)
  PROVE  RelayInv'
<1>1. /\ ~Malformed(TransactionOf(key)) /\ SequenceUsable(TransactionOf(key))
      /\ submitted' = submitted \cup {Submission(key)}
      /\ UNCHANGED <<vars, network, ledgerVars, kept>>
  BY DEF Submit
<1>2. UNCHANGED <<config, availableTickets, pendingOperations, ledger, xrplTickets, nextSequence,
                  signerList>>
  BY <1>1 DEF vars, ticketVars, ledgerVars
<1>3. PICK operation \in Operation : operation = pendingOperations[key]
  BY DEF RelayInv, ContractInv, TypeOK
<1>4. PICK tx : tx = TransactionOf(key)
  OBVIOUS
<1>5. /\ tx \in Transaction /\ IsFor(tx, operation)
      /\ tx.ticket = operation.ticket_sequence /\ tx.account = operation.account_sequence
  BY <1>3, <1>4 DEF TransactionOf, Transaction, IsFor, Operation
<1>6. KeyOf(tx) = key
  <2>1. StoredUnder(key, operation) /\ key \in Nat
    BY <1>3 DEF RelayInv, QueueOK, ContractInv, TypeOK
  <2>. QED BY <1>5, <2>1, IdentityAssumption DEF StoredUnder, KeyOf, OperationKey
<1>7. Submission(key).tx = tx
  BY <1>4 DEF Submission
<1>8. SubmissionOK(Submission(key), pendingOperations)
  BY <1>1, <1>3, <1>4, <1>5, <1>6, <1>7 DEF SubmissionOK
<1>9. \A s \in submitted' : SubmissionOK(s, pendingOperations)
  BY <1>1, <1>8 DEF RelayInv, QueueOK
<1>10. \A s \in submitted' : SubmissionOK(s, pendingOperations)'
  BY <1>2, <1>9 DEF SubmissionOK, SequenceUsable, Malformed, KeyOf, IsFor, Transaction
<1>11. \A i \in DOMAIN ledger : EntryKnown(ledger[i], availableTickets, pendingOperations)'
  BY <1>2 DEF RelayInv, QueueOK, EntryKnown, KeyOf, IsFor, Allocates
<1>12. \A k \in DOMAIN pendingOperations : StoredUnder(k, pendingOperations[k])'
  BY <1>2 DEF RelayInv, QueueOK, StoredUnder, KeyOf
<1>13. QueueOK(availableTickets, pendingOperations)'
  BY <1>2, <1>10, <1>11, <1>12 DEF RelayInv, QueueOK
<1>14. LedgerOK'
  BY <1>2 DEF RelayInv, LedgerOK, EntryOK, Transaction, Malformed, Allocates, KeyOf
<1>15. SignersOK'
  BY <1>2 DEF RelayInv, SignersOK, Rotated, SignerListOf, SignersOf, KeyOf
<1>16. KeptOK'
  BY <1>1, <1>2 DEF RelayInv, KeptOK, Unpaid, TransferKeys, Delivered, KeyOf
<1>. QED BY <1>1, <1>13, <1>14, <1>15, <1>16, XRPLStep

-----------------------------------------------------------------------------
\* The XRPL validates a transaction

\* The transaction uses its sequence number, `entry' is the last one of the ledger
\* and the tickets `new' were not used before.
Executed(tx, entry, last, first, new) ==
  /\ tx \in Transaction /\ ~Malformed(tx)
  /\ KeyOf(tx) \in Nat /\ KeyOf(tx) \in DOMAIN pendingOperations
  /\ IsFor(tx, pendingOperations[KeyOf(tx)])
  /\ IF tx.ticket # None
     THEN KeyOf(tx) = tx.ticket /\ tx.ticket \in xrplTickets /\ first = nextSequence
     ELSE KeyOf(tx) = nextSequence /\ first = nextSequence + 1
  /\ nextSequence \in Nat /\ KeyOf(tx) < first
  /\ nextSequence' \in Nat /\ first <= nextSequence'
  /\ \A ticket \in new : ticket \in Nat /\ first <= ticket /\ ticket < nextSequence'
  /\ xrplTickets' = (xrplTickets \ {tx.ticket}) \cup new
  /\ IF Allocates(entry)
     THEN /\ entry.tickets \in Seq(Nat) /\ IsInjective(entry.tickets)
          /\ Range(entry.tickets) = new
     ELSE entry.tickets = None /\ new = {} /\ nextSequence' = first
  /\ entry \in LedgerEntry /\ entry.tx = tx
  /\ DOMAIN ledger' = DOMAIN ledger \cup {last} /\ last \notin DOMAIN ledger
  /\ ledger'[last] = entry
  /\ \A i \in DOMAIN ledger : ledger'[i] = ledger[i]

\* The tickets that an allocation creates are consecutive numbers.
LEMMA GrantedTickets ==
  ASSUME NEW first \in Nat, NEW n \in Nat, NEW tickets,
         tickets = [i \in 1 .. n |-> first + i - 1]
  PROVE  /\ tickets \in Seq(Nat) /\ IsInjective(tickets) /\ Len(tickets) = n
         /\ \A ticket \in Range(tickets) :
              ticket \in Nat /\ first <= ticket /\ ticket < first + n
<1>1. \A i \in 1 .. n : first + i - 1 \in Nat
  OBVIOUS
<1>2. tickets \in [1 .. n -> Nat]
  BY <1>1
<1>3. tickets \in Seq(Nat) /\ Len(tickets) = n
  BY <1>2
<1>4. IsInjective(tickets)
  BY <1>2 DEF IsInjective
<1>5. \A ticket \in Range(tickets) :
        ticket \in Nat /\ first <= ticket /\ ticket < first + n
  BY <1>2 DEF Range
<1>. QED BY <1>3, <1>4, <1>5

LEMMA ValidateExecutes ==
  ASSUME RelayInv, NEW submission \in submitted, NEW result \in {"Accepted", "Rejected"},
         Validate(submission, result)
  PROVE  \E entry, last, first, new :
           /\ Executed(submission.tx, entry, last, first, new)
           /\ entry.result = result
           /\ ledger' = Append(ledger, entry)
<1>1. PICK tx, granted, first, entry, last :
        /\ tx = submission.tx /\ granted = Granted(tx, result) /\ first = FirstTicket(tx)
        /\ entry = [hash |-> XRPLHashes[Len(ledger) + 1], tx |-> tx, result |-> result,
                    tickets |-> granted]
        /\ last = Len(ledger) + 1
  OBVIOUS
<1>2. LedgerOK /\ SubmissionOK(submission, pendingOperations) /\ TypeOK
  BY DEF RelayInv, QueueOK, ContractInv
<1>3. /\ tx \in Transaction /\ ~Malformed(tx) /\ SequenceUsable(tx)
      /\ KeyOf(tx) \in DOMAIN pendingOperations /\ IsFor(tx, pendingOperations[KeyOf(tx)])
      /\ KeyOf(tx) \in Nat
  BY <1>1, <1>2 DEF SubmissionOK, TypeOK
<1>4. /\ nextSequence \in Nat /\ \A ticket \in xrplTickets : ticket \in Nat /\ ticket < nextSequence
  BY <1>2 DEF LedgerOK
<1>5. IF tx.ticket # None
      THEN KeyOf(tx) = tx.ticket /\ tx.ticket \in xrplTickets /\ first = nextSequence
      ELSE KeyOf(tx) = nextSequence /\ first = nextSequence + 1
  BY <1>1, <1>3 DEF SequenceUsable, KeyOf, OperationKey, FirstTicket
<1>6. first \in Nat /\ KeyOf(tx) < first
  BY <1>3, <1>4, <1>5
<1>7. /\ Len(ledger) < Len(XRPLHashes)
      /\ ledger' = Append(ledger, entry)
      /\ xrplTickets' = (xrplTickets \ {tx.ticket})
                          \cup (IF granted = None THEN {} ELSE Range(granted))
      /\ nextSequence' = first + (IF granted = None THEN 0 ELSE Len(granted))
  BY <1>1 DEF Validate
<1>8. /\ entry.tx = tx /\ entry.result = result /\ entry.tickets = granted
      /\ entry.hash = XRPLHashes[Len(ledger) + 1]
  BY <1>1
<1>9. PICK n : n = Len(ledger) /\ n \in Nat /\ DOMAIN ledger = 1 .. n
  BY <1>2 DEF LedgerOK
<1>10. entry.hash \in TxHash
  <2>1. XRPLHashes \in Seq(TxHash)
    BY RelayAssumption
  <2>. QED BY <1>7, <1>8, <1>9, <2>1
<1>11. /\ DOMAIN ledger' = DOMAIN ledger \cup {last} /\ last \notin DOMAIN ledger
       /\ ledger'[last] = entry
       /\ \A i \in DOMAIN ledger : ledger'[i] = ledger[i]
  <2>1. PICK S : ledger \in Seq(S) /\ entry \in S
    <3>1. PICK R : ledger \in Seq(R)
      BY <1>2 DEF LedgerOK
    <3>2. ledger \in Seq(R \cup {entry})
      BY <3>1
    <3>. QED BY <3>2
  <2>. QED BY <1>1, <1>7, <1>9, <2>1
<1>12. PICK new : new = IF granted = None THEN {} ELSE Range(granted)
  OBVIOUS
<1>13. CASE Allocates(entry)
  <2>1. tx.operation_type.type = "AllocateTickets" /\ result = "Accepted"
    BY <1>8, <1>13 DEF Allocates
  <2>2. granted = [i \in 1 .. tx.operation_type.number |-> first + i - 1]
    BY <1>1, <2>1 DEF Granted
  <2>3. tx.operation_type.number \in Nat
    BY <1>3, <2>1 DEF Transaction, OperationType
  <2>4. PICK number \in Nat : granted = [i \in 1 .. number |-> first + i - 1]
    BY <2>2, <2>3
  <2>5. /\ granted \in Seq(Nat) /\ IsInjective(granted) /\ Len(granted) = number
        /\ \A ticket \in Range(granted) :
             ticket \in Nat /\ first <= ticket /\ ticket < first + number
    BY <1>6, <2>4, GrantedTickets
  <2>6. granted # None
    BY <2>5, RelayAssumption
  <2>7. entry \in LedgerEntry
    BY <1>1, <1>3, <1>8, <1>10, <2>5 DEF LedgerEntry
  <2>8. new = Range(granted) /\ nextSequence' = first + number
    BY <1>7, <1>12, <2>5, <2>6
  <2>9. Executed(tx, entry, last, first, new)
    BY <1>3, <1>4, <1>5, <1>6, <1>7, <1>8, <1>11, <1>12, <1>13, <2>5, <2>7, <2>8 DEF Executed
  <2>. QED BY <1>1, <1>7, <1>8, <2>9
<1>14. CASE ~Allocates(entry)
  <2>1. granted = None
    BY <1>1, <1>8, <1>14 DEF Granted, Allocates
  <2>2. entry \in LedgerEntry
    BY <1>1, <1>3, <1>8, <1>10, <2>1 DEF LedgerEntry
  <2>3. new = {} /\ nextSequence' = first
    BY <1>6, <1>7, <1>12, <2>1
  <2>4. Executed(tx, entry, last, first, new)
    BY <1>3, <1>4, <1>5, <1>6, <1>7, <1>8, <1>11, <1>12, <1>14, <2>1, <2>2, <2>3 DEF Executed
  <2>. QED BY <1>1, <1>7, <1>8, <2>4
<1>. QED BY <1>13, <1>14

\* The ledger is extended by a number that it did not have and that is now used.
LEMMA LedgerExtended ==
  ASSUME LedgerOK, NEW tx, NEW entry, NEW last, NEW first, NEW new,
         Executed(tx, entry, last, first, new), ledger' = Append(ledger, entry)
  PROVE  /\ LedgerOK'
         /\ \A i \in DOMAIN ledger : KeyOf(ledger[i].tx) # KeyOf(tx)
<1>1. /\ nextSequence \in Nat /\ nextSequence' \in Nat /\ nextSequence <= nextSequence'
      /\ nextSequence <= first /\ first <= nextSequence' /\ KeyOf(tx) < nextSequence'
      /\ first \in Nat /\ KeyOf(tx) \in Nat
  BY DEF Executed
<1>2. \A ticket \in xrplTickets : ticket \in Nat /\ ticket < nextSequence
  BY DEF LedgerOK
<1>3. \A ticket \in xrplTickets' : ticket \in Nat /\ ticket < nextSequence'
  BY <1>1, <1>2 DEF Executed
<1>4. KeyOf(tx) \notin xrplTickets'
  <2>1. CASE tx.ticket # None
    BY <1>1, <2>1 DEF Executed
  <2>2. CASE tx.ticket = None
    BY <1>1, <1>2, <2>2 DEF Executed
  <2>. QED BY <2>1, <2>2
<1>5. ASSUME NEW i \in DOMAIN ledger
      PROVE  /\ KeyOf(ledger[i].tx) \in Nat /\ KeyOf(ledger[i].tx) < nextSequence
             /\ KeyOf(ledger[i].tx) \notin xrplTickets
  BY DEF LedgerOK, EntryOK
<1>6. ASSUME NEW i \in DOMAIN ledger
      PROVE  KeyOf(ledger[i].tx) < nextSequence' /\ KeyOf(ledger[i].tx) \notin xrplTickets'
  BY <1>1, <1>5 DEF Executed
<1>7. ASSUME NEW i \in DOMAIN ledger PROVE KeyOf(ledger[i].tx) # KeyOf(tx)
  BY <1>1, <1>5 DEF Executed
<1>8. \A x : KeyOf(x)' = KeyOf(x) /\ Malformed(x)' = Malformed(x) /\ Allocates(x)' = Allocates(x)
  BY DEF KeyOf, Malformed, Allocates
<1>9. ASSUME NEW i \in DOMAIN ledger PROVE EntryOK(ledger[i])'
  <2>1. PICK x : x = ledger[i]
    OBVIOUS
  <2>2. EntryOK(x) /\ KeyOf(x.tx) < nextSequence' /\ KeyOf(x.tx) \notin xrplTickets'
    BY <1>6, <2>1 DEF LedgerOK
  <2>3. ledger'[i] = x
    BY <2>1 DEF Executed
  <2>4. EntryOK(x)'
    BY <1>8, <2>2 DEF EntryOK, Transaction
  <2>. QED BY <2>3, <2>4 DEF EntryOK
<1>10. EntryOK(entry)'
  BY <1>1, <1>4, <1>8 DEF Executed, EntryOK, LedgerEntry, Transaction
<1>11. (\A i \in DOMAIN ledger : EntryOK(ledger[i]))'
  <2>1. ASSUME NEW i \in DOMAIN ledger' PROVE EntryOK(ledger[i])'
    <3>1. CASE i \in DOMAIN ledger
      BY <1>9, <3>1
    <3>2. CASE i = last
      <4>1. ledger'[i] = entry
        BY <3>2 DEF Executed
      <4>. QED BY <1>10, <4>1 DEF EntryOK
    <3>. QED BY <2>1, <3>1, <3>2 DEF Executed
  <2>. QED BY <2>1
<1>12. (\A i, j \in DOMAIN ledger : KeyOf(ledger[i].tx) = KeyOf(ledger[j].tx) => i = j)'
  <2>. SUFFICES ASSUME NEW i \in DOMAIN ledger', NEW j \in DOMAIN ledger',
                       KeyOf(ledger'[i].tx) = KeyOf(ledger'[j].tx)
                PROVE  i = j
    BY DEF KeyOf
  <2>1. \A k \in DOMAIN ledger : ledger'[k].tx = ledger[k].tx
    BY DEF Executed
  <2>2. ledger'[last].tx = tx
    BY DEF Executed
  <2>. QED BY <1>7, <2>1, <2>2 DEF Executed, LedgerOK
<1>13. ledger' \in Seq(LedgerEntry)
  BY DEF LedgerOK, Executed
<1>14. LedgerEntry' = LedgerEntry
  BY DEF LedgerEntry, Transaction
<1>. QED BY <1>1, <1>3, <1>7, <1>11, <1>12, <1>13, <1>14 DEF LedgerOK

\* The operations follow: that of the transaction is in the ledger now, and no other
\* one may use its number or is affected by the tickets that it creates.
LEMMA QueueExecuted ==
  ASSUME RelayInv, NEW tx, NEW entry, NEW last, NEW first, NEW new,
         Executed(tx, entry, last, first, new), UNCHANGED <<availableTickets, pendingOperations>>,
         submitted' = {s \in submitted : s.tx.ticket # tx.ticket \/ s.tx.account # tx.account}
  PROVE  QueueOK(availableTickets, pendingOperations)'
<1>1. PICK key, operation : /\ key \in Nat /\ key = KeyOf(tx) /\ key \in DOMAIN pendingOperations
                            /\ operation = pendingOperations[key]
  BY DEF Executed
<1>2. /\ LedgerOK /\ QueueOK(availableTickets, pendingOperations) /\ TicketUpdateFlag
      /\ DOMAIN pendingOperations \subseteq Nat
  BY DEF RelayInv, ContractInv, TypeOK
<1>3. IsFor(tx, operation)
  BY <1>1 DEF Executed
<1>4. \A ticket \in xrplTickets : ticket \in Nat /\ ticket < nextSequence
  BY <1>2 DEF LedgerOK
<1>5. None \notin Nat
  BY IdentityAssumption
<1>6. \A ticket \in xrplTickets : ticket # key => ticket \in xrplTickets'
  BY <1>1, <1>4, <1>5 DEF Executed
<1>7. \A x : KeyOf(x)' = KeyOf(x) /\ Malformed(x)' = Malformed(x) /\ Allocates(x)' = Allocates(x)
  BY DEF KeyOf, Malformed, Allocates
\* Only an allocation without a ticket waits for the next sequence number.
<1>8. ASSUME NEW k \in DOMAIN pendingOperations, pendingOperations[k].ticket_sequence = None,
             k # key
      PROVE  tx.operation_type.type # "AllocateTickets"
  <2>1. k \in PendingOfType("AllocateTickets")
    BY <1>2, <1>5, <1>8 DEF QueueOK, StoredUnder, PendingOfType
  <2>2. key \notin PendingOfType("AllocateTickets")
    BY <1>2, <1>8, <2>1 DEF TicketUpdateFlag
  <2>. QED BY <1>1, <1>3, <2>2 DEF PendingOfType, IsFor
<1>9. tx.operation_type.type # "AllocateTickets" => new = {} /\ nextSequence' = first
  BY DEF Executed, Allocates
<1>10. ASSUME NEW k \in DOMAIN pendingOperations
       PROVE  StoredUnder(k, pendingOperations[k])'
  <2>1. StoredUnder(k, pendingOperations[k]) /\ k \in Nat
    BY <1>2 DEF QueueOK
  <2>2. ASSUME NEW i \in DOMAIN ledger, KeyOf(ledger[i].tx) = k
        PROVE  i \in DOMAIN ledger' /\ KeyOf(ledger'[i].tx) = k
    BY <2>2 DEF Executed
  <2>3. CASE k = key
    <3>1. last \in DOMAIN ledger' /\ KeyOf(ledger'[last].tx) = k
      BY <1>1, <2>3 DEF Executed
    <3>. QED BY <1>7, <2>1, <3>1 DEF StoredUnder, KeyOf
  <2>4. CASE k # key /\ k \in xrplTickets
    <3>1. k \in xrplTickets'
      BY <1>6, <2>4
    <3>2. k # nextSequence
      BY <1>4, <2>4 DEF Executed
    <3>. QED BY <1>7, <2>1, <2>2, <3>1, <3>2 DEF StoredUnder, KeyOf
  <2>5. CASE k # key /\ k = nextSequence /\ pendingOperations[k].ticket_sequence = None
    <3>1. nextSequence' = nextSequence
      BY <1>1, <1>8, <1>9, <2>5 DEF Executed
    <3>. QED BY <1>5, <1>7, <2>1, <2>2, <2>5, <3>1 DEF StoredUnder, KeyOf
  <2>6. CASE \E i \in DOMAIN ledger : KeyOf(ledger[i].tx) = k
    <3>1. \E i \in DOMAIN ledger' : KeyOf(ledger'[i].tx) = k
      BY <2>2, <2>6
    <3>. QED BY <2>1, <3>1 DEF StoredUnder, KeyOf
  <2>. QED BY <2>1, <2>3, <2>4, <2>5, <2>6 DEF StoredUnder
<1>11. ASSUME NEW i \in DOMAIN ledger
       PROVE  EntryKnown(ledger[i], availableTickets, pendingOperations)'
  <2>1. PICK x : x = ledger[i]
    OBVIOUS
  <2>2. ledger'[i] = x /\ EntryKnown(x, availableTickets, pendingOperations)
    BY <1>2, <2>1 DEF Executed, QueueOK
  <2>3. ASSUME KeyOf(x.tx) \in DOMAIN pendingOperations, Allocates(x)
        PROVE  Range(x.tickets) \subseteq
                 xrplTickets' \ (Range(availableTickets) \cup DOMAIN pendingOperations)
    BY <1>1, <1>6, <2>2, <2>3 DEF EntryKnown
  <2>. QED BY <1>7, <2>2, <2>3 DEF EntryKnown, IsFor
\* The tickets that are created are greater than all that are in use.
<1>12. ASSUME Allocates(entry)
       PROVE  new \subseteq xrplTickets' \ (Range(availableTickets) \cup DOMAIN pendingOperations)
  <2>1. \A ticket \in Range(availableTickets) : ticket \in Nat /\ ticket < nextSequence
    BY <1>2, <1>4 DEF QueueOK
  <2>2. tx.operation_type.type = "AllocateTickets"
    BY <1>12 DEF Allocates, Executed
  <2>3. ASSUME NEW k \in DOMAIN pendingOperations PROVE k \in Nat /\ k < first
    <3>1. StoredUnder(k, pendingOperations[k]) /\ k \in Nat
      BY <1>2 DEF QueueOK
    <3>2. CASE k = key
      BY <1>1, <3>2 DEF Executed
    <3>3. CASE k \in xrplTickets
      BY <1>4, <3>3 DEF Executed
    <3>4. CASE \E i \in DOMAIN ledger : KeyOf(ledger[i].tx) = k
      BY <1>2, <3>4 DEF Executed, LedgerOK, EntryOK
    <3>. QED BY <1>8, <2>2, <3>1, <3>2, <3>3, <3>4 DEF StoredUnder
  <2>4. \A ticket \in new : ticket \in Nat /\ nextSequence <= ticket /\ first <= ticket
    BY DEF Executed
  <2>5. nextSequence \in Nat /\ first \in Nat
    BY DEF Executed
  <2>6. new \subseteq xrplTickets'
    BY DEF Executed
  <2>. QED BY <2>1, <2>3, <2>4, <2>5, <2>6
<1>13. EntryKnown(entry, availableTickets, pendingOperations)'
  <2>1. IsFor(tx, operation) /\ entry.tx = tx
    BY <1>3 DEF Executed
  <2>2. Allocates(entry) => Range(entry.tickets) = new
    BY DEF Executed
  <2>. QED BY <1>1, <1>7, <1>12, <2>1, <2>2 DEF EntryKnown, IsFor
<1>14. (\A i \in DOMAIN ledger : EntryKnown(ledger[i], availableTickets, pendingOperations))'
  <2>1. ASSUME NEW i \in DOMAIN ledger'
        PROVE  EntryKnown(ledger[i], availableTickets, pendingOperations)'
    <3>1. CASE i \in DOMAIN ledger
      BY <1>11, <3>1
    <3>2. CASE i = last
      <4>1. ledger'[i] = entry
        BY <3>2 DEF Executed
      <4>. QED BY <1>13, <4>1 DEF EntryKnown
    <3>. QED BY <2>1, <3>1, <3>2 DEF Executed
  <2>. QED BY <2>1
<1>15. ASSUME NEW s \in submitted' PROVE SubmissionOK(s, pendingOperations)'
  <2>1. PICK x, other : x = s.tx /\ other = pendingOperations[KeyOf(x)]
    OBVIOUS
  <2>2. /\ s \in submitted /\ (x.ticket # tx.ticket \/ x.account # tx.account)
        /\ x \in Transaction /\ ~Malformed(x) /\ SequenceUsable(x)
        /\ KeyOf(x) \in DOMAIN pendingOperations /\ IsFor(x, other)
    BY <1>2, <2>1 DEF QueueOK, SubmissionOK
  <2>3. KeyOf(x) # key
    BY <1>1, <1>3, <2>1, <2>2 DEF IsFor
  <2>4. SequenceUsable(x)'
    <3>1. CASE x.ticket # None
      <4>1. x.ticket \in xrplTickets /\ x.ticket # key
        BY <2>2, <2>3, <3>1 DEF SequenceUsable, KeyOf, OperationKey
      <4>. QED BY <1>6, <3>1, <4>1 DEF SequenceUsable
    <3>2. CASE x.ticket = None
      <4>1. x.account = nextSequence /\ KeyOf(x) = nextSequence
        BY <2>2, <3>2 DEF SequenceUsable, KeyOf, OperationKey
      <4>2. other.ticket_sequence = None
        BY <2>2, <3>2 DEF IsFor
      <4>3. nextSequence' = nextSequence
        BY <1>1, <1>8, <1>9, <2>1, <2>2, <2>3, <4>1, <4>2 DEF Executed
      <4>. QED BY <3>2, <4>1, <4>3 DEF SequenceUsable
    <3>. QED BY <3>1, <3>2
  <2>. QED BY <1>7, <2>1, <2>2, <2>4 DEF SubmissionOK, IsFor, Transaction
<1>16. Range(availableTickets) \subseteq xrplTickets' \ DOMAIN pendingOperations
  BY <1>1, <1>2, <1>6 DEF QueueOK
<1>. QED BY <1>2, <1>10, <1>14, <1>15, <1>16 DEF QueueOK

\* The signers change with a rotation that is accepted, and there is only one.
LEMMA SignersExecuted ==
  ASSUME RelayInv, NEW tx, NEW entry, NEW last, NEW first, NEW new,
         Executed(tx, entry, last, first, new), UNCHANGED <<config, pendingOperations>>,
         signerList' = IF tx.operation_type.type = "RotateKeys" /\ entry.result = "Accepted"
                       THEN [signers |-> SignersOf(tx.operation_type.new_relayers),
                             quorum |-> tx.operation_type.new_evidence_threshold]
                       ELSE signerList
  PROVE  SignersOK'
<1>1. /\ entry.tx = tx /\ KeyOf(tx) \in DOMAIN pendingOperations
      /\ IsFor(tx, pendingOperations[KeyOf(tx)])
      /\ DOMAIN ledger' = DOMAIN ledger \cup {last} /\ last \notin DOMAIN ledger
      /\ ledger'[last] = entry
      /\ \A i \in DOMAIN ledger : ledger'[i] = ledger[i]
  BY DEF Executed
<1>2. \A x : KeyOf(x)' = KeyOf(x)
  BY DEF KeyOf
<1>3. ASSUME NEW i \in DOMAIN ledger PROVE i \in Rotated' <=> i \in Rotated
  BY <1>1, <1>2 DEF Rotated, KeyOf
<1>4. last \in Rotated' <=>
        tx.operation_type.type = "RotateKeys" /\ entry.result = "Accepted"
  BY <1>1, <1>2 DEF Rotated, KeyOf
<1>5. Rotated' \subseteq DOMAIN ledger \cup {last}
  BY <1>1 DEF Rotated
<1>6. CASE tx.operation_type.type = "RotateKeys" /\ entry.result = "Accepted"
  <2>1. ASSUME NEW i \in Rotated PROVE FALSE
    <3>1. /\ KeyOf(ledger[i].tx) \in DOMAIN pendingOperations
          /\ IsFor(ledger[i].tx, pendingOperations[KeyOf(ledger[i].tx)])
      BY DEF Rotated, RelayInv, QueueOK, EntryKnown
    <3>2. KeyOf(ledger[i].tx) \in PendingOfType("RotateKeys")
      BY <3>1 DEF PendingOfType, IsFor, Rotated
    <3>3. KeyOf(tx) \in PendingOfType("RotateKeys")
      BY <1>1, <1>6 DEF PendingOfType, IsFor
    <3>4. KeyOf(ledger[i].tx) = KeyOf(tx)
      BY <3>2, <3>3 DEF RelayInv, ContractInv, RotationHaltsBridge
    <3>5. KeyOf(ledger[i].tx) \notin xrplTickets /\ KeyOf(ledger[i].tx) < nextSequence
      BY DEF RelayInv, LedgerOK, EntryOK, Rotated
    <3>. QED BY <3>4, <3>5 DEF Executed
  <2>2. Rotated' = {last}
    BY <1>3, <1>4, <1>5, <1>6, <2>1
  <2>3. signerList' = SignerListOf(tx.operation_type.new_relayers,
                                   tx.operation_type.new_evidence_threshold)
    BY <1>6 DEF SignerListOf
  <2>. QED BY <1>1, <2>2, <2>3 DEF SignersOK, SignerListOf, SignersOf
<1>7. CASE ~(tx.operation_type.type = "RotateKeys" /\ entry.result = "Accepted")
  <2>1. Rotated' = Rotated /\ signerList' = signerList
    BY <1>3, <1>4, <1>5, <1>7 DEF Rotated
  <2>2. \A i \in Rotated : ledger'[i] = ledger[i]
    BY <1>1 DEF Rotated
  <2>. QED BY <2>1, <2>2 DEF RelayInv, SignersOK, SignerListOf, SignersOf
<1>. QED BY <1>6, <1>7

\* A transfer that is paid was kept and not paid up to now.
LEMMA KeptExecuted ==
  ASSUME RelayInv, NEW tx, NEW entry, NEW last, NEW first, NEW new,
         Executed(tx, entry, last, first, new), ledger' = Append(ledger, entry),
         UNCHANGED <<pendingOperations, kept>>
  PROVE  KeptOK'
<1>1. PICK key : key = KeyOf(tx)
  OBVIOUS
<1>2. /\ entry.tx = tx /\ key \in DOMAIN pendingOperations
      /\ IsFor(tx, pendingOperations[key])
      /\ DOMAIN ledger' = DOMAIN ledger \cup {last} /\ last \notin DOMAIN ledger
      /\ ledger'[last] = entry
      /\ \A i \in DOMAIN ledger : ledger'[i] = ledger[i]
  BY <1>1 DEF Executed
<1>3. \A i \in DOMAIN ledger : KeyOf(ledger[i].tx) # key
  BY <1>1, LedgerExtended DEF RelayInv
<1>4. /\ IsFiniteSet(Unpaid) /\ IsFiniteSet(Delivered)
      /\ Cardinality(Unpaid) \in Nat /\ Cardinality(Delivered) \in Nat
  BY Counted DEF RelayInv, QueueOK
<1>5. \A x : KeyOf(x)' = KeyOf(x)
  BY DEF KeyOf
<1>6. TransferKeys' = TransferKeys
  BY DEF TransferKeys
<1>7. CASE tx.operation_type.type = "CosmosToXRPLTransfer" /\ entry.result = "Accepted"
  <2>1. Delivered' = Delivered \cup {last} /\ last \notin Delivered
    BY <1>2, <1>7 DEF Delivered
  <2>2. key \in Unpaid
    BY <1>2, <1>3, <1>7 DEF Unpaid, TransferKeys, Delivered, IsFor
  <2>3. Unpaid' = Unpaid \ {key}
    <3>1. Unpaid' = {k \in TransferKeys : \A i \in Delivered \cup {last} : KeyOf(ledger'[i].tx) # k}
      BY <1>5, <1>6, <2>1 DEF Unpaid, KeyOf
    <3>. QED BY <1>1, <1>2, <3>1 DEF Unpaid, Delivered
  <2>4. /\ Cardinality(Delivered \cup {last}) = Cardinality(Delivered) + 1
        /\ Cardinality(Unpaid \ {key}) = Cardinality(Unpaid) - 1
    BY <1>4, <2>1, <2>2, FS_AddElement, FS_RemoveElement
  <2>5. /\ Cardinality(Delivered)' = Cardinality(Delivered) + 1
        /\ Cardinality(Unpaid)' = Cardinality(Unpaid) - 1
    BY <2>1, <2>3, <2>4
  <2>. QED BY <1>4, <2>5 DEF RelayInv, KeptOK
<1>8. CASE ~(tx.operation_type.type = "CosmosToXRPLTransfer" /\ entry.result = "Accepted")
  <2>1. Delivered' = Delivered
    BY <1>2, <1>8 DEF Delivered
  <2>2. Unpaid' = Unpaid
    <3>1. Unpaid' = {k \in TransferKeys : \A i \in Delivered : KeyOf(ledger'[i].tx) # k}
      BY <1>5, <1>6, <2>1 DEF Unpaid, KeyOf
    <3>. QED BY <1>2, <3>1 DEF Unpaid, Delivered
  <2>. QED BY <2>1, <2>2 DEF RelayInv, KeptOK
<1>. QED BY <1>7, <1>8

LEMMA ValidateStep ==
  ASSUME QuorumsMeet, RelayInv, NEW submission \in submitted,
         NEW result \in {"Accepted", "Rejected"}, Validate(submission, result)
  PROVE  RelayInv'
<1>1. PICK tx, entry, last, first, new :
        /\ tx = submission.tx
        /\ Executed(tx, entry, last, first, new)
        /\ entry.result = result
        /\ ledger' = Append(ledger, entry)
  BY ValidateExecutes
<1>2. /\ UNCHANGED <<vars, network, kept>>
      /\ signerList' = IF tx.operation_type.type = "RotateKeys" /\ entry.result = "Accepted"
                       THEN [signers |-> SignersOf(tx.operation_type.new_relayers),
                             quorum |-> tx.operation_type.new_evidence_threshold]
                       ELSE signerList
      /\ submitted' = {s \in submitted : s.tx.ticket # tx.ticket \/ s.tx.account # tx.account}
  BY <1>1 DEF Validate
<1>3. UNCHANGED <<config, availableTickets, pendingOperations>>
  BY <1>2 DEF vars, ticketVars
<1>4. LedgerOK'
  BY <1>1, LedgerExtended DEF RelayInv
<1>5. QueueOK(availableTickets, pendingOperations)'
  BY <1>1, <1>2, <1>3, QueueExecuted
<1>6. SignersOK'
  BY <1>1, <1>2, <1>3, SignersExecuted
<1>7. KeptOK'
  BY <1>1, <1>2, <1>3, KeptExecuted
<1>. QED BY <1>2, <1>4, <1>5, <1>6, <1>7, XRPLStep

-----------------------------------------------------------------------------
\* The invariant holds

LEMMA RelayInitInv ==
  ASSUME QuorumsMeet, RelayInit
  PROVE  RelayInv /\ loadFee \in Nat
<1>1. /\ availableTickets = <<>> /\ pendingOperations = [i \in {} |-> None]
      /\ txEvidences = [e \in {} |-> {}] /\ config.relayers = InitRelayers
      /\ config.evidence_threshold = InitEvidenceThreshold
      /\ ~pendingTicketUpdate /\ ~pendingRotateKeys
  BY DEF RelayInit, Init
<1>2. /\ network = {} /\ submitted = {} /\ xrplTickets = {} /\ ledger = <<>> /\ kept = 0
      /\ nextSequence \in Nat /\ loadFee \in Nat
      /\ signerList = SignerListOf(InitRelayers, InitEvidenceThreshold)
  BY RelayAssumption, InstantiateAssumption DEF RelayInit, SignerListOf
<1>3. DOMAIN pendingOperations = {} /\ DOMAIN txEvidences = {} /\ DOMAIN ledger = {}
  BY <1>1, <1>2
<1>4. ContractInv
  <2>1. TypeOK
    BY TypeInit DEF RelayInit
  <2>2. TicketUpdateFlag /\ RotationHaltsBridge
    BY <1>1, <1>3 DEF TicketUpdateFlag, RotationHaltsBridge, PendingOfType
  <2>3. VotesInv
    BY <1>3 DEF VotesInv, VotesOfRelayersInOffice
  <2>. QED BY <2>1, <2>2, <2>3 DEF ContractInv
<1>5. LedgerOK
  <2>1. <<>> \in Seq(LedgerEntry)
    OBVIOUS
  <2>. QED BY <1>2, <1>3, <2>1 DEF LedgerOK
<1>6. QueueOK(availableTickets, pendingOperations)
  <2>1. IsInjective(availableTickets) /\ Range(availableTickets) = {}
    BY <1>1 DEF IsInjective, Range
  <2>2. IsFiniteSet(DOMAIN pendingOperations)
    BY <1>3, FS_EmptySet
  <2>. QED BY <1>2, <1>3, <2>1, <2>2 DEF QueueOK
<1>7. TermsOK
  BY <1>1, <1>3 DEF TermsOK, relayerAddresses, RelayersEver, Thresholds, PendingOfType
<1>8. RefusalsOK
  <2>1. ASSUME NEW ticket \in Nat, NEW x \in Thresholds PROVE Cardinality(Refusing(ticket)) < x
    <3>1. Refusing(ticket) = {}
      BY <1>2, <1>3 DEF Refusing, OnTheWay, Votes
    <3>2. x \in Nat /\ Cardinality(RelayersEver) \in Nat /\ x + x > Cardinality(RelayersEver)
      BY ThresholdsNatural, FS_CardinalityType DEF QuorumsMeet
    <3>. QED BY <3>1, <3>2, FS_EmptySet
  <2>. QED BY <1>2, <2>1 DEF RefusalsOK
<1>9. SignersOK
  BY <1>1, <1>2, <1>3 DEF SignersOK, Rotated
<1>10. KeptOK
  <2>1. Delivered = {} /\ Unpaid = {}
    BY <1>3 DEF Delivered, Unpaid, TransferKeys
  <2>. QED BY <1>2, <2>1, FS_EmptySet DEF KeptOK
<1>. QED BY <1>2, <1>4, <1>5, <1>6, <1>7, <1>8, <1>9, <1>10 DEF RelayInv

\* A relayer's message reaches the contract, or a relayer reports.
LEMMA DeliverStep ==
  ASSUME QuorumsMeet, RelayInv, NEW relayer \in Addr, DeliverNextOf(relayer)
  PROVE  RelayInv'
<1>1. PICK m \in network : m.relayer = relayer /\ (DeliverSignature(m) \/ DeliverResult(m))
  BY DEF DeliverNextOf
<1>2. CASE DeliverSignature(m)
  BY <1>1, <1>2, SignatureStep
<1>3. CASE DeliverResult(m)
  <2>1. RecordEvidence(m.relayer, m.evidence) \/ ConfirmOperation(m.relayer, m.evidence)
    BY <1>3 DEF DeliverResult
  <2>. QED BY <1>1, <1>3, <2>1, RecordRefusalStep, ConfirmRefusalStep
<1>. QED BY <1>1, <1>2, <1>3

LEMMA ReportStep ==
  ASSUME QuorumsMeet, RelayInv, NEW relayer \in Addr, ReportNextOf(relayer)
  PROVE  RelayInv'
<1>1. PICK i \in DOMAIN ledger : Report(relayer, ledger[i])
  BY DEF ReportNextOf
<1>2. /\ \/ RecordEvidence(relayer, ReportOf(ledger[i]))
         \/ ConfirmOperation(relayer, ReportOf(ledger[i]))
      /\ AfterMessage(ledger[i].result)
      /\ UNCHANGED network
  BY <1>1 DEF Report, ReportOf
<1>. QED BY <1>2, RecordReportStep, ConfirmReportStep

\* The owner and those who may halt the bridge
LEMMA OwnerStep ==
  ASSUME QuorumsMeet, Cancels # "any", RelayInv, OwnerNext \/ HaltNext,
         AfterMessage("Invalid"), UNCHANGED network
  PROVE  RelayInv'
<1>1. CASE RecoverTickets(Owner, nextSequence, RecoveredTickets)
  BY <1>1, RecoverStep
<1>2. CASE \E rotation \in Rotations : RotateKeys(Owner, rotation)
  BY <1>2, RotateStep
<1>3. CASE \E key \in DOMAIN pendingOperations :
             Unsent(TransactionOf(key)) /\ CancelPendingOperation(Owner, key)
  BY <1>3, CancelStep
<1>4. CASE ResumeBridge(Owner)
  BY <1>4, IdentityAssumption, HaltStep
<1>5. CASE HaltNext
  <2>1. PICK sender \in Halters : HaltBridge(sender)
    BY <1>5 DEF HaltNext
  <2>2. sender \in Addr
    BY RelayAssumption
  <2>. QED BY <2>1, <2>2, HaltStep
<1>. QED BY <1>1, <1>2, <1>3, <1>4, <1>5 DEF OwnerNext

LEMMA RelayStep ==
  ASSUME QuorumsMeet, Cancels # "any", RelayInv, loadFee \in Nat, [RelayNext]_relayVars
  PROVE  RelayInv' /\ loadFee' \in Nat
<1>1. ASSUME NEW relayer \in Addr, SignNextOf(relayer)
      PROVE  RelayInv' /\ loadFee' \in Nat
  <2>1. PICK key \in DOMAIN pendingOperations : Sign(relayer, key)
    BY <1>1 DEF SignNextOf
  <2>2. /\ network' = network \cup {SignatureOf(relayer, key)}
        /\ UNCHANGED <<vars, submitted, ledgerVars, loadFee, kept>>
    BY <2>1 DEF Sign
  <2>3. SignatureOf(relayer, key).kind # "result"
    BY DEF SignatureOf
  <2>. QED BY <2>2, <2>3, SilentStep
<1>2. ASSUME NEW relayer \in Addr, SubmitNextOf(relayer)
      PROVE  RelayInv' /\ loadFee' \in Nat
  <2>1. PICK key \in DOMAIN pendingOperations : Submit(relayer, key) \/ ReportRefused(relayer, key)
    BY <1>2 DEF SubmitNextOf
  <2>2. loadFee' = loadFee
    BY <2>1 DEF Submit, ReportRefused
  <2>. QED BY <2>1, <2>2, SubmitStep, RefuseStep
<1>3. ASSUME NEW relayer \in Addr, DeliverNextOf(relayer)
      PROVE  RelayInv' /\ loadFee' \in Nat
  <2>1. loadFee' = loadFee
    BY <1>3 DEF DeliverNextOf, DeliverSignature, DeliverResult, AfterMessage
  <2>. QED BY <1>3, <2>1, DeliverStep
<1>4. ASSUME NEW relayer \in Addr, ReportNextOf(relayer)
      PROVE  RelayInv' /\ loadFee' \in Nat
  <2>1. loadFee' = loadFee
    BY <1>4 DEF ReportNextOf, Report, AfterMessage
  <2>. QED BY <1>4, <2>1, ReportStep
<1>5. ASSUME NEW relayer \in Addr, LoseNextOf(relayer)
      PROVE  RelayInv' /\ loadFee' \in Nat
  <2>1. network' \subseteq network /\ UNCHANGED <<vars, submitted, ledgerVars, loadFee, kept>>
    BY <1>5 DEF LoseNextOf, Lose
  <2>. QED BY <2>1, SilentStep
<1>6. ASSUME ValidateNext
      PROVE  RelayInv' /\ loadFee' \in Nat
  <2>1. loadFee' = loadFee
    BY <1>6 DEF ValidateNext, Validate
  <2>. QED BY <1>6, <2>1, ValidateStep DEF ValidateNext
<1>7. ASSUME NEW fee \in LoadFees, RaiseLoad(fee)
      PROVE  RelayInv' /\ loadFee' \in Nat
  <2>1. /\ network' = network /\ loadFee' = fee
        /\ UNCHANGED <<vars, submitted, ledgerVars, kept>>
    BY <1>7 DEF RaiseLoad
  <2>2. fee \in Nat
    BY RelayAssumption
  <2>. QED BY <2>1, <2>2, SilentStep
<1>8. ASSUME RaiseFee
      PROVE  RelayInv' /\ loadFee' \in Nat
  <2>1. loadFee' = loadFee
    BY <1>8 DEF RaiseFee, AfterMessage
  <2>. QED BY <1>8, <2>1, FeeStep
<1>9. ASSUME NEW send \in SendInputs, Send(send)
      PROVE  RelayInv' /\ loadFee' \in Nat
  <2>1. loadFee' = loadFee
    BY <1>9 DEF Send
  <2>. QED BY <1>9, <2>1, SendStep
<1>10. ASSUME OwnerNext \/ HaltNext, AfterMessage("Invalid"), UNCHANGED network
       PROVE  RelayInv' /\ loadFee' \in Nat
  <2>1. loadFee' = loadFee
    BY <1>10 DEF AfterMessage
  <2>. QED BY <1>10, <2>1, OwnerStep
<1>11. ASSUME UNCHANGED relayVars
       PROVE  RelayInv' /\ loadFee' \in Nat
  <2>1. network' = network /\ UNCHANGED <<vars, submitted, ledgerVars, loadFee, kept>>
    BY <1>11 DEF relayVars
  <2>. QED BY <2>1, SilentStep
<1>. QED
  BY <1>1, <1>2, <1>3, <1>4, <1>5, <1>6, <1>7, <1>8, <1>9, <1>10, <1>11 DEF RelayNext

-----------------------------------------------------------------------------
\* What it implies

LEMMA PaidFromInv == RelayInv => PaidOrRefunded
<1>. SUFFICES ASSUME RelayInv PROVE PaidOrRefunded
  OBVIOUS
<1>1. /\ IsFiniteSet(Unpaid) /\ IsFiniteSet(TransferKeys)
      /\ Cardinality(Unpaid) \in Nat /\ Cardinality(Delivered) \in Nat
  BY Counted DEF RelayInv, QueueOK
<1>2. Unpaid \in SUBSET TransferKeys
  BY DEF Unpaid
<1>3. Cardinality(Unpaid) <= Cardinality(TransferKeys) /\ Cardinality(TransferKeys) \in Nat
  BY <1>1, <1>2, FS_Subset, FS_CardinalityType
<1>. QED BY <1>1, <1>3 DEF RelayInv, KeptOK, PaidOrRefunded

LEMMA UnspentFromInv == RelayInv => AvailableTicketsUnspent
  BY DEF RelayInv, QueueOK, AvailableTicketsUnspent, Range

LEMMA SignersFromInv == RelayInv => SignersMatch
<1>. SUFFICES ASSUME RelayInv PROVE SignersMatch
  OBVIOUS
<1>1. CASE Rotated = {}
  BY <1>1 DEF RelayInv, SignersOK, SignerListOf, SignersMatch
<1>2. CASE Rotated # {}
  <2>1. PICK i \in Rotated : TRUE
    BY <1>2
  <2>2. PICK key : key = KeyOf(ledger[i].tx)
    OBVIOUS
  <2>3. i \in DOMAIN ledger /\ key \in DOMAIN pendingOperations
    BY <2>1, <2>2 DEF Rotated
  <2>4. pendingOperations[key].operation_type = ledger[i].tx.operation_type
    BY <2>2, <2>3 DEF RelayInv, QueueOK, EntryKnown, IsFor
  <2>5. pendingOperations[key].operation_type.type = "RotateKeys"
    BY <2>1, <2>4 DEF Rotated
  <2>6. pendingRotateKeys
    BY <2>3, <2>5 DEF RelayInv, ContractInv, RotationHaltsBridge, PendingOfType
  <2>7. LET rotation == pendingOperations[key].operation_type
        IN signerList = [signers |-> SignersOf(rotation.new_relayers),
                         quorum |-> rotation.new_evidence_threshold]
    BY <2>1, <2>4 DEF RelayInv, SignersOK, SignerListOf
  <2>. QED BY <2>3, <2>5, <2>6, <2>7 DEF SignersMatch
<1>. QED BY <1>1, <1>2

\* The XRPL and the queue never move in one step.
LEMMA LedgerStays ==
  ASSUME [RelayNext]_relayVars, pendingOperations' # pendingOperations
  PROVE  ledger' = ledger
<1>1. CASE ValidateNext
  BY <1>1 DEF ValidateNext, Validate, vars
<1>2. CASE UNCHANGED ledgerVars
  BY <1>2 DEF ledgerVars
<1>3. CASE UNCHANGED relayVars
  BY <1>3 DEF relayVars, ledgerVars
<1>4. ASSUME RelayNext, ~ValidateNext PROVE UNCHANGED ledgerVars
  BY <1>4 DEF RelayNext, SignNextOf, Sign, SubmitNextOf, Submit, ReportRefused, DeliverNextOf,
              DeliverSignature, DeliverResult, ReportNextOf, Report, LoseNextOf, Lose, RaiseLoad,
              RaiseFee, Send, AfterMessage
<1>. QED BY <1>1, <1>2, <1>3, <1>4

LEMMA UnexecutedFromInv ==
  ASSUME RelayInv, RelayInv', [RelayNext]_relayVars,
         NEW key \in TransferKeys \ DOMAIN pendingOperations', key \in Range(availableTickets'),
         NEW i \in DOMAIN ledger
  PROVE  ledger[i].tx.ticket # key
<1>1. key \in DOMAIN pendingOperations /\ key \in Nat
  BY DEF TransferKeys, RelayInv, ContractInv, TypeOK
<1>2. ledger' = ledger
  BY <1>1, LedgerStays
<1>3. key \in xrplTickets'
  BY DEF RelayInv, QueueOK
<1>4. KeyOf(ledger[i].tx) # key
  <2>1. (\A j \in DOMAIN ledger : KeyOf(ledger[j].tx) \notin xrplTickets)'
    BY DEF RelayInv, LedgerOK, EntryOK
  <2>2. \A j \in DOMAIN ledger : KeyOf(ledger[j].tx)' \notin xrplTickets'
    BY <1>2, <2>1
  <2>3. KeyOf(ledger[i].tx)' = KeyOf(ledger[i].tx)
    BY <1>2 DEF KeyOf
  <2>. QED BY <1>3, <2>2, <2>3
<1>5. key # None
  BY <1>1, IdentityAssumption
<1>. QED BY <1>4, <1>5 DEF KeyOf, OperationKey

-----------------------------------------------------------------------------
\* No ticket is lost

\* The tickets that an allocation of the ledger created
Announced(i, ticket) == ledger[i].tickets # None /\ ticket \in Range(ledger[i].tickets)

\* A message may take tickets from the queue and settle the operations in `gone' if
\* the tickets that were available, that these operations hold and that they
\* announce are found in the queue afterwards.
LEMMA FoundMoved ==
  ASSUME NoTicketLost, UNCHANGED ledgerVars, NEW gone,
         DOMAIN pendingOperations \ gone \subseteq DOMAIN pendingOperations',
         \A ticket \in xrplTickets :
           \/ ticket \in Range(availableTickets) \cup gone
           \/ \E i \in DOMAIN ledger : KeyOf(ledger[i].tx) \in gone /\ Announced(i, ticket)
           => ticket \in Range(availableTickets') \cup DOMAIN pendingOperations'
  PROVE  NoTicketLost'
<1>1. UNCHANGED <<ledger, xrplTickets>>
  BY DEF ledgerVars
<1>2. ASSUME NEW ticket \in xrplTickets, NEW i \in DOMAIN ledger, Announced(i, ticket),
             KeyOf(ledger[i].tx) \in DOMAIN pendingOperations
      PROVE  \/ ticket \in Range(availableTickets') \cup DOMAIN pendingOperations'
             \/ KeyOf(ledger[i].tx) \in DOMAIN pendingOperations'
  BY <1>2
<1>3. ASSUME NEW ticket \in xrplTickets
      PROVE  \/ ticket \in Range(availableTickets') \cup DOMAIN pendingOperations'
             \/ \E i \in DOMAIN ledger :
                  Announced(i, ticket) /\ KeyOf(ledger[i].tx) \in DOMAIN pendingOperations'
  <2>1. CASE ticket \in Range(availableTickets) \cup DOMAIN pendingOperations
    BY <2>1
  <2>2. CASE \E i \in DOMAIN ledger :
               Announced(i, ticket) /\ KeyOf(ledger[i].tx) \in DOMAIN pendingOperations
    BY <1>2, <2>2
  <2>. QED BY <2>1, <2>2 DEF NoTicketLost, Announced, KeyOf
<1>. QED BY <1>1, <1>3 DEF NoTicketLost, Announced, KeyOf, Range

\* Neither the tickets nor the keys of the queue change.
LEMMA FoundKept ==
  ASSUME NoTicketLost, UNCHANGED <<availableTickets, ledgerVars>>,
         DOMAIN pendingOperations \subseteq DOMAIN pendingOperations'
  PROVE  NoTicketLost'
<1>1. PICK gone : gone = {}
  OBVIOUS
<1>. QED BY <1>1, FoundMoved

\* All but the first ticket of a queue are those of its tail.
LEMMA TailKeepsTickets ==
  ASSUME NEW s \in Seq(Nat), s # <<>>
  PROVE  Range(s) \subseteq Range(Tail(s)) \cup {Head(s)}
<1>. SUFFICES ASSUME NEW i \in DOMAIN s
              PROVE  s[i] \in Range(Tail(s)) \cup {Head(s)}
  BY DEF Range
<1>1. CASE i = 1
  BY <1>1
<1>2. CASE i # 1
  <2>1. i - 1 \in DOMAIN Tail(s) /\ Tail(s)[i - 1] = s[i]
    BY <1>2
  <2>. QED BY <2>1 DEF Range
<1>. QED BY <1>1, <1>2

\* Joined queues have the tickets of both.
LEMMA JoinKeepsTickets ==
  ASSUME NEW s \in Seq(Nat), NEW t \in Seq(Nat)
  PROVE  Range(s) \cup Range(t) \subseteq Range(s \o t)
<1>1. ASSUME NEW i \in DOMAIN s PROVE s[i] \in Range(s \o t)
  <2>1. i \in DOMAIN (s \o t) /\ (s \o t)[i] = s[i]
    OBVIOUS
  <2>. QED BY <2>1 DEF Range
<1>2. ASSUME NEW i \in DOMAIN t PROVE t[i] \in Range(s \o t)
  <2>1. i + Len(s) \in DOMAIN (s \o t) /\ (s \o t)[i + Len(s)] = t[i]
    OBVIOUS
  <2>. QED BY <2>1 DEF Range
<1>. QED BY <1>1, <1>2 DEF Range

\* An operation that takes a ticket holds it.
LEMMA TakenHeld ==
  ASSUME NEW tickets \in Seq(Nat), tickets # <<>>, NEW operations, NEW operationType, NEW after,
         after = create_pending_operation(operations, Head(tickets), None, operationType)
  PROVE  /\ DOMAIN operations \subseteq DOMAIN after
         /\ Range(tickets) \subseteq Range(Tail(tickets)) \cup DOMAIN after
<1>1. PICK key \in Nat : key = Head(tickets)
  OBVIOUS
<1>2. key = OperationKey(key, None)
  BY IdentityAssumption DEF OperationKey
<1>3. DOMAIN after = DOMAIN operations \cup {key}
  BY <1>1, <1>2 DEF create_pending_operation, Put
<1>. QED BY <1>1, <1>3, TailKeepsTickets

\* Settling an operation loses no ticket if handle_operation leaves those that were
\* available, that of the operation if it is unused, and those that it announced.
LEMMA FoundSettled ==
  ASSUME NoTicketLost, UNCHANGED ledgerVars, NEW key, NEW left \in Seq(Nat), SettledTo(key, left),
         Range(availableTickets) \subseteq Range(left),
         key \in xrplTickets => key \in Range(left),
         \A i \in DOMAIN ledger : \A ticket \in xrplTickets :
           KeyOf(ledger[i].tx) = key /\ Announced(i, ticket) => ticket \in Range(left)
  PROVE  NoTicketLost'
<1>1. PICK gone, rest, type :
        gone = {key} /\ rest = Without(pendingOperations, key) /\ type = AllocationType
  OBVIOUS
<1>2. DOMAIN rest = DOMAIN pendingOperations \ {key}
  BY <1>1, WithoutEntries
<1>3. /\ DOMAIN rest \subseteq DOMAIN pendingOperations'
      /\ Range(left) \subseteq Range(availableTickets') \cup DOMAIN pendingOperations'
  <2>1. CASE availableTickets' = left /\ pendingOperations' = rest
    BY <2>1
  <2>2. CASE /\ left # <<>> /\ availableTickets' = Tail(left)
             /\ pendingOperations' = create_pending_operation(rest, Head(left), None, type)
    <3>1. PICK after : after = pendingOperations'
      OBVIOUS
    <3>. QED BY <2>2, <3>1, TakenHeld
  <2>. QED BY <1>1, <2>1, <2>2 DEF SettledTo
<1>4. DOMAIN pendingOperations \ gone \subseteq DOMAIN pendingOperations'
  BY <1>1, <1>2, <1>3
<1>5. ASSUME NEW ticket \in xrplTickets,
             \/ ticket \in Range(availableTickets) \cup gone
             \/ \E i \in DOMAIN ledger : KeyOf(ledger[i].tx) \in gone /\ Announced(i, ticket)
      PROVE  ticket \in Range(availableTickets') \cup DOMAIN pendingOperations'
  BY <1>1, <1>3, <1>5
<1>. QED BY <1>4, <1>5, FoundMoved

\* A message that starts an operation on a ticket
LEMMA FoundTaken ==
  ASSUME NoTicketLost, TypeOK, UNCHANGED ledgerVars, NEW operationType, NEW state, NEW rotating,
         create_operation_on_ticket(operationType, state, rotating)
  PROVE  NoTicketLost'
<1>1. PICK gone, after : gone = {} /\ after = pendingOperations'
  OBVIOUS
<1>2. /\ availableTickets \in Seq(Nat) /\ availableTickets # <<>>
      /\ availableTickets' = Tail(availableTickets)
      /\ after = create_pending_operation(pendingOperations, Head(availableTickets),
                                          None, operationType)
  BY <1>1 DEF create_operation_on_ticket, allocate_ticket, TypeOK
<1>3. /\ DOMAIN pendingOperations \subseteq DOMAIN after
      /\ Range(availableTickets) \subseteq Range(Tail(availableTickets)) \cup DOMAIN after
  BY <1>2, TakenHeld
<1>4. DOMAIN pendingOperations \ gone \subseteq DOMAIN pendingOperations'
  BY <1>1, <1>3
<1>5. ASSUME NEW ticket \in xrplTickets,
             \/ ticket \in Range(availableTickets) \cup gone
             \/ \E i \in DOMAIN ledger : KeyOf(ledger[i].tx) \in gone /\ Announced(i, ticket)
      PROVE  ticket \in Range(availableTickets') \cup DOMAIN pendingOperations'
  BY <1>1, <1>2, <1>3, <1>5
<1>. QED BY <1>4, <1>5, FoundMoved

\* The result of a validated transaction is confirmed: its sequence number is used,
\* and the tickets it announced become available.
LEMMA FoundConfirmed ==
  ASSUME NoTicketLost, RelayInv, NEW relayer \in Addr, NEW i \in DOMAIN ledger,
         ConfirmOperation(relayer, ReportOf(ledger[i])), UNCHANGED ledgerVars
  PROVE  NoTicketLost'
<1>1. PICK e, key : e = ReportOf(ledger[i]) /\ key = KeyOf(ledger[i].tx)
  OBVIOUS
<1>2. ConfirmOperation(relayer, e)
  BY <1>1
<1>3. /\ key \notin xrplTickets
      /\ \E left \in Seq(Nat) :
           /\ SettledTo(key, left)
           /\ left = IF Allocates(ledger[i]) THEN availableTickets \o ledger[i].tickets
                                             ELSE availableTickets
  BY <1>1, <1>2, ConfirmedTickets
<1>4. PICK left \in Seq(Nat) :
        /\ SettledTo(key, left)
        /\ left = IF Allocates(ledger[i]) THEN availableTickets \o ledger[i].tickets
                                          ELSE availableTickets
  BY <1>3
<1>5. /\ availableTickets \in Seq(Nat)
      /\ IF Allocates(ledger[i]) THEN ledger[i].tickets \in Seq(Nat)
                                 ELSE ledger[i].tickets = None
      /\ \A j \in DOMAIN ledger : KeyOf(ledger[j].tx) = key => j = i
  BY <1>1 DEF RelayInv, ContractInv, TypeOK, LedgerOK, EntryOK
<1>6. CASE Allocates(ledger[i])
  <2>1. PICK new \in Seq(Nat) : new = ledger[i].tickets
    BY <1>5, <1>6
  <2>2. Range(availableTickets) \cup Range(new) \subseteq Range(left)
    BY <1>4, <1>5, <1>6, <2>1, JoinKeepsTickets
  <2>. QED BY <1>3, <1>4, <1>5, <2>1, <2>2, FoundSettled DEF Announced
<1>7. CASE ~Allocates(ledger[i])
  <2>1. Range(availableTickets) \subseteq Range(left)
    BY <1>4, <1>7
  <2>. QED BY <1>3, <1>4, <1>5, <1>7, <2>1, FoundSettled DEF Announced
<1>. QED BY <1>6, <1>7

\* An operation that is not in the ledger leaves the queue and returns its ticket.
LEMMA FoundReturned ==
  ASSUME NoTicketLost, UNCHANGED ledgerVars, NEW key \in Nat,
         \A i \in DOMAIN ledger : KeyOf(ledger[i].tx) # key,
         NEW left \in Seq(Nat), availableTickets \in Seq(Nat),
         \/ left = <<key>> \o availableTickets
         \/ left = availableTickets /\ key \notin xrplTickets,
         availableTickets' = left, pendingOperations' = Without(pendingOperations, key)
  PROVE  NoTicketLost'
<1>1. SettledTo(key, left)
  BY DEF SettledTo
<1>2. CASE left = <<key>> \o availableTickets
  <2>1. PICK one \in Seq(Nat) : one = <<key>> /\ Range(one) = {key}
    BY OneTicket
  <2>2. Range(one) \cup Range(availableTickets) \subseteq Range(left)
    BY <1>2, <2>1, JoinKeepsTickets
  <2>. QED BY <1>1, <2>1, <2>2, FoundSettled
<1>3. CASE left = availableTickets /\ key \notin xrplTickets
  <2>1. Range(availableTickets) \subseteq Range(left)
    BY <1>3
  <2>. QED BY <1>1, <1>3, <2>1, FoundSettled
<1>. QED BY <1>2, <1>3

\* The refusal of a transaction is confirmed.
LEMMA FoundRefused ==
  ASSUME QuorumsMeet, NoTicketLost, RelayInv, NEW m \in network, DeliverResult(m),
         ConfirmOperation(m.relayer, m.evidence)
  PROVE  NoTicketLost'
<1>1. PICK key \in Nat :
        /\ IsRefused(key)
        /\ \E left \in Seq(Nat) :
             /\ left = <<key>> \o availableTickets
             /\ availableTickets' = left
             /\ pendingOperations' = Without(pendingOperations, key)
  BY ConfirmedRefusal
<1>2. \A i \in DOMAIN ledger : KeyOf(ledger[i].tx) # key
  BY <1>1, RefusedUnused
<1>3. availableTickets \in Seq(Nat) /\ UNCHANGED ledgerVars
  BY DEF RelayInv, ContractInv, TypeOK, DeliverResult, AfterMessage
<1>. QED BY <1>1, <1>2, <1>3, FoundReturned

\* An operation that was not submitted is cancelled.
LEMMA FoundCancelled ==
  ASSUME NoTicketLost, RelayInv, NEW key \in DOMAIN pendingOperations,
         Unsent(TransactionOf(key)), CancelPendingOperation(Owner, key), UNCHANGED ledgerVars
  PROVE  NoTicketLost'
<1>1. TypeOK /\ LedgerOK /\ availableTickets \in Seq(Nat) /\ key \in Nat
  BY DEF RelayInv, ContractInv, TypeOK
<1>2. \A i \in DOMAIN ledger : KeyOf(ledger[i].tx) # key
  BY UnsentUnused
<1>3. CASE pendingOperations[key].ticket_sequence # None
  <2>1. PICK left : left = <<key>> \o availableTickets
    OBVIOUS
  <2>2. availableTickets' = left /\ pendingOperations' = Without(pendingOperations, key)
    BY <1>1, <1>3, <2>1, UnsentUnused, CancelSettles
  <2>3. left \in Seq(Nat)
    BY <1>1, <2>1
  <2>. QED BY <1>1, <1>2, <2>1, <2>2, <2>3, FoundReturned
<1>4. CASE pendingOperations[key].ticket_sequence = None
  <2>1. availableTickets' = availableTickets /\ pendingOperations' = Without(pendingOperations, key)
    BY <1>1, <1>4, CancelSettles
  <2>2. TransactionOf(key).account = key /\ TransactionOf(key).ticket = None
    BY <1>1, <1>4, IdentityAssumption DEF RelayInv, QueueOK, StoredUnder, TransactionOf
  <2>3. key \notin xrplTickets
    BY <1>1, <2>2 DEF Unsent, SequenceUsable, LedgerOK
  <2>. QED BY <1>1, <1>2, <2>1, <2>3, FoundReturned
<1>. QED BY <1>3, <1>4

\* The XRPL validates a transaction: the tickets that it creates are announced.
LEMMA FoundExecuted ==
  ASSUME NoTicketLost, NEW tx, NEW entry, NEW last, NEW first, NEW new,
         Executed(tx, entry, last, first, new), UNCHANGED <<availableTickets, pendingOperations>>
  PROVE  NoTicketLost'
<1>1. ASSUME NEW ticket \in xrplTickets'
      PROVE  \/ ticket \in Range(availableTickets) \cup DOMAIN pendingOperations
             \/ \E i \in DOMAIN ledger' :
                  /\ ledger'[i].tickets # None /\ ticket \in Range(ledger'[i].tickets)
                  /\ KeyOf(ledger'[i].tx) \in DOMAIN pendingOperations
  <2>1. CASE ticket \in new
    <3>1. Allocates(entry) /\ ticket \in Range(entry.tickets)
      BY <2>1 DEF Executed
    <3>2. entry.tickets # None
      BY <3>1, RelayAssumption DEF Executed
    <3>. QED BY <3>1, <3>2 DEF Executed
  <2>2. CASE ticket \in xrplTickets
    BY <2>2 DEF NoTicketLost, KeyOf, Executed
  <2>. QED BY <2>1, <2>2 DEF Executed
<1>. QED BY <1>1 DEF NoTicketLost, KeyOf, Range

\* A relayer's message reaches the contract, or a relayer reports.
LEMMA FoundDelivered ==
  ASSUME QuorumsMeet, NoTicketLost, RelayInv, NEW relayer \in Addr,
         DeliverNextOf(relayer) \/ ReportNextOf(relayer)
  PROVE  NoTicketLost'
<1>1. ASSUME NEW m \in network, m.relayer = relayer, DeliverSignature(m)
      PROVE  NoTicketLost'
  <2>1. PICK sender, key, version : sender \in Addr /\ SaveSignature(sender, key, version)
    BY <1>1 DEF DeliverSignature
  <2>2. Kept /\ UNCHANGED <<availableTickets, ledgerVars>>
    BY <1>1, <2>1, ContractSigned DEF RelayInv, DeliverSignature, SaveSignature, ticketVars
  <2>. QED BY <2>2, FoundKept DEF Kept
<1>2. ASSUME NEW m \in network, DeliverResult(m) PROVE NoTicketLost'
  <2>1. UNCHANGED ledgerVars
    BY <1>2 DEF DeliverResult, AfterMessage
  <2>2. CASE RecordEvidence(m.relayer, m.evidence)
    BY <2>1, <2>2, RecordRenews, FoundKept DEF Renewed, Kept
  <2>3. CASE ConfirmOperation(m.relayer, m.evidence)
    BY <1>2, <2>3, FoundRefused
  <2>. QED BY <1>2, <2>2, <2>3 DEF DeliverResult
<1>3. ASSUME NEW i \in DOMAIN ledger, Report(relayer, ledger[i]) PROVE NoTicketLost'
  <2>1. /\ \/ RecordEvidence(relayer, ReportOf(ledger[i]))
           \/ ConfirmOperation(relayer, ReportOf(ledger[i]))
        /\ UNCHANGED ledgerVars
    BY <1>3 DEF Report, ReportOf, AfterMessage
  <2>2. CASE RecordEvidence(relayer, ReportOf(ledger[i]))
    BY <2>1, <2>2, RecordRenews, FoundKept DEF Renewed, Kept
  <2>3. CASE ConfirmOperation(relayer, ReportOf(ledger[i]))
    BY <2>1, <2>3, FoundConfirmed
  <2>. QED BY <2>1, <2>2, <2>3
<1>. QED BY <1>1, <1>2, <1>3 DEF DeliverNextOf, ReportNextOf

\* The owner and those who may halt the bridge
LEMMA FoundByOwner ==
  ASSUME Cancels # "any", NoTicketLost, RelayInv, OwnerNext \/ HaltNext, UNCHANGED ledgerVars
  PROVE  NoTicketLost'
<1>1. CASE RecoverTickets(Owner, nextSequence, RecoveredTickets)
  <2>1. PICK key, type :
          /\ key = OperationKey(None, nextSequence)
          /\ pendingOperations' = create_pending_operation(pendingOperations, None, nextSequence, type)
    BY <1>1 DEF RecoverTickets
  <2>2. DOMAIN pendingOperations \subseteq DOMAIN pendingOperations'
    BY <2>1 DEF create_pending_operation, Put
  <2>3. UNCHANGED availableTickets
    BY <1>1 DEF RecoverTickets
  <2>. QED BY <2>2, <2>3, FoundKept
<1>2. ASSUME NEW rotation \in Rotations, RotateKeys(Owner, rotation) PROVE NoTicketLost'
  <2>1. PICK type : type = [type |-> "RotateKeys", new_relayers |-> rotation.new_relayers,
                            new_evidence_threshold |-> rotation.new_evidence_threshold]
    OBVIOUS
  <2>2. create_operation_on_ticket(type, "Halted", TRUE)
    BY <1>2, <2>1 DEF RotateKeys
  <2>. QED BY <2>2, FoundTaken DEF RelayInv, ContractInv
<1>3. CASE \E key \in DOMAIN pendingOperations :
             Unsent(TransactionOf(key)) /\ CancelPendingOperation(Owner, key)
  BY <1>3, FoundCancelled
<1>4. CASE ResumeBridge(Owner)
  BY <1>4, FoundKept DEF ResumeBridge, ticketVars
<1>5. CASE HaltNext
  BY <1>5, FoundKept DEF HaltNext, HaltBridge, ticketVars
<1>. QED BY <1>1, <1>2, <1>3, <1>4, <1>5 DEF OwnerNext

LEMMA FoundStep ==
  ASSUME QuorumsMeet, Cancels # "any", RelayInv, loadFee \in Nat, NoTicketLost,
         [RelayNext]_relayVars
  PROVE  NoTicketLost'
<1>1. ASSUME UNCHANGED <<vars, ledgerVars>> PROVE NoTicketLost'
  BY <1>1, FoundKept DEF vars, ticketVars
<1>2. ASSUME NEW relayer \in Addr,
             SignNextOf(relayer) \/ SubmitNextOf(relayer) \/ LoseNextOf(relayer)
      PROVE  NoTicketLost'
  BY <1>1, <1>2 DEF SignNextOf, Sign, SubmitNextOf, Submit, ReportRefused, LoseNextOf, Lose
<1>3. ASSUME NEW submission \in submitted, NEW result \in {"Accepted", "Rejected"},
             Validate(submission, result)
      PROVE  NoTicketLost'
  <2>1. UNCHANGED <<availableTickets, pendingOperations>>
    BY <1>3 DEF Validate, vars, ticketVars
  <2>2. PICK tx, entry, last, first, new : Executed(tx, entry, last, first, new)
    BY <1>3, ValidateExecutes
  <2>. QED BY <2>1, <2>2, FoundExecuted
<1>4. ASSUME NEW fee \in LoadFees, RaiseLoad(fee) PROVE NoTicketLost'
  BY <1>1, <1>4 DEF RaiseLoad
<1>5. CASE RaiseFee
  <2>1. UpdateXRPLBaseFee(Owner, loadFee) /\ UNCHANGED ledgerVars
    BY <1>5 DEF RaiseFee, AfterMessage
  <2>2. Kept
    BY <2>1, ContractFee DEF RelayInv
  <2>. QED BY <2>1, <2>2, FoundKept DEF UpdateXRPLBaseFee, ticketVars, Kept
<1>6. ASSUME NEW send \in SendInputs, Send(send) PROVE NoTicketLost'
  <2>1. PICK type : type = Transfer(send)
    OBVIOUS
  <2>2. create_operation_on_ticket(type, config.bridge_state, pendingRotateKeys)
    BY <1>6, <2>1 DEF Send, SendToXRPL
  <2>. QED BY <1>6, <2>2, FoundTaken DEF Send, RelayInv, ContractInv
<1>7. ASSUME OwnerNext \/ HaltNext, AfterMessage("Invalid") PROVE NoTicketLost'
  BY <1>7, FoundByOwner DEF AfterMessage
<1>8. CASE UNCHANGED relayVars
  BY <1>1, <1>8 DEF relayVars
<1>. QED
  BY <1>2, <1>3, <1>4, <1>5, <1>6, <1>7, <1>8, FoundDelivered DEF RelayNext, ValidateNext

-----------------------------------------------------------------------------
\* The theorems

\* The invariant of the contract, the messages and the XRPL together: each of its
\* parts needs the others to be preserved.  Where two quorums meet and the owner
\* cancels no transaction that may still be executed, it always holds.
THEOREM RelayInvariant ==
  ASSUME QuorumsMeet, Cancels # "any"
  PROVE  RelaySpec => [](RelayInv /\ loadFee \in Nat)
<1>1. RelayInit => RelayInv /\ loadFee \in Nat
  BY RelayInitInv
<1>2. RelayInv /\ loadFee \in Nat /\ [RelayNext]_relayVars => (RelayInv /\ loadFee \in Nat)'
  BY RelayStep
<1>. QED BY <1>1, <1>2, PTL DEF RelaySpec

\* Every transfer is paid on the XRPL or refunded, and never both: settling an
\* operation, returning its ticket and refunding its sender follow what the XRPL
\* did, whatever messages are lost or late.
THEOREM PaidOrRefundedCorrect ==
  ASSUME QuorumsMeet, Cancels # "any"
  PROVE  RelaySpec => []PaidOrRefunded
  BY RelayInvariant, PaidFromInv, PTL

\* The tickets in AVAILABLE_TICKETS are not used on the XRPL: return_ticket and
\* handle_ticket_allocation_confirmation put none there that cannot be used.
THEOREM TicketsUnspentCorrect ==
  ASSUME QuorumsMeet, Cancels # "any"
  PROVE  RelaySpec => []AvailableTicketsUnspent
  BY RelayInvariant, UnspentFromInv, PTL

\* No ticket is lost: what the XRPL would still accept is in AVAILABLE_TICKETS, held
\* by a pending operation or announced by an allocation that is pending.  Every way
\* an operation can end returns its ticket unless the ledger has it.
THEOREM NoTicketLostCorrect ==
  ASSUME QuorumsMeet, Cancels # "any"
  PROVE  RelaySpec => []NoTicketLost
<1>1. RelayInit => NoTicketLost
  BY DEF RelayInit, NoTicketLost
<1>2. RelayInv /\ loadFee \in Nat /\ NoTicketLost /\ [RelayNext]_relayVars => NoTicketLost'
  BY FoundStep
<1>. QED BY <1>1, <1>2, RelayInvariant, PTL DEF RelaySpec

\* The relayers and the threshold in CONFIG are those of the multisig account,
\* except between the XRPL's accepting a rotation and its confirmation.
THEOREM SignersMatchCorrect ==
  ASSUME QuorumsMeet, Cancels # "any"
  PROVE  RelaySpec => []SignersMatch
  BY RelayInvariant, SignersFromInv, PTL

\* "Invalid transactions ... are never executed" (state.rs, PendingRefund): a
\* transfer whose ticket the contract gives back is on no ledger.  Without
\* QuorumsMeet a run refutes it.
THEOREM InvalidNotExecuted ==
  ASSUME QuorumsMeet, Cancels # "any"
  PROVE  RelaySpec => InvalidWasNeverExecuted
<1>1. RelayInv /\ RelayInv' /\ [RelayNext]_relayVars =>
        [\A key \in TransferKeys \ DOMAIN pendingOperations' :
           key \in Range(availableTickets') =>
             \A i \in DOMAIN ledger : ledger[i].tx.ticket # key]_relayVars
  BY UnexecutedFromInv
<1>. QED BY <1>1, RelayInvariant, PTL DEF RelaySpec, InvalidWasNeverExecuted

=============================================================================
