# A TLA+ model of the XRPL bridge contract

This directory models `contracts/cw-xrpl`, the CosmWasm contract of a bridge
between a Cosmos chain and the XRP ledger. It holds the specifications, the
instances that TLC checks, and proofs that TLAPS checks for every instance.

## The system

The contract owns a multisig account on the XRPL through a set of *relayers*.
It never talks to the XRPL itself. It keeps a queue of *operations* (XRPL
transactions to be made); the relayers read the queue, sign each operation,
submit the transaction, and report its result as an *evidence*. They report
payments to the multisig account the same way. An evidence takes effect when
enough relayers have reported the same one.

XRPL transactions of one account are ordered by a sequence number. To have many
in flight the contract uses *tickets*, numbers allocated in batches by a
transaction of their own and each consumed by one transaction.

| Component | State | Operations |
| --- | --- | --- |
| Bridge state and authorization (`contract.rs`, `state.rs`) | `CONFIG`, the owner | `HaltBridge`, `ResumeBridge`, every `check_authorization` |
| Tickets (`tickets.rs`) | `AVAILABLE_TICKETS`, `USED_TICKETS_COUNTER`, `PENDING_TICKET_UPDATE` | allocate, reserve, return, register as used, confirm an allocation, `RecoverTickets`, `UpdateUsedTicketSequenceThreshold` |
| Pending operations (`operation.rs`) | `PENDING_OPERATIONS` | create, `handle_operation`, `CancelPendingOperation`, `UpdateXRPLBaseFee` |
| Evidences (`evidence.rs`) | `TX_EVIDENCES`, `PROCESSED_TXS` | `SaveEvidence` |
| Relayers (`relayer.rs`) | `CONFIG.relayers`, threshold, `PENDING_ROTATE_KEYS` | `RotateKeys` and its confirmation |
| Signatures (`signatures.rs`) | in each operation | `SaveSignature` |
| Tokens (`token.rs`) | `XRPL_TOKENS`, `COSMOS_TOKENS` | register, recover a registration, update |
| Prohibited addresses (`address.rs`) | `PROHIBITED_XRPL_ADDRESSES` | replace the set, check against it |
| Refunds (`operation.rs`) | `PENDING_REFUNDS` | store, `ClaimRefund` |
| Fees and funds (`fees.rs`, bank, token factory) | `FEES_COLLECTED`, `FEE_REMAINDERS`, balances | collect, split, claim, mint, burn, escrow |
| Migration (`migration.rs`) | rewrites `CONFIG` | `migrate` |
| Universal swap, rate limiter, ownership, queries | other contracts, libraries | calls out, read-only views |

The components interact by shared storage within one message: the result of an
operation settles the operation, may change the tokens, the relayers or the
refunds, returns or counts a ticket, and may start the next allocation. A message
is one chain transaction, so an error undoes all of it. Concurrency is the order
in which messages of independent senders arrive.

What is hard here:

* results arrive in any order, and an operation can be cancelled by the owner
  while votes about it are on their way;
* a ticket comes back after an Invalid result and is used again at once;
* a rotation replaces the voters while votes are stored, and the bridge is
  halted from its proposal to its result;
* a fee update invalidates signatures that were already given;
* the ticket allocation uses a ticket itself, and the last one is kept for it;
* messages that were sent while the bridge was active arrive when it is halted;
* a signature or a vote about an operation that is gone meets the next operation
  on the same ticket;
* a transaction may be validated on the XRPL while the owner cancels it;
* amounts are truncated and converted between decimals, and fees are split with
  remainders that are kept over rotations;
* coins of a Cosmos token may come back before the transfer that took them to the
  XRPL is confirmed.

What makes the components correct: a ticket is held once and the flag of the
ticket update is exact; a transfer ends accepted or refunded; votes are counted
for the relayers and the threshold in force; a rotation is unique and halts the
bridge; a token is Processing exactly while its TrustSet is pending; signatures
belong to the current version; the multisig account is never taken for a user
of the bridge; what the contract holds is what it owes, and what one chain
represents the other one holds; a transfer is paid or refunded and never both; no
ticket is lost or used twice; and every operation is settled.

## Modules

* **Operations** is the contract's control state, with one action per message.
  Storage items are variables: `config` (the fields of `CONFIG` that change),
  the ticket items, `pendingOperations` and `txEvidences` as functions from their
  keys, the states of the tokens, the prohibited addresses and the refunds, plus
  the block time `now`. `SaveEvidence` is three actions for its three outcomes:
  `RecordEvidence` below the threshold, `ConfirmTransfer` and `ConfirmOperation` at
  it. Functions that pass the ticket state along within one message are
  operators from one ticket state to the next.
* **Migration** adds the `migrate` entry point. A migration also makes the bridge active
  and may bring relayers that nothing has validated, so what is said of rotations,
  votes and relayers is about the time between migrations.
* **Amounts** has the arithmetic as operators: truncation, conversion, fees, the
  digits of XRPL amounts, what the rate limiter is told. A function that may fail
  is a pair, a predicate `Can...` and a value; overflow is one of the failures.
* **RoundTrip** is a small state machine over `Amounts`: a token is registered and
  updated and ever larger amounts are looked at. It carries the arithmetic
  properties, for TLC and for the proofs.
* **Bridge** extends `Operations` and `Amounts` with the coins: balances (`bank`), the
  parameters of tokens, collected fees and remainders. Each of its actions is the
  action of `Operations` together with what the message does to the coins. Three
  variables say what happened on the XRPL, so that relayers report the truth.
* **Custody** is the abstract specification of the coins: for each denom an account
  whose parts (in transit, refundable, fees, escrow, lost) change only as seven
  relations allow. It knows nothing of tickets, votes or operations. `Bridge`
  implements it under the mapping `CustodyOf`.
* **Relay** composes `Operations` with the relayers and the XRPL, both external and
  modelled from how the contract uses them and from the workflow in
  `spec/spec.md`. A signature or an Invalid result is a message that may be late or
  lost; the XRPL keeps tickets, its account sequence, signers and quorum, and the
  fee it asks for.
* **Claims** and **RelayClaims** state what comments and tests say and the code does
  not do, or not always.
* **MCOperations**, **MCRoundTrip**, **MCBridge** and **MCRelay** are the instances for TLC.
* **OperationsProofs**, **MigrationProofs**, **RoundTripProofs**, **CustodyProofs**,
  **BridgeProofs**, **FundsProofs** and **RelayProofs** have the theorems, **AmountProofs** the
  lemmas about sums, truncation and conversion.

Definitions keep the names of the source; those named `..._Something` after a
comment `Mutant:` are deliberate errors that the runs must detect (`PROJECT.json`
says which property finds which).

What is abstracted:

* In `Operations` and `Relay` an amount is an opaque value that goes from a transfer
  to its operation and its refund. The guards about amounts are in `Bridge`;
  without them `Operations` accepts some messages that the contract refuses, and no
  property relies on refusing them.
* Addresses, currencies and denoms are well formed. A Cosmos token's denom also
  stands for the XRPL currency generated for it. XRPL tokens are named by issuer
  and currency and not also by the denom created for them.
* A signature is its signer and the version it was given for, in `Relay` also the
  transaction that was signed.
* Evidence hashes (SHA-256 of the serialized evidence) are the evidences
  themselves. The hash of a transaction has spellings that `UpperCase` unifies, as
  `get_tx_hash` does; the evidences of two spellings are different, as in the code.
* The vote list of an evidence is a set: a sender already in it is refused.
* Relayers of a configuration are a set. The lists in the code have no order that
  matters, and `validate_relayers` refuses duplicates. A relayer is its two
  addresses; its public key (`xrpl_pub_key`) and the check that no two are equal
  (`relayer.rs:47`) are left out, so a few more sets of relayers are accepted.
* The coins of a claim of fees have different denoms, and zero amounts of a fee are
  kept where the code removes the coin.
* In `Bridge`, the entry point of the swap is an account that is paid. A swap that
  fails undoes the message: `reply` loads `TEMP_UNIVERSAL_SWAP`, which no handler
  stores, and so fails itself.
* In `Bridge`, nobody sends coins to the contract outside of a message, and the owner
  mints with `MintCosmosToken` only coins of Cosmos tokens, for users. The contract
  does not check which denom is minted; minting the denom of an XRPL token would
  make unbacked coins, whatever else the contract does.
* The XRPL of `Bridge` is exact: it adds and subtracts issued amounts without the
  rounding that `spec/spec.md:223-256` describes, and takes no fees out of the multisig
  account (`spec/spec.md:52` says that account pays them), so `CirculationBacked` is
  about what the contract does to the balances and not about rounding or fees.
* In `Bridge` relayers report what happened, in any spelling of a hash, and the owner
  cancels only what is not on the XRPL; `Relay` is about when they do not.
* The owner is a constant. An owner that is a relayer too is allowed by the
  assumptions.

## Runs

| Run | Instance | Properties |
| --- | --- | --- |
| `tickets` | one relayer; XRP, and a Cosmos token that is registered and updated in between; a first batch of three tickets and a second of two; used-ticket threshold 2, which the owner may set to 3; a migration to another relayer and a threshold of 1; Accepted, Rejected and Invalid results for every ticket, halts, cancellations, recovery on two account sequences | `TypeOK`, `TicketUpdateFlag`, `TicketsHeldOnce`, `TransferAcceptedOrRefunded`, `HaltedBridgeIsQuiet` |
| `rotation` | three relayers of whom two must agree, a fourth to rotate in; two acceptable rotations and three to be refused; transfers in two spellings and to the contract itself; an XRPL token whose issuer is prohibited at times, over two seconds, and tokens and recipients that are always refused; accepted, rejected and invalid results for the rotation or the trust line; halting and resuming | `RotationHaltsBridge`, `VotesOfRelayersInOffice`, `RelayersCanReachThreshold`, `TrustSetPerProcessingToken`, `MultisigAddressNotUsed`, `HaltedBridgeIsQuiet` |
| `roundtrip` | the XRPL with one decimal, Cosmos tokens with up to three, precisions from -1 to 1, three fees, every amount up to 450 in a width of 500, one significant digit | `TruncatesToLargestMultiple`, `RefundIsWhatWasLocked`, `RefundReturnsQuota`, `ReturnIsBacked`, `HoldingLimitGivesValidAmounts` |
| `funds_issued` | an XRPL token with a fee of 3 and units of 10: deposits of 57 and 35 (the second for a swap), transfers of 27 with and without a delivered amount; two relayers who must both agree | `FundsTypeOK`, `CirculationBacked`, `WithinMaxHolding`, `CoinsInCustody` |
| `funds_cosmos` | a Cosmos token with two decimals and units of 10, or of 1 (refused later for its digits), or with too many decimals (refused); transfers of 47, 2 coming back, which the relayers report with two spellings of the hash; one of two relayers suffices, and is alone after a rotation; two relayers at most | `CirculationBacked`, `WithinMaxHolding`, `FeeRemaindersAreDust`, `CoinsInCustody` |
| `relay` | three relayers, two must agree; three transfers, good or refused by the XRPL, on three tickets that run out and are allocated again; one rejection; halts; cancellations of what was not submitted; symmetry of the relayers | `PaidOrRefunded`, `AvailableTicketsUnspent`, `NoTicketLost`, `InvalidWasNeverExecuted` |
| `relay_settles` | two relayers who must both agree, a rotation that replaces one of them, a rise of the XRPL's fee with signatures on the way, one transfer, one rejection | `SignersMatch`, `SignaturesOfCurrentVersion`, `EveryOperationSettles` |

`TicketsHeldOnce` is about an XRPL that grants a ticket number once and never an
account sequence (`TicketsGrantedOnce`, which `MCOperations` assumes and TLC evaluates
on its evidences). Otherwise, in `tickets` and `rotation` evidences do not depend on what
was submitted, and relayers may also agree on results that an honest XRPL does not give.

`CoinsInCustody` is the refinement: TLC checks that every step of `Bridge` is a step
of `Custody` or leaves the accounts alone. With the theorem about `Custody` it says
that the contract's balance is exactly what it owes. A refund that is stored over
another one (see `refund_id`), of the same token or of another, is booked as `lost`.

`HaltedBridgeIsQuiet` says what a halted bridge does not do. It still takes and settles
the results of all pending operations, although a comment and two tests speak of
allocations and rotations only; the run `halted_results` shows that. The property is checked twice:
`rotation` tries to register tokens and to vote for transfers on a halted bridge,
`tickets` to sign transfers and to claim refunds.

`NoTicketLost` complements `AvailableTicketsUnspent`: the queue has no ticket that the XRPL
would refuse, and the XRPL has no unused ticket that the contract has forgotten.

`CirculationBacked` would fail in `funds_cosmos` if evidences were counted by the hash as
it is spelled: one relayer suffices there, so one deposit would be credited twice.

Deadlock is checked except in the runs of `Relay`: there the hashes and sequence
numbers of the bound are used up at last, and a bridge without transfers has
nothing to do.

Bounds. Every batch of evidences is finite, each hash is processed once, and so
behaviours that use new tickets end by themselves. `MaxVersion` bounds the fee
updates (two versions show whether old signatures survive) and `MaxTime` the
block time: 1 in `rotation`, where operations of one kind start in different seconds, and in
`funds_cosmos`, where refunds of one sender from different seconds coexist, and 0 elsewhere, all messages in one second, the case
in which ids collide. Three
tickets are the fewest with which a transfer is pending, another one settles and
the last is kept; the second batch makes an allocation from a ticket succeed. One
relayer suffices where votes do not matter; three with a threshold of two are the
fewest with a quorum that a rotation can split. Token states, bridge states and
results are complete. `MaxSupply` bounds what the owner mints to one more transfer.
Amounts are chosen so that fee, truncation and split all leave remainders, and
`roundtrip` covers all amounts of its width. In `Relay`, `MaxSends` bounds the
transfers (three: one that is refused, one that reuses its ticket, one more),
`MaxRejections` what the XRPL rejects, `XRPLHashes` and `MaxSequence` the transactions;
none of these runs reaches the last hash with an operation still to be validated.

Fairness, in `relay_settles` only. A relayer that can sign, submit or report keeps
doing so: the relayer process polls the contract and the XRPL (`spec/spec.md`,
workflow of the relayer), which is weak fairness of each. Its messages may be lost,
but one that is sent again and again arrives: strong fairness of delivery. No
message is on its way for ever. The XRPL validates a transaction that it can
validate, and the owner raises the fee when the XRPL asks for more, since without
that no transaction would be validated. Nothing is assumed of users, of halts and
of rotations; `EveryOperationSettles` therefore speaks of behaviours in which the
bridge is active in the end, as a halted one refuses signatures.

In `relay` the owner cancels only what was not submitted, as nothing in the contract
can tell whether a cancelled transaction was executed; with any cancellation allowed
(`Cancels = "any"`) the first two properties fail. Late votes do no harm there: with
three relayers and a threshold of two, two quorums have a relayer in common
(`QuorumsMeet`), so the votes that can be late are fewer than the threshold. With
twice as many relayers as the threshold they suffice, which is the run
`late_invalid`: the same property holds in one run and fails in the other.

Five runs end in a violation. Each states what the repository says:

| Run | What the repository says | What the code does |
| --- | --- | --- |
| `halted_results` | a halted bridge takes only evidences for ticket allocations and for the rotation (`contract.rs:683`; `tests/bridge.rs:1292` and `tests/key_rotation.rs:208` say the same and send only transfers to Cosmos) | the branch for transaction results does not look at the state of the bridge (`contract.rs:929`), so results of transfers and of TrustSets are voted for and settled |
| `refund_id` | time and operation id make ids unique (`operation.rs:96`) | a ticket returned and reused within a second repeats the id, and a second refund of that sender overwrites the first |
| `last_ticket` | the last ticket is reserved for an update of the tickets (`tickets.rs:20`) | after an Invalid or cancelled allocation on it, with nothing else pending, no message can start that update, and `RecoverTickets` refuses as long as a ticket is there |
| `late_invalid` | invalid transactions are never executed (`state.rs:102`) | where two quorums need not meet, late votes about a refused transfer settle the next one on its ticket, which was executed |
| `stale_signature` | by the version relayers know if they must sign again (`operation.rs:24`) | a late signature for an operation that is gone has the version of the next one on the ticket and is kept for it |

## Proofs

**OperationsProofs** proves, from the assumptions that `Operations` names about its
constants (the instantiate message passed its checks, the inputs have their types),
for every set of relayers, evidences, tokens and inputs:

* `TypeCorrect`: `TypeOK` is inductive as it stands. The one arithmetic point is
  the used-ticket counter, which stays a natural number because the subtraction
  saturates.
* `TicketFlagCorrect`: the flag of the ticket update is set exactly while one
  allocation is pending.
* `RotationCorrect`: one rotation at a time, flagged exactly, on a halted bridge.
* `TrustSetCorrect`: Processing tokens and TrustSet operations correspond one to
  one.
* `VotesCorrect`: stored votes are those of relayers in office, fewer than the
  threshold. The inductive invariant `VotesInv` adds that votes are finite sets,
  without which their number could not be compared with the threshold.
* `SignaturesCorrect`: signatures are for the current version, one per signer.
* `RelayersCorrect`: relayers in office or proposed can reach their threshold and are
  at most `MAX_RELAYERS`.
* `MultisigCorrect`: the multisig account is not taken for a user. This is not
  inductive: `MultisigInv` adds that the account is in the set of prohibited
  addresses, which every replacement of that set preserves.
* `TransfersCorrect` and `HaltedCorrect`: the two action properties. The second has no
  more to say of results than that a processed hash is that of a result of a pending
  operation; the claim of the comment (`halted_results`) is false.
* `TicketsHeldOnceCorrect`: a ticket is held once, if the constant evidences satisfy
  `TicketsGrantedOnce`. The inductive invariant `TicketsInv` is about all keys of the
  queue and not only its tickets: available tickets are different from each other
  and from every key, an operation on a ticket is stored under it, and all of them are
  account sequences or were granted by a transaction that is already processed
  (`Owned`). The last part makes a new grant disjoint from what is there: its hash is
  not among the processed ones. `Owned` counts account sequences, too, since an
  Invalid result may name the sequence of a recovery as a ticket, and then it is
  returned as one.

The argument is shared. A message changes the queue in one of three ways: it
keeps the operations (`Kept`), starts one (`Started`) or settles one and perhaps
starts an allocation (`Settled`). The lemmas `StartEffect`, `RecoverEffect`,
`ConfirmEffect` and `CancelEffect` show which for the actions, `NextCases` lists the
cases, and each invariant is then shown for the three kinds of change. For what
is inside the operations `QueueCases` says that a message carries them over
unchanged, save one that it adds or removes, or is a signature or a fee update. The
invariants need `TypeOK` besides themselves and what is said above.

**MigrationProofs** proves that `TicketUpdateFlag`, `TransferAcceptedOrRefunded`,
`TrustSetPerProcessingToken` and `TicketsHeldOnce` hold with migrations in between
(`TicketFlagSurvivesMigration`, `TransfersSurviveMigration`,
`RegistrationsSurviveMigration`, `TicketsSurviveMigration`), whatever configuration
they write.

**RoundTripProofs** proves the five properties of `RoundTrip` (`TruncationCorrect`,
`RefundCorrect`, `QuotaCorrect`, `ReturnCorrect`, `HoldingLimitCorrect`) for every limit,
token, fee and amount. The invariant is `Legal`: the
token is one that the contract accepts. The provers know division and products but
not the laws of powers; `PowersOfTen` assumes them (powers of ten are positive and
exponents add) for the exponents that occur, and TLC evaluates that assumption.

**CustodyProofs** proves `HeldIsOwedAlways`: in `Custody` the balance of a denom is the
sum of its parts, and nothing of an issued denom is escrow.

**AmountProofs** has what the proofs about coins rest on. A sum over a finite set
(`SumFunctionOnSet`) is unfolded by an argument of its own, since no induction theorem
can be instantiated: among the subsets of which a claim is false there is one with
no other inside it (`SmallestSubset`, from the well-foundedness of inclusion), and
the sets of counterexamples are ordinary sets. From it follow how a sum changes with
one entry, with several and with an equal share for many (`SumRemove`, `SumChange`,
`SumPart`, `SumShares`). The other half is about truncation and conversion: which
precisions and decimals allow them (`LegalUnit`, `LegalConversion`), that what was
truncated on the way to the XRPL converts back without a rest (`ConversionBack`),
that converted parts are no more than the converted sum (`ConvertSum`), and that a
fee is split to the last coin (`FeeSplit`).

**BridgeProofs** proves `BridgeImplementsOperations`, so every theorem about
`Operations` holds of `Bridge`, and `BridgeInOrder`: the invariant `BridgeInv`, which says
what the coins need to know of the contract. The parameters are those of the
registered tokens and legal (`ParamsOK`), every pending transfer and refund is
`Payable`, that is, it has taken coins from its sender and its amount converts back
exactly, and a transaction of the XRPL, whose hash is in upper case there, is
deposited once (`DepositsOK`). It builds on
`TypeOK`, on the relayers' being able to reach their threshold (a fee is split among
at least one) and on `MultisigInv` (a token is told from another by its issuer).

**FundsProofs** counts the coins. The assumptions are those of `Bridge`: the contract
starts without coins, nobody has coins of an XRPL token that were not minted by the
bridge, accounts are finitely many, and what relayers report has happened. The
inductive invariant `FundsInv` adds to `BridgeInv`, for every token, that the escrow is
not negative and is zero for an XRPL token (`Covered`), that what one chain
represents the other holds (`Backed`), and the limit (`Limited`), which includes that a
token that is not registered has no coins. The three depend on each other: an
amount is released because the escrow covers what circulates, and a step that burns
or pays needs the balance that `Covered` gives it. The proof has one lemma per kind of
message about what it does to the balance, to the transfers in transit, to the
refunds, the fees and the ledger (`FundsOutcome` collects them), and one per kind of
change about the invariant. Its consequences:

* `FundsAreTyped`: no balance, fee or remainder goes below zero.
* `CirculationIsBacked`: coins of an XRPL token are backed by what the multisig
  account holds; the escrow covers what circulates of a Cosmos token.
* `MaxHoldingRespected`: the limit in force is kept.
* `FeesAreDivided`: what fees leave undivided is less than `MAX_RELAYERS` in every token.
  A collection adds the old remainder before it divides (`FeeSplit`), there are never
  more relayers than that (`RelayersCorrect`), and nothing else changes a remainder, so
  one that was left by a larger set of relayers is small, too.
* `BridgeImplementsCustody`: the refinement. Each outcome of a message is one of the
  relations of `Custody` (`LockMove` to `ReleaseMove`) for one token and leaves the others
  alone, except for a claim of fees and for a refund stored over one of another token.

The refinement proof found an error in the model: `Custody` and the history variable
`lost` took for granted that a refund is stored over one of the same token. Ids
collide per sender, whatever the token, so the relation `Overwrite` was added.

**RelayProofs** proves what the runs check of `Relay`'s safety, for any number of
relayers, transfers, rotations, rejections and lost messages: `PaidOrRefundedCorrect`,
`TicketsUnspentCorrect`, `NoTicketLostCorrect`, `SignersMatchCorrect` and
`InvalidNotExecuted`. They follow from one inductive invariant over contract, messages in flight and XRPL, `RelayInv`
(theorem `RelayInvariant`). It takes from `Operations` the types, the two flags and the
votes (`ContractInv`) and adds:

* `LedgerOK`: a sequence number is in the ledger at most once, is smaller than the
  account's next one and no unused ticket; what a transaction of the ledger is
  for was not malformed.
* `QueueOK`: available tickets are unused and no operation has them; every pending
  operation's number is unused or in the ledger (`StoredUnder`), and if it is in the
  ledger, then as a transaction of this very operation (`EntryKnown`), so that its
  result is a result for it; the tickets that an allocation created are nobody's
  until it is confirmed; what is submitted is for a pending operation.
* `RefusalsOK`: an Invalid result names a ticket only. Unless the transaction of the
  operation that has the ticket *now* is malformed, those who voted Invalid for
  the ticket or whose vote is on its way are fewer than any threshold. This is the
  heart of the argument.
* `TermsOK`: relayers and thresholds, in office or proposed, are those of some term.
* `SignersOK`: the signer list is that of `CONFIG`, or of the rotation that is in the
  ledger and still pending.
* `KeptOK`: the number of transfers kept is that of the transfers delivered plus that
  of the pending ones not delivered, an equation of which `PaidOrRefunded` is a
  consequence.

The parts need each other. A refusal that reaches its threshold meets a malformed
transaction (`RefusalQuorum`), which `LedgerOK` has in no ledger, so the ticket that
is returned is unused (`UnusedStep`) and the refund was not paid (`KeptOK`). When an
operation ends and its ticket comes back, a quorum has voted, and what may still
be on its way comes from the others: they are fewer than a threshold because two
quorums meet (`RefusalsConfirmed`), and so `RefusalsOK` holds for whatever operation
takes the ticket next. There is a lemma for each action; those of the XRPL go
through `Executed`, which says what a validated transaction does to ledger, tickets
and account sequence. `NoTicketLost` is inductive next to `RelayInv`: an operation that
leaves the queue has a number that the ledger uses (`ConfirmedTickets`) or returns it
(`FoundReturned`), an operation that starts holds the ticket it takes (`TakenHeld`), and
the tickets of an allocation are announced by its entry of the ledger until they
are available (`FoundSettled`).

Two hypotheses stand in these theorems, and both are needed. `QuorumsMeet`: two
thresholds, of one term of office or of different ones, add up to more than the
number of all relayers that ever are in office. The contract does not enforce it
(`validate_relayers` only wants a threshold that can be reached); `late_invalid`
violates `InvalidWasNeverExecuted` without it. `Cancels # "any"`: the owner cancels
only what was not submitted, as explained under Runs. Both hold in the runs `relay`
and `relay_settles`. The proof also found an assumption missing from the model: the
number of tickets that the owner asks for is a natural number or none
(`RecoveredTickets`), and an operation result that allocates tickets is
distinguished from none (`None` is no sequence).

Only model-checked: liveness (`EveryOperationSettles`), which the provers do not
reach. `RelayInv` itself ranges over all natural numbers, so TLC checks its
consequences and not the invariant. Of the five claims of `Claims` and `RelayClaims`
four have no theorem, since they are false; the fifth holds under `QuorumsMeet`.

## Plan

1. `Operations`, `Claims`, `Migration` and their first theorems: done.
2. `Amounts` and `RoundTrip`, checked and proved: done.
3. `Bridge` over `Operations` and `Amounts`, with `Custody` as its abstraction: done.
4. `Relay`, with late and lost messages, cancellations, fees and rotations, and
   liveness: done.
5. Theorems for the other invariants and action properties of `Operations`: done.
6. The invariants of `Bridge`, the refinement of `Custody` and `TicketsHeldOnce` as
   theorems: done.
7. The invariants of `Relay` as theorems: done.
8. Open: a composition of `Bridge` and `Relay` in one state space (each property is now
   about one of them), and rotations to a larger number of relayers in `Relay`.

## Not modelled

Queries, the character-level validation of addresses, currencies and denoms, the
schema and the error texts have no state. Ownership is a library's. The rate
limiter is another contract: the amounts it is told of are modelled, its quotas are
not, and its veto undoes a message as if it had not been sent; the messages that
add, remove and reset its quotas are forwarded. `CreateCosmosToken` is forwarded to
the token factory. The relayer program and the XRPL are not in this repository;
`Relay` has what the contract relies on, and no relayer that signs anything but the
operation it sees.
