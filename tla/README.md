# Account abstraction and accountable batching: verification

TLA+ models of the contracts and of the client programs of this repository, TLC
configurations that check them on small instances, and proofs, checked by TLAPS,
for every instance.

## 1. The system and its parts

The repository holds two systems of contracts that relay transactions for users,
and the programs that use the first one.

**ERC-4337** (`contracts/core`, `contracts/interfaces`, `contracts/samples`). A
bundler sends *user operations* to the singleton `EntryPoint`, which asks each
account (and the paymaster that sponsors it, if any) for consent, charges whoever
pays, executes the operation, and pays the bundler.

**ICSOC** (`contracts/ICSOC`). Contracts that relay batches of users'
transactions. In the accountable variant the owner promises users a position in a
batch, and answers with a deposit for what it promised.

**Clients** (`src`, `gascalc`, `test/UserOp.ts`, in TypeScript). `AASigner` makes
an account look like an ethers signer: it fills, signs and sends user operations, at
once or through a queue, and waits for their events. `Create2Factory` deploys
contracts at addresses that follow from their code. `GasChecker` uses both to
measure what bundles cost.

| Component | State | Operations | Talks to |
|---|---|---|---|
| `StakeManager` | `deposits[a]`: deposit, stake, its lock; the contract's ether | `depositTo`, `receive`, `addStake`, `unlockStake`, `withdrawStake`, `withdrawTo` | sends ether to any receiver, in the middle of an operation |
| `EntryPoint` | that of StakeManager; inside a transaction, the bundle in progress | `handleOps`, `handleAggregatedOps`, `innerHandleOp`, `simulate*`, `getSenderAddress` | factories, accounts, paymasters, aggregators, the beneficiary |
| `SenderCreator` | none | `createSender` | factories |
| `Helpers`, `UserOperationLib` | none | packing, parsing and intersecting validation data; gas price | used by EntryPoint and paymasters |
| `BaseAccount`, `SimpleAccount` (+ factory) | owner, nonce | `validateUserOp`, `execute`, `executeBatch`, deposits | called by EntryPoint; sends it the prefund |
| `DepositPaymaster`, `TokenPaymaster`, `VerifyingPaymaster` | token deposits and locks; own tokens; a nonce per sender | `validatePaymasterUserOp`, `postOp`, deposits | called by EntryPoint, once before and once or twice after an operation |
| BLS account, aggregator, `BLSHelper` | public keys | aggregate and check signatures; curve arithmetic | called by EntryPoint and off the chain |
| Gnosis manager and fallback | the Safe's modules | `validateUserOp`, `executeAndRevert`, `replaceEIP4337Manager` | a Safe and EntryPoint |
| `BatcherAccountable` | `depositFunds`, `batchHashes`, `disputes` | `fund`, `enroll`, `executeTransactions`, `openDispute`, `resolveDispute`, `claimDisputeCompensation` | the relayed targets; users |
| its owner, off the chain | promises signed, batches relayed | accept, relay, resolve | users and BatcherAccountable |
| `HashBatcher`, `IndividualHashBatcher`, `TwoFactorHashBatcher`, `Batcher` | commitments, throw-away accounts | `enroll`, commit, `executeTransactions` | throw-away accounts and their targets |
| `ThanksPay`, `ThanksPayERC20` | companies, workers, balances | register, request an advance, pay salaries | relayed by the batchers |
| `queueUserOpSender` | a queue per sender, its size and age, a timer; `sending`, which all queues share | enqueue, `push`, `setInterval`, `cancelInterval` | a node, which mines or refuses a bundle |
| `AASigner` | the account, whether it is a phantom; per call the operation, a listener, a promise | `sendTransaction`, `connectAccountAddress`, `syncAccount`, `userEventResponse` | the node, a `SendUserOp`, events of EntryPoint |
| `UserOp.ts` | none | fill, pack, hash, sign | used by AASigner and GasChecker; the node's estimates |
| `Create2Factory` | `factoryDeployed`; on the chain, what has code | `deploy`, `deployFactory` | a node that mines at once or later |
| `GasChecker`, `GasCheckCollector` | the one collector and its promise, accounts and deposits, estimates, the table | `init`, `addTestRow`, `createAccounts1`, `runTest`, `doneTable` | mocha, Create2Factory, EntryPoint |

What makes the components correct, and is hard:

* **StakeManager.** All ether is owed to somebody and nothing more is owed; a
  stake never gets out early nor gets stuck. Hard, because a withdrawal hands
  control to its receiver, who may enter every function again, and may then fail
  and have all of that undone.
* **EntryPoint.** The same ledger with prefunds taken, partly refunded, and fees
  in flight; a paymaster that asked for `postOp` gets it, whatever the operation
  did; every bundle ends. Hard, because there are eight calls out, no reentrancy
  guard, and two levels of revert (`innerHandleOp`, and the bundle).
* **BatcherAccountable.** Compensation is paid at
  most once per dispute, and never for a resolved one. An owner that keeps its
  promises can close every dispute. Hard, because disputes are replaced, resolved
  and claimed in any order while batches are relayed by anyone, and because two
  numbers are both called a nonce.
* **Accounts.** No operation is executed twice. Across EntryPoint's validation and
  execution loops, and with the operation that creates the account not using up
  a nonce.
* **Paymasters.** The paymaster is paid for what it sponsored, once, although the
  operation, and other bundles inside of it, run between its check and its charge.
* **Hash batchers.** Only a committed batch is executed, once. The
  commitment is compared after the transactions ran.
* **ThanksPay.** Advances stay within what workers earned and companies fund,
  while balances are reset and topped up in between.
* **The queue.** Requests of an account leave in order and once, one per account in a
  bundle and one bundle at a time, and none is left behind. Hard, because timers fire
  while a push awaits the node, and any await may fail.
* **AASigner.** What a response reports was executed; the operation sent is complete, signed
  as it is, and valid if nobody interfered; every execution is noticed. Hard, because calls overlap
  at some ten awaits, read the account at several of them, and listen to events
  that come early, late, or by two ways.
* **Create2Factory.** Whoever got an address finds code there. Hard, because
  it asks first and sends later, and waits for only one of three transactions.
* **GasChecker.** The table that is written has the rows of all tests and their numbers
  mean what the header says. Hard, because every file starts the collector, little is
  awaited, and two variables of the module outlive a test.
* **BLSHelper.** Projective addition and doubling agree with the curve's group,
  at infinity and for equal points as well.

## 2. Modules

| Module | Models | EXTENDS or instantiates |
|---|---|---|
| `StakeManager` | `core/StakeManager.sol` | |
| `EntryPoint` | `core/EntryPoint.sol`, with `SenderCreator`, the prices of `UserOperationLib` and the verdicts of `Helpers` | `SM == INSTANCE StakeManager` |
| `BatcherAccountable` | `ICSOC/BatcherAccountable.sol` | |
| `DisputeProtocol` | the batcher together with an owner who keeps its promises (`test/ICSOC/Accountable`, `UMLs`) | `BatcherAccountable` |
| `ValidationData` | `core/Helpers.sol`, and how `EntryPoint` reads its words on the chain and in simulation | |
| `SponsoredBundle` | `EntryPoint` as one paymaster sees it | |
| `DepositPaymaster` | `samples/DepositPaymaster.sol` with one token | `SponsoredBundle` |
| `TokenPaymaster` | `samples/TokenPaymaster.sol` | `SponsoredBundle` |
| `Outbox` | what the queues of `src/AASigner.ts` promise | |
| `UserOpQueue` | `queueUserOpSender`, `sendQueuedUserOps` | `O == INSTANCE Outbox WITH ...`, the refinement mapping |
| `UserOp` | `test/UserOp.ts` (and its copy `ICSOCstuff/UserOp.ts`) | |
| `AASigner` | `class AASigner`, `rpcUserOpSender`, `localUserOpSender` | `UserOp` |
| `Create2Factory` | `src/Create2Factory.ts` and the chain it deploys to | |
| `GasChecker` | `gascalc/GasChecker.ts` under mocha | `Create2Factory` |
| `RecursionTheorems` | theorems about `SumFunctionOnSet` and `FlattenSeq` of the community modules | |
| `CoreProofs` | theorems about the stakes and about the validation data, the parts of `core` that `EntryPoint` is built on | `StakeManager`, `ValidationData` |
| `AASignerProofs` | theorems about the signer and about the queues, which are of one file | `AASigner`, `UserOpQueue` |
| `EntryPointProofs`, `DepositPaymasterProofs` | theorems | the module each is about, `RecursionTheorems` |
| `TokenPaymasterProofs` | theorems | `TokenPaymaster` |
| `GasCheckerProofs` | theorems about `deploy` and about the measurement | `GasChecker`, `RecursionTheorems` |
| `BatcherAccountableProofs` | theorems about the batcher, and about the owner who keeps its promises | `DisputeProtocol` |
| `MCStakeManager`, `MCEntryPoint`, `MCBatcherAccountable`, `MCDisputeProtocol`, `MCValidationData`, `MCDepositPaymaster`, `MCTokenPaymaster`, `MCUserOpQueue`, `MCAASigner`, `MCGasChecker` | small instances | the module each is about |

### StakeManager and EntryPoint

`ledger` is everything a revert undoes: `deposits` and `balance` are the
contract's storage and ether, `deployed` the addresses that have code. `claim`,
`committed`, `unlockedAt` and `effects` are history: what an address paid in and
did not take out, the lock it agreed to, and what bundles executed.

`frames` is the stack of calls out of the contract. In every state either
*outside code* has control (between two transactions, or in a call out), and may
then call any public function or return; or the contract has, and goes on with
the bundle in the innermost frame. A step is what the contract does from
one such point to the next. A frame saves the ledger its operation was
entered with, so that a failed operation takes back everything inside of it:
`SendReturns(FALSE)` is a failed `require(success)`, `Revert` a failed
bundle, and `InnerReverts` a failed `innerHandleOp`, which takes back only what
was done since `inner` was saved.

A bundle's `pc` is the call out it waits in, or the step that is next:

| pc | code | next |
|---|---|---|
| `validate` | head of a loop | `Validate` for the next operation; when all are validated `Execute`; when all are settled `Compensate` |
| `create` | `senderCreator.createSender` | `CreateSenderReturns` |
| `account` | `validateUserOp` | `AccountReturns`, `ValidationFails` |
| `paymaster` | `validatePaymasterUserOp` | `PaymasterReturns`, `ValidationFails` |
| `call` | `Exec.call` of the account | `CallReturns` |
| `postOp` | first `postOp`, inside `innerHandleOp` | `PostOpReturns` |
| `postOpReverted` | second `postOp`, outside of it | `PostOpRevertedReturns` |
| `settle` | end of `_handlePostOp` | `Settle` |
| `compensate` | send to the beneficiary | `CompensateReturns` |

Abstractions, and why they are harmless:

* An operation keeps the fields that decide who pays and how much; `initCode` and
  `callData` are present or not. The nonce and signature are the account's
  business: it returns any verdict of `Verdicts`, or fails.
* Called code may do whatever outside code may do. It uses an amount of gas
  chosen from `GasUse`, and that amount is all that is left of the gas accounting.
  A bundle whose gas does not suffice for an operation is `OutOfGas`.
* An account sends its missing funds by `DepositTo`, any amount and any number of
  times; the argument `missingAccountFunds` is not passed to it.
* Solidity's check that a called address has code is part of the guard, because it
  reverts the bundle where the called code could not have.
* `validateSignatures` is a static call before anything happens; a bundle whose
  aggregator refuses is one that was never entered.
* A called contract that calls the EntryPoint in a sub-call and lets that
  sub-call fail is not modelled: undoing the call gives the state as it was
  before it.

### BatcherAccountable and DisputeProtocol

Each public function is an action, the owner's signatures are `SignPromise`. Ether
is counted in halves. A hash is what was hashed, so that two batches have the same
hash only if they are the same; the stored hash of an array of transactions does
not include the target contract or the signatures, as in the code.
`claimDisputeCompensation` is one action although it calls out: `transfer` leaves
the receiver 2300 gas, too little to call. The relayed calls of
`executeTransactions` are assumed to succeed (or nothing happened), and their
targets not to enter the batcher.

In `DisputeProtocol` the owner gives each accepted transaction the next position
of the current batch, relays batches under consecutive numbers before their
promises are due, and may resolve disputes; users dispute whatever they hold a
promise for. The owner's program is not in the repository: it does what the test's
first case does, repeatedly.

### ValidationData

A word is an integer below `AddressSize * TimeSize^2`; shifts and masks are divisions
and remainders. The state is the pair of words that an account and a paymaster
returned, and the time; `Accepted` is the check that
`_validateAccountAndPaymasterValidationData` makes of them, and `Simulated` what
`simulateValidation` reports. The two read the words by different ways: the
first skips a word of zero and never intersects anything.

### SponsoredBundle and the paymasters

`chain` is what a revert undoes; each paymaster module says which fields it
has. `bundle` is the innermost bundle in progress: the operations and contexts not settled
yet, and up to two saved chains, the one before the bundle (`saved[1]`) and the one
before the inner call (`saved[2]`). `outer` are the bundles in whose validations and calls it
runs: `handleOps` has no reentrancy guard, so that `HandleOps` is possible wherever called code has
control, and the code that called goes on where it was when the inner bundle is over (`Leave`) or
undone. All operations are validated first; each is then
called, and settled by a `postOp`, or undone by `InnerReverts` and settled by the
second `postOp`, or the bundle is undone. `InnerReverts` is possible whenever the
inner call runs, since it fails with its `postOp` and also when gas or prefund run
out; `BundleReverts` is possible throughout a bundle. While accounts validate
and execute, everybody may do anything with tokens, locks, deposits and
ownership, or send a bundle: each such call, and each operation of such a bundle, takes one
from the `budget` of `CallBudget` that a transaction has. Factories, aggregators and paymasters other than the one that is
modelled would be more code that does the same; the paymaster's own validation and `postOp` call a token and
an oracle only.

In these modules an operation has a sender and a `maxCost`; gas used by it costs
any amount that leaves room for the `postOp`. That much is in the prefund:
`verificationGasLimit` exceeds `COST_OF_POST`, and is contained three times
in the prefund of a sponsored operation (`EntryPoint.sol:320-329`). An ERC-20 token is external; it
has no hooks. Users of DepositPaymaster approved transfers by it: a call that fails for want of an approval need
not be made, and a first `postOp` that fails so is an `InnerReverts`.

Two fields of DepositPaymaster's chain are history, and begin anew with each transaction: `charged` is what was
taken from an account's deposit, and `owed` what its operations agreed to pay less what it paid for them. They are
undone with the rest of the chain. `PaidAsAgreed` says with `owed` that no operation is charged twice or too much:
the first `postOp` that `InnerReverts` undoes is gone, and the second one pays in its place. `DepositCovers` says with
`charged` what is left of the promise at line 151 of the contract, see section 5.

### The clients

JavaScript has one thread: what stands between two awaits is one step, and
everything else may happen at an await. A call is a record whose `pc` names the await it
is at. In these modules the node is external. It answers or fails, and a chain is
what it answers from.

**UserOpQueue.** A push is a call of `sendQueuedUserOps` beyond its first await; one that
returns before leaves everything as it was, `sending` included, since nothing can
come between. `StartPush(q)` is that first part, by the timer of `q` or by a call of
`push`. `SetInterval` may come at any time, as any client may call it. A push that fails
rejects a promise that `setInterval` ignores, which ends the process in some versions of
Node: hence `alive`. `queueSize` is `NaN`, which is what it is in the code; it is
undefined until the first `++`. A request is its sender and a number; `handed` is
history. `Outbox` has the promise of the NOTE at lines 113-114, the order of requests and the
one bundle at a time. The refinement mapping takes the outbox's `sending` to be that a push is in
progress, instead of the variable of the code, the others as they are, and hides ages, timers, sizes and
the awaits of a push: a guard that let a second push by would make a step that is none of the outbox.

**UserOp and AASigner.** An operation is a record, `Null` a field left out, a hash is what
was hashed, so that two hashes are equal only if the operations are. `fillUserOp` is divided
at its awaits into operators with the node's answers as arguments; `AASigner` has the steps. The
await of `Populated` is the one of `populateTransaction`, between the look at `_isPhantom`
and the one at `_account`; `Filled` is everything from the estimate of the call to
the subscription. These questions only read, and nothing that they ask for tells the properties apart.
A listener is modelled by what it got (`told`), the invocations of it that are waiting
(`heard`) and what became of the promise; an event may be brought by the subscription
and by the timer. `Execute` is the bundler and the EntryPoint, which take an
operation whose nonce is next, in a block of its own; `Drop` is an operation that is
refused after it was accepted. `alone` is history: a call began when the signer was not busy, and no other has begun since.

**Create2Factory and GasChecker.** `automine` is chosen at the start: a transaction
is executed when it is sent, as by Hardhat, or is put into a pool from which any may be
mined, as by geth. `Mined` is what the chain does: `factoryTx` needs the fee and can be executed
once, and a call of an address without code succeeds and does nothing, which is why
`deploy` looks again. `Caller`s have an instance of `Create2Factory` each.
`GasChecker` adds the collector (`inst`, `initPromise` and what waits for it), mocha (`run`),
and accounts with deposits. Gas is what it was used for, instead of a
number: `gasUsed` is the file and the number of operations, so that a difference of two
shows what was subtracted; an estimate is `"execute"`, or `"nothing"` where there was no
code to call. `TimesOut` is mocha's timeout; with `--bail` (`package.json:14`) the hook
`after` comes next, and `process.exit(0)` ends everything.

## 3. Runs

| Run | Checks | Shows |
|---|---|---|
| `stake` | `TypeOK`, `Solvent`, `ClaimsBacked`, `StakeRecoverable`, `StakeReleasedWhenDue` | no order of operations, re-entries and failures loses or moves ether, or gets a stake out early or stuck |
| `bundles` | `TypeOK`, `Solvent`, `ClaimsBacked`, `PaymasterHonoured`, `TransactionsEnd` | the same with bundles in flight, and bundles inside of bundles; of a sponsored operation exactly one `postOp` stands; every transaction ends |
| `disputes` | `TypeOK`, `PaidOncePerDispute`, `ResolvedNeverPaid` | no order of disputes, resolutions, claims and batches pays a dispute twice, or a resolved one |
| `promises` | `KeptResolvable` (violated) | an owner that kept a promise cannot close a dispute about it, if the position is not the batch's number |
| `validation_data` | `WordsOK`, `RoundTrip`, `SimulationExact`, `FailureReported` | packing loses nothing; the simulated range is exactly the accepted one; no failed signature passes |
| `deposit_paymaster` | `DepositsBacked`, `DepositCovers`, `PaidAsAgreed`, `LockHolds` | whatever accounts do between validation and the second `postOp`, an operation is charged once, and the deposit that was validated is touched by charges of the same account only |
| `deposit_nested` | `ValidatedDepositPays` (violated) | such a charge, by a bundle inside of the bundle, leaves too little for the second `postOp` |
| `token_paymaster` | `TokensCover`, `OnlyOwnerWithdraws` | a single operation cannot escape its charge, not by a bundle of its own either; the right to withdraw follows the ownership |
| `queue` | `TypeOK`, `InOrderOnce`, `OneBundleAtATime`, `Outbox`, `QueuedIsSent` | the queues implement the outbox through overlapping timers and failures, and leave nothing behind |
| `queue_threshold` | `ThresholdSends` (violated) | a queue that is full enough waits all the same |
| `signer` | `ReportsTruth`, `SignedAsSent`, `AloneIsValid`, `StaysConnected`, `Noticed` | overlapping calls, lost answers and events told twice or late do not make a response wrong, or leave it open |
| `gas_checker` | `ReturnedIsDeployed`, `TableComplete`, `DeltaForOneOp`, `OverheadOverExec`, `AlonePasses`, `TableWritten` | concurrent deployments end in a deployed contract; the table has what was measured, however the run ends, and is written once there is an estimate |

### Bounds, and why they suffice

* `stake`: two addresses (whose, and whose not), amounts 0 to 2, three wei in the
  world of which a field holds two (so that overflow happens), delays 1 and 2
  (so that one may be shortened), time 1 to 4 (unlock, wait, withdraw, and a time
  too late to unlock), calls nested twice, with `CallBudget` calls made by the
  receivers of a transaction.
* `bundles`: one account and one paymaster; bundles of a self-paid and a
  sponsored operation, of one that creates its account, and of one with oversized gas; an aggregated and a
  plain group; verdicts that are valid, not due at first, or name an aggregator. A gas unit costs one wei, and
  every call uses none or three: one is more than the prefund of 2 of a self-paid operation, two are more than
  the 4 of a sponsored one, so that costs exceed prefunds inside of `innerHandleOp` and after it. A bundle
  within a bundle, or a withdrawal, or a deposit that makes a refund overflow.
* `disputes`: two users, two promises at different positions, four batches of which
  one is empty, two batch numbers, a day of two ticks, ether for the owner's
  deposit and either a second one or two disputes.
* `promises`: two batches of up to two transactions of two kinds.
* `validation_data`: all pairs of words of three addresses (none, the failure, an
  aggregator) and four timestamps. The theorems hold for all widths.
* `deposit_paymaster`: two accounts that are interchangeable, an owner, a token each;
  bundles of up to two operations, in each transaction two calls or operations of bundles by others, one bundle inside of
  another, and two blocks, since a lock
  opens with the next one. A bundle has one operation of each sender, as
  `eip-4337.md:263` asks of bundlers (`OnePerSender`); several such bundles may be in progress.
* `deposit_nested`: the same with one call by others, and one block: the shortest way to the violation is
  a bundle of two operations whose second sender, in its validation, sends a bundle of the first.
* `token_paymaster`: an account, two owners, bundles of one operation, one inside of another, up to four
  tokens, two calls by others in a transaction. For bundles of several the contract
  documents at lines 14-17 that `TokensCover` fails.
* `queue`: two queues over two accounts of two requests each, so that one bundle can hold
  both, requests of an account go through both queues, and the next request waits while a push is in
  progress; `IDLE_TIME` of two ticks; the threshold of the code.
* `signer`: two calls and a call of `connectAccountAddress`, an address without code
  and an existing account; a transaction that leaves everything to the signer and one that
  sets nonce, gas and price. Two blocks with an operation, so that both are executed, in
  either order, or one, or none. Answers, events and the timer come in any order.
* `gas_checker`: two files, of which one is the warmup without a row, bundles
  of one and two operations, one other program that deploys a contract; a chain
  without the factory, with it, or with all contracts and the accounts of an earlier run,
  whose deposits are at or above the limit.

Time, ether, call depth and calls per transaction are bounded, so a behaviour
may come to a stop; deadlock is not checked in these runs. `TransactionsEnd` is
what takes its place for EntryPoint.

### Fairness

`bundles`: `WF_vars(OutsideReturn \/ ContractStep)`. Gas
is finite. A called contract that neither returns nor fails runs out of gas, and
fails; it cannot enter the contract for ever, which is what `CallBudget` stands
for. Nothing is assumed of who sends transactions, nor of time.

`queue`: a running timer fires again and again, so that a push that stays possible is begun
(`WF_vars(timer[q] /\ StartPush(q))`), the node answers a push, with a result or an
error, and time passes. Weak fairness of `StartPush` is enough only because requests end:
then `sending` is false for good at some time. With requests that never end a queue
could starve, since another queue's timer may be first each time.

`signer`: every call and every listener goes on (`CallStep`, `ListenerStep`; JavaScript's
event loop serves all of them), and the bundler decides each operation that it took. Nothing is
assumed of the bundler executing one, of `NodeFails`, nor of anyone making a call.

`gas_checker`: the program goes on, the node mines what is in its pool, and a `deploy` that began
goes on. No fairness of `TimesOut`.

## 4. Proofs

`CoreProofs` has two parts. The first is about `StakeManager`, for any number of addresses, amounts, delays, field
sizes, call depth and budget (`StakeConstants`):

* `Typed`, `Solvency`, `NoTransfer`, `NoStuckStake`: the four invariants of `stake`.
* `ReleasedWhenDue`: its action property.

The inductive invariant `IInv` is `TypeOK` together with `LedgerOK` for the ledger
*and for the saved ledger of every frame*, without which a revert could restore
anything. `LedgerOK` is `Solvent`, `ClaimsBacked` and `Locks`; the last one ties
`committed` and `unlockedAt` to the delay and the withdraw time of each entry, and
is what the two properties of stakes follow from. `Solvent` speaks of the sum over
all addresses, which here is stated with the sequence of partial sums; `ShiftedSum` shows that the
partial sums follow when one term changes. Each operation gives the entry of one address a new value
(`EntryOK`), and may send ether away (`SendOK`).

The second is about `ValidationData`, for any two widths (`WidthConstants`): `WordsTyped`, `RoundTrips`,
`SimulationIsExact` and `FailuresReported`. Words are taken apart by the lemmas
`Split` (the two parts of a number in base n are unique) and `PackedFields`;
`ReadAsParsed` shows that skipping the zero word makes no difference, and
`Intersection` that a time is in the intersected range if and only if it is in both.

`RecursionTheorems` is about `SumFunctionOnSet` of the community modules, a recursive function on the subsets
of a finite set that picks the members in an arbitrary order. The induction theorems of the library take
an operator and cannot be used, but `WFMin` takes a set: of the subsets for which a statement fails, one has no
other inside of it. By such minimal counterexamples the recursive function exists and is unique
(`SumsUnique`), a sum does not depend on the order, changes by as much as one term (`SumChange`), and is
additive and monotone. The sums in `EntryPoint` and `DepositPaymaster` are
written with it. In the same way `FlattenSeq`, which recurs over the numbers up to a length, is shown to
append the last sequence to what the others give (`FlattenSeqStep`); bundles of several groups and the table of
GasChecker are written with that one.

`EntryPointProofs`, for any accounts, paymasters, aggregators, operations, gas, field sizes,
call depth and budget (`EntryPointConstants`): `TypeCorrect`, `EtherAccounted`, `ClaimsKept`, and
`PostOpGuaranteed`, which are all invariants of `bundles`. `IInv` consists of

* `Good(ledger, frames, Len(frames))`: the claim of each address is what it is owed on the books plus the
  prefunds that the frames hold of it, the ether is the sum of the claims and the fees, and of the
  operation each frame has in progress (`InProgress`) no more stands than the place it waits in says;
* `StackOK(frames)`: each frame is where its `pc` says (`FrameOK`), and *each saved ledger* is `Good`
  for the frames that a revert to it leaves. For the ledger saved at the entry of frame `k` these are
  the `k - 1` below it; for the one that `innerHandleOp` goes back to they are the `k` frames with the
  top one as it was then (`Paused`).

The properties speak of the current ledger only, and are not inductive: a revert may put back
anything of which nothing is known. A step of the contract or of outside code changes only the top frame and the
ledger, so that what is known of the frames below it is carried over (`HeldUpTo`, `FeesUpTo` are sums up to a
depth); what is left for each action is one line of bookkeeping, a prefund taken, refunded or
collected.

`BatcherAccountableProofs`, for any users, transactions, batches and promises
(`BatcherConstants`): `Typed`, `OnePayment` and `ResolutionFinal`, the two
invariants and the action property of `disputes`, and `DiagonalResolvable`, under `ProtocolConstants`: what is
left of `KeptResolvable`, that the owner can close a dispute about a promise that it kept if its position is the
number of its batch. `IInv` adds to `TypeOK` and `PaidOncePerDispute` that `depositFunds` is at most `balance` (a
claim then cannot leave the range) and that a resolved dispute is closed. `DiagonalResolvable` rests on
`HashesStand`: the owner has relayed batch `k` under the number `k`, and no hash was overwritten.

`AASignerProofs`, for any calls, transactions, deployed accounts and number of blocks
(`SignerConstants`): `AllSigned`, `Truthful`, `ConnectedForGood` and `AloneValid`, the invariants of
`signer`. `IInv` says of every call (`CallOK`) that it listens and has a result only once its operation is
filled in and signed, and that each running listener holds an event of the log that is the call's own and,
where it asks for a reason, of a failure: `ReportsTruth` alone does not say where a result will
come from. `ConnectOK` adds that after an undisturbed connection no call is about to set the
account. `OneCall` reduces a step of a call to what it does to that call; `FilledIsSigned` uses
that the hash leaves the signature out (`HashWithoutSignature`). `AloneValid` needs an invariant of its
own, `AloneInv`: while a call is alone, every other one is over, nothing is on its way but what it sent
itself (`Solo`, `Fits`), and at each of its awaits what it knows agrees with the signer and the chain: that it is about to
ask for the code of the very account that is set, that a phantom is the counterfactual account, that the nonce is
the one of the chain. `AloneIsValid` speaks of the end of this only.

Its second part is about the queues, for any queues, accounts, number of requests and threshold
(`QueueConstants`): `Typed`, `Ordered` and `OneAtATime`, the three invariants of `queue`, and
`Implements`, that every behaviour of `UserOpQueue` is one of `Outbox`. `QueueIInv` adds to
the three that every number in a queue or handed out is at most `made` (a new request is then larger
than all before it). The refinement needs `OneBundleAtATime`: a push that starts is the
outbox's `Leave` only if there is none, and one that ends is its `Over` only if no other is left. Starting a push is `Leave` with the accounts whose queue is not empty; awaits,
timers and ages are stutters.

`DepositPaymasterProofs`, for any accounts, tokens, rates, operations, bundles and depth of bundles
(`DepositPaymasterConstants`): `Backed` and `DepositSuffices`, two invariants of `deposit_paymaster`, and
`LocksHold`, its action property. `IInv` says of the chain *and of the saved ones of every bundle in progress* that
the deposits are covered by the paymaster's tokens (`ChainOK`), and (`Covered`) of the chain and of every saved one that a revert may
bring back while an operation is validated, that the deposit and what was charged to it since are its `maxTokenCost` at
least, and that the lock is closed or was opened in this block (`Covers`). A revert of a bundle brings back what it found, which
has to do for the bundles around it; a revert of an inner call brings back what it found to its own bundle too. A withdrawal needs a
later block, so that users' steps keep `Covers` (`Spares`), and a charge takes as much from the deposit as it adds to what was charged. `DepositSuffices` has
the hypothesis that an operation is not free or its `postOp` costs something (`PostCost # 0 \/ 0 \notin MaxCosts`):
without it the code divides by zero (section 5). `Backed` and `LocksHold` do not need it, and none of the three needs
`OnePerSender`.

`TokenPaymasterProofs`, for any accounts, owners, amounts, rates and depth of bundles (`TokenPaymasterConstants`): `OwnerOnly`
for bundles of any size, and `TokensSuffice` for bundles of one operation that is not free, the invariants of
`token_paymaster`. For `OwnerOnly`, `IInv` says of the chain *and of every saved one* that while there is an owner
nobody else is allowed to withdraw: undoing an operation brings back both the owner and the allowance. `TokensSuffice`
rests on `Covered`: an operation that is alone is started on the chain it was validated on, that
chain has its tokens, and when the inner call is reverted it is the chain again (`Undone`), with every bundle that ran inside of the call
taken back, on which the second `postOp`
charges no more than was validated (`ValueMonotone`). `FrameOK` says so of each bundle in progress, since the one
that waits for an inner one goes on as it was. Both hypotheses are needed: with two operations the
first may take the tokens of the second (lines 14-17 of the contract), and a free one
is charged for `COST_OF_POST` all the same (section 5).

`GasCheckerProofs`, for any files, callers of `deploy`, tests and rows: `DeployedWhenReturned`, `TableIsComplete`,
`DeltaIsForOneOp`, `OverheadIsOverExec` and `TestsPassAlone`, invariants of `gas_checker`. The assumptions are
`CheckerConstants` (each file and the run have a `Create2Factory` of their own, there is a test, and a test
has a row) and `TestsAsWritten` (a row that shows a difference follows one of the same test with one operation less,
as in all files of `gascalc`; nothing in `GasChecker.ts` sees to it). The parts of `IInv`:

* `FactoryOK`: who believes the factory to be deployed is right, since code stays; on a node that mines at once
  nothing waits in the pool.
* `OneCollector`, `OneDeploy`: all files wait for the one promise, and of the program's calls of `deploy` only one is
  in progress: that of the collector, and once there is one, that of the run.
* `LastIsPrevious`: `lastGasUsed`, a variable of the module, is the bundle of the row before, although tests
  and files share it.
* `AccountsReady`, `EstimatesOK`: on a node that mines at once every account that a test has come to exists and
  can pay for an operation, hence estimates are of a call, and so is the one that outlives a test.
* `TableOK`: the rows of the collector match, one by one, the rows that are to be added before the place that the
  run is at (`Expected`), and while there is no collector the run is at the first. A table that is written is the
  collector's, also when a test failed or took too long. `ExpectedNext` shows that a bundle's end adds one row
  or none to what is expected, within a test and from one test to the next.
* `AloneOK`: what a call of `deploy` knows at each of its awaits (`Progress`) is still true when nobody
  else deploys, so that it does not throw, the collector starts, and no test fails.

`AlonePasses` has the hypothesis that the other callers have not begun; `AloneOK` is about the same states, which
no step enters again once they are left.

Every invariant that a passing run checks but one, its action properties and the refinement of `Outbox` are proved. Model-checked
only: `PaidAsAgreed`, and `TransactionsEnd`, `QueuedIsSent`, `Noticed` and `TableWritten`, since liveness under fairness is beyond the
proof system. `ThresholdSends`, `KeptResolvable` and `ValidatedDepositPays` are violated.

## 5. What is not modelled

* `simulateHandleOp`, `simulateValidation` and `getSenderAddress` always revert:
  they leave no trace on the chain.
* The contract running out of gas in the middle of its own code, where a whole
  transaction reverts. `OutOfGas` is the check that the code makes for it.
* Events, revert strings, hashing and packing of operations.
* `enroll` of BatcherAccountable: nothing reads what it stores.
* In `DisputeProtocol`, other relayers. `executeTransactions` may be called by
  anyone, and a number can be used again; the stored hash is then another one.
* The hubble BLS library (vendored), pairings, the token callback handler
  (constants).
* `AAProvider`, `signMessage`, `signTransaction` and `connect` of AASigner, which only throw or
  only hold a contract. `getAddress`, `getAccount` and `isPhantom` are `syncAccount`, which calls of
  `sendTransaction` also do.
* A node that fails a call made by a listener of AASigner (lines 279, 294, 304, 323):
  the promise of the response is then never settled, and nothing in the code claims that it is.
* Gas limits, as numbers, in Create2Factory and AASigner; the paymaster and the destinations of GasChecker.
* `src/runop.ts`, the deploy scripts, `UMLs/latency.js` and the configuration files: straight lines of
  requests to a node, and no state of their own.

Three runs show a disagreement of code and documents:

* `queue_threshold`: `queueSize` is never initialised, and a full queue waits until it has been idle
  (`AASigner.ts:133`, against line 123).
* `promises`: `resolveDispute` compares a batch with `batchHashes[nonceId]` (`BatcherAccountable.sol:187`), where
  `nonceId` is the position of the transaction and a dispute does not have the number of the batch; `UMLs/dispute.wsd:28` says
  "hash(txData[])== hashes[batchNonce] ?". An owner that kept its promise can show it only if the two
  are equal, which is what `DiagonalResolvable` proves.
* `deposit_nested`: `DepositPaymaster.sol:151` says that the second `postOp` uses "the deposit to pay (which we validated to be large
  enough)". A bundle of one operation each of two accounts is validated; code that it calls sends
  another bundle with an operation of one of them, whose charge empties the deposit. The second `postOp` of the outer operation
  subtracts too much from it (line 163) and takes the outer bundle with it. `DepositCovers` says that only such charges of the same account can do that.

Some things seen while modelling that no run is about:

* `handleAggregatedOps` calls `_validateAccountAndPaymasterValidationData(i, ...)` with the index inside
  of a group (`EntryPoint.sol:155`), so that an error of a later group names another operation;
  `IEntryPoint.sol:56` says "index into the array of ops to the failed one".
* When `innerHandleOp` reverts with fewer than 32 bytes, `returndatacopy(0, 0, 32)` halts `handleOps`
  (`EntryPoint.sol:67`): a `postOp` that reverts without data takes the bundle with it.
  `eip-4337.md:203` says that `handleOps` guarantees the execution of `postOp` by "attempting to call
  `postOp` again in an outer call context". It is the outcome `"revertedWithoutData"` of `PostOpReturns`.
* With a gas price of zero, DepositPaymaster's `_postOp` divides by a `maxCost` of zero in both modes
  (`DepositPaymaster.sol:157`), while line 151 says of the deposit that "we validated [it] to be large
  enough". The run has operations with a price.
* `UMLs/dispute.wsd:32` lets the owner claim the user's deposit when a dispute is closed, and line 37 returns
  it with the compensation when it is not. The contract has no function for the first; `claimDisputeCompensation`
  pays one ether, the compensation (`BatcherAccountable.sol:198`), and takes one off `depositFunds`: the deposit of half an ether stays in the contract.
* `onlyIfFunded` (`BatcherAccountable.sol:35`) compares an ether with the whole
  balance, the deposits of users included, though claims are paid out of
  `depositFunds` alone. When two disputes come due and the owner funded one, the
  second claim fails (`Due` without `Payable`), while batches are relayed as before.
* `simulateValidation` loses a paymaster's signature failure when the account named an
  aggregator, since the intersection keeps the account's
  (`Helpers.sol:36-38`), while `IEntryPoint.sol:151` says that `sigFailed` tells of
  both. This is why `FailureReported` excepts that case.
* Two operations of one account in a bundle are both validated against its whole
  deposit in DepositPaymaster. `eip-4337.md:263` has bundlers prevent that, but they cannot for a bundle that
  called code sends.
* `TokenPaymaster.sol:109` adds `COST_OF_POST`, an amount of gas, to an amount of wei. With
  a gas price of zero the charge exceeds the prefund of zero, and
  `TokensCover` fails; the run has operations with a price.
* `renounceOwnership` is inherited by TokenPaymaster and does not revoke the
  owner's allowance, unlike `transferOwnership`. `OnlyOwnerWithdraws` speaks of times
  when there is an owner.

* AASigner asks for `UserOperationRevertReason` events by the sender (line 304); their first topic is the
  hash. It finds none, so that a failed operation resolves the response, with status 0, and never rejects it.
* An event in a block that is not later than the listener's late answer (272, 279) is ignored, and
  `wait()` never returns. `Noticed` is about later blocks.
* Two equal operations sent at the same time have one hash. Both responses report
  the one execution. By RPC, `sendTransaction` returns before the operation is executed, and the next one takes the same
  nonce from the chain.
* `connectAccountAddress` and a first call of another method overwrite each other's account (229, 357).
  `StaysConnected` excepts that they overlap.
* The address that AASigner computes is that of a proxy whose implementation is zero (line 243), which
  cannot be created, and the salt is always zero, so that `index` does not tell accounts apart.
* On a node that does not mine at once, `deployFactory` fails with too little money or with 'fatal', since it
  waits for nothing (101-107); a second `deploy` of the same contract at the same time throws (line 25
  has a note). `AlonePasses` excepts both.
* `doneTable` prints the estimates first, and `table` throws on an empty list (`GasChecker.ts:345`): when the first test fails
  before it has an estimate, there is no table and the hook fails. `TableWritten` is about runs with an estimate.
* A collector that fails to start stays so (`GasChecker.ts:269`), and `process.exit(0)` in the hook
  (351, 369) reports success whatever test failed.

## 6. Plan

In this order; the first four compose with what is here.

1. `Settlement`: the abstract promise of EntryPoint: an operation is agreed to,
   charged once, executed at most once, and settled, or leaves no trace.
   `EntryPoint` and `SponsoredBundle` shown to implement it, with a refinement mapping
   that hides the call stack.
2. `SimpleAccount`, composed with the two loops of EntryPoint: an operation is
   executed at most once per nonce; the operation that created the account is not
   executed again; only the owner or EntryPoint executes. The account sends
   `missingAccountFunds`. A run over two operations of one sender in a bundle.
3. `HashBatchers` (the three of them over one set of operators, with targets that
   call back) and `Batcher`: executed batches were committed to, and how often
   each is executed.
4. `ThanksPay`: advances against chargeable balances, over salary days.
5. `BLSHelper`: addition and doubling in Jacobian coordinates over a small prime
   field, checked against the affine group law for all points.
6. `VerifyingPaymaster` (its nonce per sender), `DisputeProtocol` with others
   relaying, and the Gnosis manager's replacement, each in the run of the module it
   extends where that is possible.
