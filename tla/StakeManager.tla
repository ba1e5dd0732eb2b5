---------------------------- MODULE StakeManager ----------------------------
(***************************************************************************)
(* The deposit and stake ledger of the EntryPoint contract                 *)
(* (contracts/core/StakeManager.sol).                                      *)
(*                                                                         *)
(* In every state of this specification code OUTSIDE the contract has      *)
(* control: an account holder between two transactions, or, inside a       *)
(* transaction, the code that received the ether of a withdrawal.  An      *)
(* action is what the contract does from the moment it is entered to the   *)
(* moment it calls out or returns.  The two withdrawals call out, so they  *)
(* push a frame on the call stack `frames'; while a frame is pending every *)
(* operation can be entered again.  A frame remembers the ledger as it was *)
(* when the operation was entered: if the call fails, `require(success)'   *)
(* reverts the operation and everything that happened inside of it.        *)
(***************************************************************************)
EXTENDS Integers, Sequences

CONSTANTS
    NumAddr,     \* addresses are the numbers 1..NumAddr
    Amounts,     \* the msg.value and withdrawal amounts that are tried
    Delays,      \* the unstakeDelaySec arguments that are tried
    EthSupply,   \* all the ether there is
    MaxUint112,  \* type(uint112).max, the largest deposit or stake
    MaxTime,     \* the last block.timestamp; also type(uint48).max
    MaxDepth,    \* bound on the call depth
    CallBudget   \* bound (gas) on the calls made inside one transaction

ASSUME StakeConstants ==
    /\ NumAddr \in Nat \ {0}
    /\ Amounts \subseteq Nat
    /\ Delays \subseteq Nat
    /\ EthSupply \in Nat
    /\ MaxUint112 \in Nat
    /\ MaxTime \in Nat \ {0}
    /\ MaxDepth \in Nat
    /\ CallBudget \in Nat

Address == 1..NumAddr

VARIABLES
    ledger,  \* everything a revert undoes
    frames,  \* the stack of calls out of the contract, the innermost last
    now,     \* block.timestamp
    budget   \* calls that outside code can still afford in this transaction

vars == <<ledger, frames, now, budget>>

\* The amounts are uint112 and the withdraw time is a uint48.
DepositInfo ==
    [deposit: 0..MaxUint112, staked: BOOLEAN, stake: 0..MaxUint112,
     unstakeDelaySec: Nat, withdrawTime: 0..MaxTime]

NoDeposit ==
    [deposit |-> 0, staked |-> FALSE, stake |-> 0, unstakeDelaySec |-> 0, withdrawTime |-> 0]

(***************************************************************************)
(* The contract's storage is deposits and balance (its ether).  The rest   *)
(* is history, kept to state the properties: claim[a] is the ether that    *)
(* came in for a less the ether that went out for a; committed[a] is the   *)
(* longest delay a agreed to since its stake was last empty; unlockedAt[a] *)
(* is when a last called unlockStake, or 0 if it staked again since.       *)
(***************************************************************************)
Ledger ==
    [deposits: [Address -> DepositInfo], balance: Nat, claim: [Address -> Nat],
     committed: [Address -> Nat], unlockedAt: [Address -> Nat]]

EmptyLedger ==
    [deposits   |-> [a \in Address |-> NoDeposit],
     balance    |-> 0,
     claim      |-> [a \in Address |-> 0],
     committed  |-> [a \in Address |-> 0],
     unlockedAt |-> [a \in Address |-> 0]]

Init ==
    /\ ledger = EmptyLedger
    /\ frames = <<>>
    /\ now = 1
    /\ budget = CallBudget

-----------------------------------------------------------------------------
(***************************************************************************)
(* The call stack.                                                         *)
(***************************************************************************)

\* Outside code enters the contract once more.
Entered ==
    /\ frames # <<>> => budget > 0
    /\ budget' = IF frames = <<>> THEN budget ELSE budget - 1

\* The contract finishes without calling out.
Finish(l) ==
    /\ ledger' = l
    /\ UNCHANGED <<frames, now>>

\* The contract sends ether away with l in its storage, and waits.
Send(l, amount) ==
    /\ Len(frames) < MaxDepth
    /\ ledger' = [l EXCEPT !.balance = @ - amount]
    /\ frames' = Append(frames, [kind |-> "send", saved |-> ledger])
    /\ UNCHANGED now

Innermost == frames[Len(frames)]

\* The innermost frame is done: its caller, outside code again, goes on with l.
Leave(l) ==
    /\ ledger' = l
    /\ frames' = SubSeq(frames, 1, Len(frames) - 1)
    /\ budget' = IF Len(frames) = 1 THEN CallBudget ELSE budget
    /\ UNCHANGED now

-----------------------------------------------------------------------------
(***************************************************************************)
(* The operations.  msg.sender is a.                                       *)
(***************************************************************************)

\* Mutant: the overflow check of _incrementDeposit is dropped.
CanIncrementDepositUnchecked(l, a, amount) == TRUE

\* _incrementDeposit, and the condition under which it does not revert.
CanIncrementDeposit(l, a, amount) == l.deposits[a].deposit + amount <= MaxUint112

IncrementDeposit(l, a, amount) == [l EXCEPT !.deposits[a].deposit = @ + amount]

\* Ether that arrives with a call, for a.
Receive(l, a, amount) ==
    [l EXCEPT !.balance = @ + amount, !.claim[a] = @ + amount]

\* depositTo(a), and receive() which is depositTo(msg.sender).
DepositTo(a, value) ==
    /\ Entered
    /\ ledger.balance + value <= EthSupply
    /\ CanIncrementDeposit(ledger, a, value)
    /\ Finish(IncrementDeposit(Receive(ledger, a, value), a, value))

\* Mutant: a new stake may shorten the delay.
AddStakeShorter(a, delay, value) ==
    LET info == ledger.deposits[a]
        stake == info.stake + value
    IN  /\ Entered
        /\ ledger.balance + value <= EthSupply
        /\ delay > 0
        /\ stake > 0
        /\ stake <= MaxUint112
        /\ Finish([Receive(ledger, a, value) EXCEPT
                     !.deposits[a] = [deposit |-> info.deposit, staked |-> TRUE, stake |-> stake,
                                      unstakeDelaySec |-> delay, withdrawTime |-> 0],
                     !.committed[a] = IF @ < delay THEN delay ELSE @,
                     !.unlockedAt[a] = 0])

AddStake(a, delay, value) ==
    LET info == ledger.deposits[a]
        stake == info.stake + value
    IN  /\ Entered
        /\ ledger.balance + value <= EthSupply
        /\ delay > 0
        /\ delay >= info.unstakeDelaySec
        /\ stake > 0
        /\ stake <= MaxUint112
        /\ Finish([Receive(ledger, a, value) EXCEPT
                     !.deposits[a] = [deposit |-> info.deposit, staked |-> TRUE, stake |-> stake,
                                      unstakeDelaySec |-> delay, withdrawTime |-> 0],
                     !.committed[a] = IF @ < delay THEN delay ELSE @,
                     !.unlockedAt[a] = 0])

\* The addition is checked: a withdraw time beyond uint48 reverts.
UnlockStake(a) ==
    LET info == ledger.deposits[a]
        withdrawTime == now + info.unstakeDelaySec
    IN  /\ Entered
        /\ info.unstakeDelaySec # 0
        /\ info.staked
        /\ withdrawTime <= MaxTime
        /\ Finish([ledger EXCEPT
                     !.deposits[a] = [info EXCEPT !.withdrawTime = withdrawTime, !.staked = FALSE],
                     !.unlockedAt[a] = now])

\* Mutant: the stake is still on the books while its ether is being sent.
WithdrawStakeEarlySend(a) ==
    LET info == ledger.deposits[a]
    IN  /\ Entered
        /\ info.stake > 0
        /\ info.withdrawTime > 0
        /\ info.withdrawTime <= now
        /\ Send([ledger EXCEPT !.claim[a] = @ - info.stake], info.stake)

\* Mutant: the lock is cleared and the stake is not.
WithdrawStakeKeepsStake(a) ==
    LET info == ledger.deposits[a]
    IN  /\ Entered
        /\ info.stake > 0
        /\ info.withdrawTime > 0
        /\ info.withdrawTime <= now
        /\ Send([ledger EXCEPT
                   !.deposits[a] = [info EXCEPT !.unstakeDelaySec = 0, !.withdrawTime = 0, !.stake = 1],
                   !.claim[a] = @ - info.stake + 1],
                info.stake - 1)

\* The stake and its lock are cleared before the ether is sent.
WithdrawStake(a) ==
    LET info == ledger.deposits[a]
    IN  /\ Entered
        /\ info.stake > 0
        /\ info.withdrawTime > 0
        /\ info.withdrawTime <= now
        /\ Send([ledger EXCEPT
                   !.deposits[a] = [info EXCEPT !.unstakeDelaySec = 0, !.withdrawTime = 0, !.stake = 0],
                   !.claim[a] = @ - info.stake,
                   !.committed[a] = 0,
                   !.unlockedAt[a] = 0],
                info.stake)

\* Mutant: a failed send is not undone.
SendReturnsIgnored(success) ==
    /\ frames # <<>>
    /\ Innermost.kind = "send"
    /\ Leave([ledger EXCEPT !.balance = IF success THEN @ ELSE Innermost.saved.balance])

\* The deposit is reduced before the ether is sent.
WithdrawTo(a, amount) ==
    /\ Entered
    /\ amount <= ledger.deposits[a].deposit
    /\ Send([ledger EXCEPT !.deposits[a].deposit = @ - amount, !.claim[a] = @ - amount],
            amount)

\* The receiver of a withdrawal returns, or fails and reverts the withdrawal.
SendReturns(success) ==
    /\ frames # <<>>
    /\ Innermost.kind = "send"
    /\ Leave(IF success THEN ledger ELSE Innermost.saved)

\* block.timestamp is the same for a whole transaction.
Tick ==
    /\ frames = <<>>
    /\ now < MaxTime
    /\ now' = now + 1
    /\ UNCHANGED <<ledger, frames, budget>>

StakeManagerCall ==
    \E a \in Address :
        \/ \E value \in Amounts : DepositTo(a, value)
        \/ \E delay \in Delays, value \in Amounts : AddStake(a, delay, value)
        \/ UnlockStake(a)
        \/ WithdrawStake(a)
        \/ \E amount \in Amounts : WithdrawTo(a, amount)

Next ==
    \/ StakeManagerCall
    \/ \E success \in BOOLEAN : SendReturns(success)
    \/ Tick

Spec == Init /\ [][Next]_vars

-----------------------------------------------------------------------------
(***************************************************************************)
(* What makes the ledger correct.                                          *)
(***************************************************************************)

\* The ledger and the call stack are well formed, and no deposit, stake or
\* withdraw time outgrows its uint112 or uint48 field.
TypeOK ==
    /\ ledger \in Ledger
    /\ frames \in Seq([kind: {"send"}, saved: Ledger])
    /\ Len(frames) <= MaxDepth
    /\ now \in 1..MaxTime
    /\ budget \in 0..CallBudget

Owed(l) == [a \in Address |-> l.deposits[a].deposit + l.deposits[a].stake]

\* p[a] is what the addresses up to a are owed.
PartialSums(f, total) ==
    {p \in [0..NumAddr -> 0..total] :
        /\ p[0] = 0
        /\ \A a \in Address : p[a] = p[a - 1] + f[a]
        /\ \A i, j \in 0..NumAddr : i <= j => p[i] <= p[j]}

\* total is the sum of all f[a].
SumsTo(f, total) == \E p \in PartialSums(f, total) : p[NumAddr] = total

\* The contract's ether is exactly the sum of all deposits and stakes, also
\* while the receiver of a withdrawal is running and may enter again.
Solvent == SumsTo(Owed(ledger), ledger.balance)

\* An address is on the books for what it paid in and did not take out: no
\* sequence of nested calls and reverts moves ether from one to another.
ClaimsBacked == \A a \in Address : Owed(ledger)[a] = ledger.claim[a]

\* No stake gets stuck: it is either locked, so that unlockStake accepts it, or
\* on its way out, due at its unlock time plus the longest delay agreed to.
StakeRecoverable ==
    \A a \in Address :
        LET info == ledger.deposits[a]
        IN  info.stake > 0 =>
                /\ info.unstakeDelaySec > 0
                /\ info.staked <=> info.withdrawTime = 0
                /\ ~info.staked => info.withdrawTime = ledger.unlockedAt[a] + ledger.committed[a]

\* Stake only ever leaves after unlockStake was called and, with no addStake
\* since, the longest delay agreed to has passed.
StakeReleasedWhenDue ==
    [][\A a \in Address :
        (Len(frames') > Len(frames) /\ ledger'.deposits[a].stake < ledger.deposits[a].stake)
            => /\ ledger.unlockedAt[a] # 0
               /\ ledger.unlockedAt[a] + ledger.committed[a] <= now]_vars

=============================================================================
