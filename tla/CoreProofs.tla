----------------------------- MODULE CoreProofs -----------------------------
(***************************************************************************)
(* What EntryPoint is built on: the ledger that it inherits, for any       *)
(* number of addresses, any amounts, delays and call depth; and the words  *)
(* that accounts and paymasters return to it, for every number of          *)
(* addresses and of timestamps.                                            *)
(***************************************************************************)
EXTENDS StakeManager, ValidationData, TLAPS

-----------------------------------------------------------------------------
(***************************************************************************)
(* The inductive invariant.  A failed send puts back the ledger its frame  *)
(* saved, so what holds of the ledger has to hold of every saved one.      *)
(***************************************************************************)

Backed(l) == \A a \in Address : Owed(l)[a] = l.claim[a]

\* The lock of a stake.  StakeRecoverable forgets why the withdraw time is what
\* it is: the delay in the books is the longest one agreed to, and an unlocked
\* address has the time at which it unlocked on record.
LockOK(info, committed, unlockedAt) ==
    /\ committed = info.unstakeDelaySec
    /\ info.stake > 0 => info.unstakeDelaySec > 0
    /\ info.staked => info.withdrawTime = 0
    /\ info.stake > 0 /\ ~info.staked => info.withdrawTime > 0
    /\ info.withdrawTime > 0 => unlockedAt > 0 /\ info.withdrawTime = unlockedAt + committed

Locks(l) == \A a \in Address : LockOK(l.deposits[a], l.committed[a], l.unlockedAt[a])

LedgerOK(l) ==
    /\ l \in Ledger
    /\ SumsTo(Owed(l), l.balance)
    /\ Backed(l)
    /\ Locks(l)

IInv ==
    /\ TypeOK
    /\ LedgerOK(ledger)
    /\ \A k \in DOMAIN frames : LedgerOK(frames[k].saved)

-----------------------------------------------------------------------------
(***************************************************************************)
(* Sums.                                                                   *)
(***************************************************************************)

\* A sum whose term at a grows by d grows by d: the partial sums from a on do.
LEMMA ShiftedSum ==
    ASSUME NEW f \in [Address -> Nat], NEW total \in Nat, SumsTo(f, total),
           NEW a \in Address, NEW d \in Int, f[a] + d \in Nat
    PROVE  total + d \in Nat /\ SumsTo([f EXCEPT ![a] = f[a] + d], total + d)
<1> DEFINE g == [f EXCEPT ![a] = f[a] + d]
<1> PICK p \in PartialSums(f, total) : p[NumAddr] = total
  BY DEF SumsTo
<1> DEFINE q == [i \in 0..NumAddr |-> IF i < a THEN p[i] ELSE p[i] + d]
<1>1. p \in [0..NumAddr -> 0..total]
  BY DEF PartialSums
<1>2. p[0] = 0
  BY DEF PartialSums
<1>3. \A b \in Address : p[b] = p[b - 1] + f[b]
  BY DEF PartialSums
<1>4. \A i, j \in 0..NumAddr : i <= j => p[i] <= p[j]
  BY DEF PartialSums
<1>5. \A i \in 0..NumAddr : p[i] \in Nat /\ p[i] <= total
  BY <1>1
<1>6. NumAddr \in Nat /\ a \in Nat /\ a - 1 \in 0..NumAddr /\ a \in 0..NumAddr
  BY StakeConstants DEF Address
<1>7. /\ f[a] \in Nat
      /\ p[a] = p[a - 1] + f[a]
      /\ p[a] \in Nat /\ p[a - 1] \in Nat
      /\ p[a] <= total
  BY <1>3, <1>5, <1>6
<1>8. \A i \in 0..NumAddr : i < a => p[i] <= p[a - 1]
  BY <1>4, <1>6
<1>9. \A i \in 0..NumAddr : i >= a => p[a] <= p[i]
  BY <1>4, <1>6
<1>10. total + d \in Nat
  BY <1>7
<1>11. q \in [0..NumAddr -> 0..(total + d)]
  <2> SUFFICES ASSUME NEW i \in 0..NumAddr
               PROVE  (IF i < a THEN p[i] ELSE p[i] + d) \in 0..(total + d)
    OBVIOUS
  <2>1. p[i] \in Nat /\ p[i] <= total /\ i \in Nat
    BY <1>5
  <2>2. CASE i < a
    <3>1. p[i] <= p[a - 1]
      BY <1>8, <2>2
    <3> QED  BY <1>7, <1>10, <2>1, <2>2, <3>1
  <2>3. CASE ~(i < a)
    <3>1. p[a] <= p[i]
      BY <1>6, <1>9, <2>1, <2>3
    <3> QED  BY <1>7, <1>10, <2>1, <2>3, <3>1
  <2> QED  BY <2>2, <2>3
<1>12. q[0] = 0
  BY <1>2, <1>6
<1>13. \A b \in Address : q[b] = q[b - 1] + g[b]
  <2> TAKE b \in Address
  <2>1. b \in Nat /\ b \in 0..NumAddr /\ b - 1 \in 0..NumAddr
    BY StakeConstants DEF Address
  <2>2. p[b] \in Nat /\ p[b - 1] \in Nat /\ f[b] \in Nat
    BY <1>5, <2>1
  <2>3. p[b] = p[b - 1] + f[b]
    BY <1>3
  <2>4. q[b] = IF b < a THEN p[b] ELSE p[b] + d
    BY <2>1
  <2>5. q[b - 1] = IF b - 1 < a THEN p[b - 1] ELSE p[b - 1] + d
    BY <2>1
  <2>6. g[b] = IF b = a THEN f[b] + d ELSE f[b]
    OBVIOUS
  <2> HIDE DEF q
  <2> QED  BY <1>6, <2>1, <2>2, <2>3, <2>4, <2>5, <2>6
<1>14. \A i, j \in 0..NumAddr : i <= j => q[i] <= q[j]
  <2> SUFFICES ASSUME NEW i \in 0..NumAddr, NEW j \in 0..NumAddr, i <= j
               PROVE  q[i] <= q[j]
    OBVIOUS
  <2>1. p[i] <= p[j] /\ p[i] \in Nat /\ p[j] \in Nat
    BY <1>4, <1>5
  <2>2. /\ q[i] = IF i < a THEN p[i] ELSE p[i] + d
        /\ q[j] = IF j < a THEN p[j] ELSE p[j] + d
    OBVIOUS
  <2> HIDE DEF q
  <2>3. CASE i < a /\ ~(j < a)
    <3>1. p[i] <= p[a - 1] /\ p[a] <= p[j]
      BY <1>6, <1>8, <1>9, <2>3
    <3> QED  BY <1>7, <2>1, <2>2, <2>3, <3>1
  <2>4. CASE ~(i < a /\ ~(j < a))
    BY <1>6, <2>1, <2>2, <2>4
  <2> QED  BY <2>3, <2>4
<1>15. q[NumAddr] = total + d
  BY <1>6
<1> HIDE DEF q
<1>16. q \in PartialSums(g, total + d)
  BY <1>11, <1>12, <1>13, <1>14 DEF PartialSums
<1> QED  BY <1>10, <1>15, <1>16 DEF SumsTo

\* What an address is owed is its deposit and its stake.
LEMMA OwedType ==
    ASSUME NEW l \in Ledger
    PROVE  /\ Owed(l) \in [Address -> Nat]
           /\ \A a \in Address : Owed(l)[a] = l.deposits[a].deposit + l.deposits[a].stake
BY StakeConstants DEF Ledger, DepositInfo, Owed

-----------------------------------------------------------------------------
(***************************************************************************)
(* Every operation changes the entry of one address, and moves as much     *)
(* ether as it changes what that address is owed and claims.               *)
(***************************************************************************)

\* A ledger whose balance and claims might be negative.
LooseLedger ==
    [deposits: [Address -> DepositInfo], balance: Int, claim: [Address -> Int],
     committed: [Address -> Nat], unlockedAt: [Address -> Nat]]

\* m is l but for the entry of a.
Differ(l, m, a, info, d, committed, unlockedAt) ==
    /\ m.deposits = [l.deposits EXCEPT ![a] = info]
    /\ m.balance = l.balance + d
    /\ m.claim = [l.claim EXCEPT ![a] = l.claim[a] + d]
    /\ m.committed = [l.committed EXCEPT ![a] = committed]
    /\ m.unlockedAt = [l.unlockedAt EXCEPT ![a] = unlockedAt]

\* A ledger in which one address's entry, its claim and the balance changed by
\* the same amount, and whose new entry is locked as agreed, is in order.
LEMMA EntryOK ==
    ASSUME NEW l, LedgerOK(l), NEW m \in LooseLedger,
           NEW a \in Address, NEW info \in DepositInfo,
           NEW d \in Int, NEW committed \in Nat, NEW unlockedAt \in Nat,
           Differ(l, m, a, info, d, committed, unlockedAt),
           info.deposit + info.stake = l.deposits[a].deposit + l.deposits[a].stake + d,
           LockOK(info, committed, unlockedAt)
    PROVE  LedgerOK(m)
<1>1. l \in Ledger /\ SumsTo(Owed(l), l.balance) /\ Backed(l) /\ Locks(l)
  BY DEF LedgerOK
<1>2. /\ l.deposits \in [Address -> DepositInfo] /\ l.balance \in Nat
      /\ l.claim \in [Address -> Nat] /\ l.committed \in [Address -> Nat]
      /\ l.unlockedAt \in [Address -> Nat]
  BY <1>1 DEF Ledger
<1>3. /\ m.deposits = [l.deposits EXCEPT ![a] = info]
      /\ m.balance = l.balance + d
      /\ m.claim = [l.claim EXCEPT ![a] = l.claim[a] + d]
      /\ m.committed = [l.committed EXCEPT ![a] = committed]
      /\ m.unlockedAt = [l.unlockedAt EXCEPT ![a] = unlockedAt]
  BY DEF Differ
<1>4. /\ Owed(l) \in [Address -> Nat]
      /\ \A b \in Address : Owed(l)[b] = l.deposits[b].deposit + l.deposits[b].stake
  BY <1>1, OwedType
<1>5. info.deposit + info.stake \in Nat /\ Owed(l)[a] + d = info.deposit + info.stake
  BY <1>4, StakeConstants DEF DepositInfo
<1>6. Owed(m) = [Owed(l) EXCEPT ![a] = Owed(l)[a] + d]
  BY <1>2, <1>3, <1>4, <1>5 DEF Owed
<1>7. /\ l.balance + d \in Nat
      /\ SumsTo([Owed(l) EXCEPT ![a] = Owed(l)[a] + d], l.balance + d)
  BY <1>1, <1>2, <1>4, <1>5, ShiftedSum
<1>8. m.balance \in Nat /\ SumsTo(Owed(m), m.balance)
  BY <1>3, <1>6, <1>7
<1>9. \A b \in Address : Owed(l)[b] = l.claim[b]
  BY <1>1 DEF Backed
<1>10. l.claim[a] + d \in Nat
  BY <1>5, <1>9
<1>11. m \in Ledger
  <2>1. m.claim \in [Address -> Nat]
    BY <1>2, <1>3, <1>10
  <2> QED  BY <1>8, <2>1 DEF LooseLedger, Ledger
<1>12. Backed(m)
  BY <1>2, <1>3, <1>4, <1>6, <1>9 DEF Backed
<1>13. Locks(m)
  BY <1>1, <1>2, <1>3 DEF Locks
<1> QED  BY <1>8, <1>11, <1>12, <1>13 DEF LedgerOK

\* What Receive makes of a ledger.
LEMMA ReceiveFields ==
    ASSUME NEW l \in Ledger, NEW a \in Address, NEW value \in Nat
    PROVE  /\ Receive(l, a, value) \in Ledger
           /\ Receive(l, a, value).deposits = l.deposits
           /\ Receive(l, a, value).balance = l.balance + value
           /\ Receive(l, a, value).claim = [l.claim EXCEPT ![a] = l.claim[a] + value]
           /\ Receive(l, a, value).committed = l.committed
           /\ Receive(l, a, value).unlockedAt = l.unlockedAt
<1> DEFINE r == Receive(l, a, value)
           balance == l.balance + value
           claim == [l.claim EXCEPT ![a] = l.claim[a] + value]
<1>1. balance \in Nat /\ claim \in [Address -> Nat]
  BY DEF Ledger
<1>2. r = [l EXCEPT !.balance = balance, !.claim = claim]
  BY DEF Receive
<1> HIDE DEF balance, claim, r
<1>3. /\ r \in Ledger /\ r.deposits = l.deposits /\ r.balance = balance /\ r.claim = claim
      /\ r.committed = l.committed /\ r.unlockedAt = l.unlockedAt
  BY <1>1, <1>2 DEF Ledger
<1> QED  BY <1>3 DEF balance, claim, r

\* Every ledger is one in the loose sense.
LEMMA Loosen == Ledger \subseteq LooseLedger
<1> SUFFICES ASSUME NEW l \in Ledger PROVE l \in LooseLedger
  OBVIOUS
<1>1. l.claim \in [Address -> Int] /\ l.balance \in Int
  BY DEF Ledger
<1> QED  BY <1>1 DEF Ledger, LooseLedger

\* What assigning some fields of a ledger makes of it.
SetTwo(l, deposits, unlockedAt) ==
    [l EXCEPT !.deposits = deposits, !.unlockedAt = unlockedAt]

SetThree(l, deposits, committed, unlockedAt) ==
    [l EXCEPT !.deposits = deposits, !.committed = committed, !.unlockedAt = unlockedAt]

SetFour(l, deposits, claim, committed, unlockedAt) ==
    [l EXCEPT !.deposits = deposits, !.claim = claim, !.committed = committed,
              !.unlockedAt = unlockedAt]

SetDebit(l, deposits, claim) == [l EXCEPT !.deposits = deposits, !.claim = claim]

\* What SetDebit makes of a ledger.
LEMMA SetDebitFields ==
    ASSUME NEW l \in LooseLedger, NEW deposits \in [Address -> DepositInfo],
           NEW claim \in [Address -> Int]
    PROVE  LET m == SetDebit(l, deposits, claim)
           IN  /\ m \in LooseLedger /\ m.deposits = deposits /\ m.balance = l.balance
               /\ m.claim = claim /\ m.committed = l.committed /\ m.unlockedAt = l.unlockedAt
BY DEF LooseLedger, SetDebit

\* What SetTwo makes of a ledger.
LEMMA SetTwoFields ==
    ASSUME NEW l \in LooseLedger, NEW deposits \in [Address -> DepositInfo],
           NEW unlockedAt \in [Address -> Nat]
    PROVE  LET m == SetTwo(l, deposits, unlockedAt)
           IN  /\ m \in LooseLedger /\ m.deposits = deposits /\ m.balance = l.balance
               /\ m.claim = l.claim /\ m.committed = l.committed /\ m.unlockedAt = unlockedAt
BY DEF LooseLedger, SetTwo

\* What SetThree makes of a ledger.
LEMMA SetThreeFields ==
    ASSUME NEW l \in LooseLedger, NEW deposits \in [Address -> DepositInfo],
           NEW committed \in [Address -> Nat], NEW unlockedAt \in [Address -> Nat]
    PROVE  LET m == SetThree(l, deposits, committed, unlockedAt)
           IN  /\ m \in LooseLedger /\ m.deposits = deposits /\ m.balance = l.balance
               /\ m.claim = l.claim /\ m.committed = committed /\ m.unlockedAt = unlockedAt
BY DEF LooseLedger, SetThree

\* What SetFour makes of a ledger.
LEMMA SetFourFields ==
    ASSUME NEW l \in LooseLedger, NEW deposits \in [Address -> DepositInfo],
           NEW claim \in [Address -> Int],
           NEW committed \in [Address -> Nat], NEW unlockedAt \in [Address -> Nat]
    PROVE  LET m == SetFour(l, deposits, claim, committed, unlockedAt)
           IN  /\ m \in LooseLedger /\ m.deposits = deposits /\ m.balance = l.balance
               /\ m.claim = claim /\ m.committed = committed /\ m.unlockedAt = unlockedAt
BY DEF LooseLedger, SetFour

\* The fields of a ledger in order, and their types.
LEMMA Fields ==
    ASSUME NEW l, LedgerOK(l), NEW a \in Address
    PROVE  /\ l \in Ledger
           /\ l.deposits \in [Address -> DepositInfo]
           /\ l.balance \in Nat
           /\ l.claim \in [Address -> Nat]
           /\ l.committed \in [Address -> Nat]
           /\ l.unlockedAt \in [Address -> Nat]
           /\ l.deposits[a] \in DepositInfo
           /\ l.deposits[a].deposit \in Nat /\ l.deposits[a].stake \in Nat
           /\ l.deposits[a].unstakeDelaySec \in Nat /\ l.deposits[a].withdrawTime \in Nat
           /\ l.deposits[a].staked \in BOOLEAN
           /\ LockOK(l.deposits[a], l.committed[a], l.unlockedAt[a])
<1>1. l \in Ledger /\ Locks(l)
  BY DEF LedgerOK
<1>2. l.deposits[a] \in DepositInfo
  BY <1>1 DEF Ledger
<1>3. LockOK(l.deposits[a], l.committed[a], l.unlockedAt[a])
  BY <1>1 DEF Locks
<1> QED  BY <1>1, <1>2, <1>3, StakeConstants DEF Ledger, DepositInfo

-----------------------------------------------------------------------------
(***************************************************************************)
(* One lemma per operation.                                                *)
(***************************************************************************)

\* depositTo and receive keep the ledger in order.
LEMMA DepositToOK ==
    ASSUME LedgerOK(ledger), NEW a \in Address, NEW value \in Nat, DepositTo(a, value)
    PROVE  LedgerOK(ledger') /\ UNCHANGED <<frames, now>>
<1> DEFINE info == [ledger.deposits[a] EXCEPT !.deposit = ledger.deposits[a].deposit + value]
           r == Receive(ledger, a, value)
<1>1. UNCHANGED <<frames, now>> /\ ledger' = IncrementDeposit(r, a, value)
      /\ CanIncrementDeposit(ledger, a, value)
  BY DEF DepositTo, Finish
<1>2. /\ r \in Ledger
      /\ r.deposits = ledger.deposits
      /\ r.balance = ledger.balance + value
      /\ r.claim = [ledger.claim EXCEPT ![a] = ledger.claim[a] + value]
      /\ r.committed = ledger.committed
      /\ r.unlockedAt = ledger.unlockedAt
  BY Fields, ReceiveFields
<1> HIDE DEF r
<1>3. info \in DepositInfo /\ info.deposit + info.stake
                                = ledger.deposits[a].deposit + ledger.deposits[a].stake + value
  BY <1>1, Fields, StakeConstants DEF CanIncrementDeposit, DepositInfo
<1>4. LockOK(info, ledger.committed[a], ledger.unlockedAt[a])
  BY Fields DEF LockOK, DepositInfo
<1>5. ledger' = [r EXCEPT !.deposits = [ledger.deposits EXCEPT ![a] = info]]
  BY <1>1, <1>2 DEF IncrementDeposit
<1> HIDE DEF info
<1>6. /\ ledger' \in LooseLedger
      /\ ledger'.deposits = [ledger.deposits EXCEPT ![a] = info]
      /\ ledger'.balance = r.balance
      /\ ledger'.claim = r.claim
      /\ ledger'.committed = r.committed
      /\ ledger'.unlockedAt = r.unlockedAt
  <2>1. [ledger.deposits EXCEPT ![a] = info] \in [Address -> DepositInfo]
    BY <1>3, Fields
  <2> QED  BY <1>2, <1>5, <2>1 DEF Ledger, LooseLedger
<1>7. Differ(ledger, ledger', a, info, value, ledger.committed[a], ledger.unlockedAt[a])
  BY <1>2, <1>6, Fields DEF Differ
<1>8. value \in Int /\ ledger.committed[a] \in Nat /\ ledger.unlockedAt[a] \in Nat
  BY Fields
<1>9. LedgerOK(ledger')
  BY <1>3, <1>4, <1>6, <1>7, <1>8, EntryOK
<1> QED  BY <1>1, <1>9

\* addStake keeps the ledger in order: the new delay is no shorter.
LEMMA AddStakeOK ==
    ASSUME LedgerOK(ledger), NEW a \in Address, NEW delay \in Nat, NEW value \in Nat,
           AddStake(a, delay, value)
    PROVE  LedgerOK(ledger') /\ UNCHANGED <<frames, now>>
<1> DEFINE old == ledger.deposits[a]
           info == [deposit |-> old.deposit, staked |-> TRUE, stake |-> old.stake + value,
                    unstakeDelaySec |-> delay, withdrawTime |-> 0]
           r == Receive(ledger, a, value)
           c == IF ledger.committed[a] < delay THEN delay ELSE ledger.committed[a]
<1>1. /\ UNCHANGED <<frames, now>>
      /\ delay > 0 /\ delay >= old.unstakeDelaySec
      /\ old.stake + value <= MaxUint112
      /\ ledger' = [r EXCEPT !.deposits[a] = info,
                             !.committed[a] = IF r.committed[a] < delay THEN delay
                                              ELSE r.committed[a],
                             !.unlockedAt[a] = 0]
  BY DEF AddStake, Finish
<1>2. /\ r \in Ledger
      /\ r.deposits = ledger.deposits
      /\ r.balance = ledger.balance + value
      /\ r.claim = [ledger.claim EXCEPT ![a] = ledger.claim[a] + value]
      /\ r.committed = ledger.committed
      /\ r.unlockedAt = ledger.unlockedAt
  BY Fields, ReceiveFields
<1> HIDE DEF r
<1>3. info \in DepositInfo /\ info.deposit + info.stake = old.deposit + old.stake + value
  BY <1>1, Fields, StakeConstants DEF DepositInfo
<1>4. c = delay
  BY <1>1, Fields, SMTT(30) DEF LockOK
<1>5. LockOK(info, c, 0)
  BY <1>1, <1>4, StakeConstants DEF LockOK
<1> DEFINE D == [ledger.deposits EXCEPT ![a] = info]
           C == [ledger.committed EXCEPT ![a] = c]
           U == [ledger.unlockedAt EXCEPT ![a] = 0]
<1>6. ledger' = SetThree(r, D, C, U)
  BY <1>1, <1>2 DEF SetThree
<1> HIDE DEF info, c
<1>7. /\ ledger' \in LooseLedger
      /\ ledger'.deposits = [ledger.deposits EXCEPT ![a] = info]
      /\ ledger'.balance = r.balance
      /\ ledger'.claim = r.claim
      /\ ledger'.committed = [ledger.committed EXCEPT ![a] = c]
      /\ ledger'.unlockedAt = [ledger.unlockedAt EXCEPT ![a] = 0]
  <2>1. D \in [Address -> DepositInfo] /\ C \in [Address -> Nat] /\ U \in [Address -> Nat]
    BY <1>3, <1>4, Fields
  <2> HIDE DEF D, C, U
  <2>2. /\ ledger' \in LooseLedger
        /\ ledger'.deposits = D /\ ledger'.balance = r.balance /\ ledger'.claim = r.claim
        /\ ledger'.committed = C /\ ledger'.unlockedAt = U
    <3>1. r \in LooseLedger
      BY <1>2, Loosen
    <3> QED  BY <1>6, <2>1, <3>1, SetThreeFields
  <2> QED  BY <2>2 DEF D, C, U
<1>8. Differ(ledger, ledger', a, info, value, c, 0)
  BY <1>2, <1>7 DEF Differ
<1>9. value \in Int /\ c \in Nat
  BY <1>4
<1>10. LedgerOK(ledger')
  BY <1>3, <1>5, <1>7, <1>8, <1>9, EntryOK
<1> QED  BY <1>1, <1>10

\* unlockStake keeps the ledger in order: the withdraw time is in the future.
LEMMA UnlockStakeOK ==
    ASSUME LedgerOK(ledger), now \in 1..MaxTime, NEW a \in Address, UnlockStake(a)
    PROVE  LedgerOK(ledger') /\ UNCHANGED <<frames, now>>
<1> DEFINE old == ledger.deposits[a]
           w == now + old.unstakeDelaySec
           info == [old EXCEPT !.withdrawTime = w, !.staked = FALSE]
<1>1. /\ UNCHANGED <<frames, now>>
      /\ old.unstakeDelaySec # 0 /\ old.staked /\ w <= MaxTime
      /\ ledger' = [ledger EXCEPT !.deposits[a] = info, !.unlockedAt[a] = now]
  BY DEF UnlockStake, Finish
<1>2. /\ now \in Nat /\ now > 0 /\ w \in Nat /\ w > 0 /\ w \in 0..MaxTime
  BY <1>1, Fields, StakeConstants
<1> HIDE DEF w
<1>3. /\ info \in DepositInfo
      /\ info.deposit = old.deposit /\ info.stake = old.stake
      /\ info.staked = FALSE /\ info.withdrawTime = w
      /\ info.unstakeDelaySec = old.unstakeDelaySec
  BY <1>2, Fields DEF DepositInfo
<1> DEFINE D == [ledger.deposits EXCEPT ![a] = info]
           U == [ledger.unlockedAt EXCEPT ![a] = now]
<1>4. ledger' = SetTwo(ledger, D, U)
  BY <1>1 DEF SetTwo
<1> HIDE DEF info
<1>5. LockOK(info, ledger.committed[a], now)
  <2>1. w = now + ledger.committed[a]
    BY Fields DEF w, LockOK
  <2> QED  BY <1>1, <1>2, <1>3, <2>1, Fields DEF LockOK
<1>6. /\ ledger' \in LooseLedger
      /\ ledger'.deposits = [ledger.deposits EXCEPT ![a] = info]
      /\ ledger'.balance = ledger.balance
      /\ ledger'.claim = ledger.claim
      /\ ledger'.committed = ledger.committed
      /\ ledger'.unlockedAt = [ledger.unlockedAt EXCEPT ![a] = now]
  <2>1. D \in [Address -> DepositInfo] /\ U \in [Address -> Nat]
    BY <1>2, <1>3, Fields
  <2>2. ledger \in Ledger
    BY Fields
  <2> HIDE DEF D, U
  <2>3. /\ ledger' \in LooseLedger
        /\ ledger'.deposits = D /\ ledger'.balance = ledger.balance
        /\ ledger'.claim = ledger.claim
        /\ ledger'.committed = ledger.committed /\ ledger'.unlockedAt = U
    <3>1. ledger \in LooseLedger
      BY <2>2, Loosen
    <3> QED  BY <1>4, <2>1, <3>1, SetTwoFields
  <2> QED  BY <2>3 DEF D, U
<1>7. Differ(ledger, ledger', a, info, 0, ledger.committed[a], now)
  BY <1>6, Fields DEF Differ
<1>8. /\ 0 \in Int /\ ledger.committed[a] \in Nat /\ now \in Nat
      /\ info.deposit + info.stake = old.deposit + old.stake + 0
  BY <1>2, <1>3, Fields
<1>9. LedgerOK(ledger')
  BY <1>3, <1>5, <1>6, <1>7, <1>8, EntryOK
<1> QED  BY <1>1, <1>9

\* m is l after the entry of a was changed and amount was sent away.
LEMMA SendOK ==
    ASSUME LedgerOK(ledger), NEW a \in Address, NEW l \in LooseLedger, NEW amount \in Nat,
           Send(l, amount),
           NEW info \in DepositInfo, NEW committed \in Nat, NEW unlockedAt \in Nat,
           l.deposits = [ledger.deposits EXCEPT ![a] = info],
           l.balance = ledger.balance,
           l.claim = [ledger.claim EXCEPT ![a] = ledger.claim[a] - amount],
           l.committed = [ledger.committed EXCEPT ![a] = committed],
           l.unlockedAt = [ledger.unlockedAt EXCEPT ![a] = unlockedAt],
           info.deposit + info.stake = ledger.deposits[a].deposit + ledger.deposits[a].stake - amount,
           LockOK(info, committed, unlockedAt)
    PROVE  LedgerOK(ledger') /\ ledger'.deposits = l.deposits
<1> DEFINE balance == l.balance - amount
<1>1. ledger' = [l EXCEPT !.balance = balance]
  BY DEF Send
<1>2. balance = ledger.balance + (0 - amount) /\ balance \in Int
  BY Fields
<1> HIDE DEF balance
<1>3. /\ ledger' \in LooseLedger
      /\ ledger'.deposits = l.deposits /\ ledger'.balance = balance /\ ledger'.claim = l.claim
      /\ ledger'.committed = l.committed /\ ledger'.unlockedAt = l.unlockedAt
  BY <1>1, <1>2 DEF LooseLedger
<1>4. /\ 0 - amount \in Int
      /\ ledger.claim[a] - amount = ledger.claim[a] + (0 - amount)
      /\ info.deposit + info.stake
           = ledger.deposits[a].deposit + ledger.deposits[a].stake + (0 - amount)
  BY Fields
<1>5. Differ(ledger, ledger', a, info, 0 - amount, committed, unlockedAt)
  BY <1>2, <1>3, <1>4 DEF Differ
<1> QED  BY <1>3, <1>4, <1>5, EntryOK

\* The contract is left to the code that receives the ether.
Sent ==
    /\ Len(frames) < MaxDepth
    /\ frames' = Append(frames, [kind |-> "send", saved |-> ledger])
    /\ UNCHANGED now

\* withdrawStake up to its send keeps the ledger in order.
LEMMA WithdrawStakeOK ==
    ASSUME LedgerOK(ledger), NEW a \in Address, WithdrawStake(a)
    PROVE  /\ LedgerOK(ledger') /\ Sent
           /\ \A b \in Address : b # a => ledger'.deposits[b] = ledger.deposits[b]
<1> DEFINE old == ledger.deposits[a]
           amount == old.stake
           info == [old EXCEPT !.unstakeDelaySec = 0, !.withdrawTime = 0, !.stake = 0]
           D == [ledger.deposits EXCEPT ![a] = info]
           K == [ledger.claim EXCEPT ![a] = ledger.claim[a] - amount]
           C == [ledger.committed EXCEPT ![a] = 0]
           U == [ledger.unlockedAt EXCEPT ![a] = 0]
           l == SetFour(ledger, D, K, C, U)
<1>1. Send(l, amount)
  BY DEF WithdrawStake, SetFour
<1>2. amount \in Nat
  BY Fields
<1>3. /\ info \in DepositInfo
      /\ info.deposit = old.deposit /\ info.stake = 0
      /\ info.withdrawTime = 0 /\ info.unstakeDelaySec = 0
  <2>1. old \in DepositInfo
    BY Fields
  <2>2. 0 \in 0..MaxUint112 /\ 0 \in 0..MaxTime /\ 0 \in Nat
    BY StakeConstants
  <2> HIDE DEF old
  <2> QED  BY <2>1, <2>2 DEF DepositInfo
<1> HIDE DEF info
<1>4. /\ D \in [Address -> DepositInfo] /\ K \in [Address -> Int]
      /\ C \in [Address -> Nat] /\ U \in [Address -> Nat]
  BY <1>2, <1>3, Fields
<1>5. ledger \in LooseLedger
  BY Fields, Loosen
<1> HIDE DEF D, K, C, U
<1>6. /\ l \in LooseLedger /\ l.deposits = D /\ l.balance = ledger.balance
      /\ l.claim = K /\ l.committed = C /\ l.unlockedAt = U
  BY <1>4, <1>5, SetFourFields
<1>7. LockOK(info, 0, 0)
  BY <1>3 DEF LockOK
<1>8. info.deposit + info.stake = old.deposit + old.stake - amount
  BY <1>3, Fields
<1>9. Sent
  BY <1>1 DEF Send, Sent
<1> HIDE DEF l, amount
<1>10. LedgerOK(ledger') /\ ledger'.deposits = D
  <2>1. 0 \in Nat
    OBVIOUS
  <2> QED  BY <1>1, <1>2, <1>3, <1>6, <1>7, <1>8, <2>1, SendOK DEF D, K, C, U
<1>11. \A b \in Address : b # a => D[b] = ledger.deposits[b]
  BY Fields DEF D
<1> QED  BY <1>9, <1>10, <1>11

\* withdrawTo up to its send keeps the ledger in order.
LEMMA WithdrawToOK ==
    ASSUME LedgerOK(ledger), NEW a \in Address, NEW amount \in Nat, WithdrawTo(a, amount)
    PROVE  /\ LedgerOK(ledger') /\ Sent
           /\ \A b \in Address : ledger'.deposits[b].stake = ledger.deposits[b].stake
<1> DEFINE old == ledger.deposits[a]
           info == [old EXCEPT !.deposit = old.deposit - amount]
           D == [ledger.deposits EXCEPT ![a] = info]
           K == [ledger.claim EXCEPT ![a] = ledger.claim[a] - amount]
           l == SetDebit(ledger, D, K)
<1>1. amount <= old.deposit /\ Send(l, amount)
  BY Fields DEF WithdrawTo, SetDebit
<1>2. /\ info \in DepositInfo
      /\ info.deposit = old.deposit - amount /\ info.stake = old.stake
      /\ info.staked = old.staked
      /\ info.withdrawTime = old.withdrawTime /\ info.unstakeDelaySec = old.unstakeDelaySec
  BY <1>1, Fields, StakeConstants DEF DepositInfo
<1> HIDE DEF info
<1>3. D \in [Address -> DepositInfo] /\ K \in [Address -> Int]
  BY <1>2, Fields
<1>4. ledger \in LooseLedger
  BY Fields, Loosen
<1> HIDE DEF D, K
<1>5. /\ l \in LooseLedger /\ l.deposits = D /\ l.balance = ledger.balance
      /\ l.claim = K /\ l.committed = ledger.committed /\ l.unlockedAt = ledger.unlockedAt
  BY <1>3, <1>4, SetDebitFields
<1>6. LockOK(info, ledger.committed[a], ledger.unlockedAt[a])
  BY <1>2, Fields DEF LockOK
<1>7. info.deposit + info.stake = old.deposit + old.stake - amount
  BY <1>2, Fields
<1>8. Sent
  BY <1>1 DEF Send, Sent
<1> HIDE DEF l
<1>9. LedgerOK(ledger') /\ ledger'.deposits = D
  <2>1. /\ ledger.committed[a] \in Nat /\ ledger.unlockedAt[a] \in Nat
        /\ ledger.committed = [ledger.committed EXCEPT ![a] = ledger.committed[a]]
        /\ ledger.unlockedAt = [ledger.unlockedAt EXCEPT ![a] = ledger.unlockedAt[a]]
    BY Fields
  <2> QED  BY <1>1, <1>2, <1>5, <1>6, <1>7, <2>1, SendOK DEF D, K
<1>10. \A b \in Address : D[b].stake = ledger.deposits[b].stake
  BY <1>2, Fields DEF D
<1> QED  BY <1>8, <1>9, <1>10

-----------------------------------------------------------------------------
(***************************************************************************)
(* The call stack.                                                         *)
(***************************************************************************)

Frame == [kind: {"send"}, saved: Ledger]

FramesOK(f) ==
    /\ f \in Seq(Frame)
    /\ Len(f) <= MaxDepth
    /\ \A k \in DOMAIN f : LedgerOK(f[k].saved)

\* A send saves a ledger that is in order, to which a failure returns.
LEMMA Pushed ==
    ASSUME FramesOK(frames), LedgerOK(ledger), Sent
    PROVE  FramesOK(frames')
<1> DEFINE frame == [kind |-> "send", saved |-> ledger]
<1>1. frame \in Frame /\ LedgerOK(frame.saved)
  BY DEF Frame, LedgerOK
<1> HIDE DEF frame
<1>2. frames' = Append(frames, frame) /\ Len(frames) < MaxDepth
  BY DEF Sent, frame
<1>3. frames \in Seq(Frame) /\ \A k \in DOMAIN frames : LedgerOK(frames[k].saved)
  BY DEF FramesOK
<1>4. frames' \in Seq(Frame) /\ Len(frames') = Len(frames) + 1
  BY <1>1, <1>2, <1>3
<1>5. Len(frames') <= MaxDepth
  BY <1>2, <1>3, <1>4, StakeConstants
<1>6. \A k \in DOMAIN frames' : frames'[k] = frame \/ (k \in DOMAIN frames /\ frames'[k] = frames[k])
  BY <1>1, <1>2, <1>3
<1> QED  BY <1>1, <1>3, <1>4, <1>5, <1>6 DEF FramesOK

\* The return of a send restores or keeps a ledger that is in order.
LEMMA Popped ==
    ASSUME FramesOK(frames), frames # <<>>
    PROVE  /\ FramesOK(SubSeq(frames, 1, Len(frames) - 1))
           /\ LedgerOK(Innermost.saved)
<1> DEFINE rest == SubSeq(frames, 1, Len(frames) - 1)
<1>1. /\ frames \in Seq(Frame) /\ Len(frames) <= MaxDepth
      /\ \A k \in DOMAIN frames : LedgerOK(frames[k].saved)
  BY DEF FramesOK
<1>2. Len(frames) \in Nat /\ Len(frames) > 0 /\ DOMAIN frames = 1..Len(frames)
  BY <1>1
<1>3. LedgerOK(Innermost.saved)
  BY <1>1, <1>2 DEF Innermost
<1>4. rest \in Seq(Frame) /\ Len(rest) = Len(frames) - 1
  BY <1>1, <1>2
<1>5. \A k \in DOMAIN rest : k \in DOMAIN frames /\ rest[k] = frames[k]
  BY <1>1, <1>2
<1> HIDE DEF rest
<1>6. Len(rest) <= MaxDepth
  BY <1>1, <1>2, <1>4, StakeConstants
<1>7. FramesOK(rest)
  BY <1>1, <1>4, <1>5, <1>6 DEF FramesOK
<1> QED  BY <1>3, <1>7 DEF rest

-----------------------------------------------------------------------------
(***************************************************************************)
(* The invariant holds initially, and every step preserves it.             *)
(***************************************************************************)

\* The inductive invariant by its parts: the ledger, the stack, time and budget.
LEMMA InvSplit ==
    IInv <=> /\ LedgerOK(ledger) /\ FramesOK(frames)
             /\ now \in 1..MaxTime /\ budget \in 0..CallBudget
BY DEF IInv, TypeOK, FramesOK, Frame, LedgerOK

\* The inductive invariant holds before anything was paid in.
LEMMA InitOK == Init => IInv
<1> SUFFICES ASSUME Init PROVE IInv
  OBVIOUS
<1> DEFINE p == [i \in 0..NumAddr |-> 0]
<1>1. /\ ledger = EmptyLedger /\ frames = <<>> /\ now = 1 /\ budget = CallBudget
  BY DEF Init
<1>2. NoDeposit \in DepositInfo
  BY StakeConstants DEF NoDeposit, DepositInfo
<1>3. /\ EmptyLedger.balance = 0
      /\ \A a \in Address : /\ EmptyLedger.deposits[a] = NoDeposit
                             /\ EmptyLedger.claim[a] = 0
                             /\ EmptyLedger.committed[a] = 0
                             /\ EmptyLedger.unlockedAt[a] = 0
  BY DEF EmptyLedger
<1>4. EmptyLedger \in Ledger
  BY <1>2 DEF EmptyLedger, Ledger
<1>5. \A a \in Address : Owed(EmptyLedger)[a] = 0
  BY <1>3 DEF Owed, NoDeposit
<1>6. p \in PartialSums(Owed(EmptyLedger), 0)
  <2>1. \A a \in Address : a \in 0..NumAddr /\ a - 1 \in 0..NumAddr
    BY StakeConstants DEF Address
  <2>2. p \in [0..NumAddr -> 0..0] /\ p[0] = 0
    BY StakeConstants
  <2>3. \A a \in Address : p[a] = p[a - 1] + Owed(EmptyLedger)[a]
    BY <1>5, <2>1
  <2>4. \A i, j \in 0..NumAddr : i <= j => p[i] <= p[j]
    OBVIOUS
  <2> QED  BY <2>2, <2>3, <2>4 DEF PartialSums
<1>7. p[NumAddr] = 0
  BY StakeConstants
<1>8. SumsTo(Owed(EmptyLedger), EmptyLedger.balance)
  BY <1>3, <1>6, <1>7 DEF SumsTo
<1>9. Backed(EmptyLedger)
  BY <1>3, <1>5 DEF Backed
<1>10. Locks(EmptyLedger)
  BY <1>3 DEF Locks, LockOK, NoDeposit
<1>11. LedgerOK(ledger)
  BY <1>1, <1>4, <1>8, <1>9, <1>10 DEF LedgerOK
<1>12. FramesOK(frames)
  BY <1>1, StakeConstants DEF FramesOK
<1>13. now \in 1..MaxTime /\ budget \in 0..CallBudget
  BY <1>1, StakeConstants
<1> QED  BY <1>11, <1>12, <1>13, InvSplit

\* A call by a receiver uses up some of the budget.
LEMMA EnteredOK ==
    ASSUME budget \in 0..CallBudget, Entered
    PROVE  budget' \in 0..CallBudget
BY StakeConstants DEF Entered

\* Every step keeps the inductive invariant.
LEMMA NextOK == IInv /\ [Next]_vars => IInv'
<1> SUFFICES ASSUME IInv, [Next]_vars PROVE IInv'
  OBVIOUS
<1>1. /\ LedgerOK(ledger) /\ FramesOK(frames)
      /\ now \in 1..MaxTime /\ budget \in 0..CallBudget
  BY InvSplit
<1> SUFFICES /\ LedgerOK(ledger') /\ FramesOK(frames')
             /\ now' \in 1..MaxTime /\ budget' \in 0..CallBudget
  BY InvSplit DEF IInv, TypeOK, FramesOK, Frame, LedgerOK
<1>2. ASSUME NEW a \in Address, NEW value \in Amounts, DepositTo(a, value)
      PROVE  /\ LedgerOK(ledger') /\ FramesOK(frames')
             /\ now' \in 1..MaxTime /\ budget' \in 0..CallBudget
  <2>1. value \in Nat
    BY StakeConstants
  <2>2. Entered
    BY <1>2 DEF DepositTo
  <2> QED  BY <1>1, <1>2, <2>1, <2>2, DepositToOK, EnteredOK
<1>3. ASSUME NEW a \in Address, NEW delay \in Delays, NEW value \in Amounts,
             AddStake(a, delay, value)
      PROVE  /\ LedgerOK(ledger') /\ FramesOK(frames')
             /\ now' \in 1..MaxTime /\ budget' \in 0..CallBudget
  <2>1. value \in Nat /\ delay \in Nat
    BY StakeConstants
  <2>2. Entered
    BY <1>3 DEF AddStake
  <2> QED  BY <1>1, <1>3, <2>1, <2>2, AddStakeOK, EnteredOK
<1>4. ASSUME NEW a \in Address, UnlockStake(a)
      PROVE  /\ LedgerOK(ledger') /\ FramesOK(frames')
             /\ now' \in 1..MaxTime /\ budget' \in 0..CallBudget
  <2>1. Entered
    BY <1>4 DEF UnlockStake
  <2> QED  BY <1>1, <1>4, <2>1, UnlockStakeOK, EnteredOK
<1>5. ASSUME NEW a \in Address, WithdrawStake(a)
      PROVE  /\ LedgerOK(ledger') /\ FramesOK(frames')
             /\ now' \in 1..MaxTime /\ budget' \in 0..CallBudget
  <2>1. Entered
    BY <1>5 DEF WithdrawStake
  <2>2. LedgerOK(ledger') /\ Sent
    BY <1>1, <1>5, WithdrawStakeOK
  <2> QED  BY <1>1, <2>1, <2>2, EnteredOK, Pushed DEF Sent
<1>6. ASSUME NEW a \in Address, NEW amount \in Amounts, WithdrawTo(a, amount)
      PROVE  /\ LedgerOK(ledger') /\ FramesOK(frames')
             /\ now' \in 1..MaxTime /\ budget' \in 0..CallBudget
  <2>1. Entered /\ amount \in Nat
    BY <1>6, StakeConstants DEF WithdrawTo
  <2>2. LedgerOK(ledger') /\ Sent
    BY <1>1, <1>6, <2>1, WithdrawToOK
  <2> QED  BY <1>1, <2>1, <2>2, EnteredOK, Pushed DEF Sent
<1>7. ASSUME NEW success \in BOOLEAN, SendReturns(success)
      PROVE  /\ LedgerOK(ledger') /\ FramesOK(frames')
             /\ now' \in 1..MaxTime /\ budget' \in 0..CallBudget
  <2>1. /\ frames # <<>>
        /\ ledger' = ledger \/ ledger' = Innermost.saved
        /\ frames' = SubSeq(frames, 1, Len(frames) - 1)
        /\ budget' = CallBudget \/ budget' = budget
        /\ now' = now
    BY <1>7 DEF SendReturns, Leave
  <2>2. FramesOK(frames') /\ LedgerOK(Innermost.saved)
    BY <1>1, <2>1, Popped
  <2>3. CallBudget \in 0..CallBudget
    BY StakeConstants
  <2> QED  BY <1>1, <2>1, <2>2, <2>3
<1>8. ASSUME Tick
      PROVE  /\ LedgerOK(ledger') /\ FramesOK(frames')
             /\ now' \in 1..MaxTime /\ budget' \in 0..CallBudget
  <2>1. ledger' = ledger /\ frames' = frames /\ budget' = budget /\ now' = now + 1
        /\ now < MaxTime
    BY <1>8 DEF Tick
  <2>2. now' \in 1..MaxTime
    BY <1>1, <2>1, StakeConstants
  <2> QED  BY <1>1, <2>1, <2>2
<1>9. ASSUME UNCHANGED vars
      PROVE  /\ LedgerOK(ledger') /\ FramesOK(frames')
             /\ now' \in 1..MaxTime /\ budget' \in 0..CallBudget
  BY <1>1, <1>9 DEF vars
<1> QED  BY <1>2, <1>3, <1>4, <1>5, <1>6, <1>7, <1>8, <1>9 DEF Next, StakeManagerCall

-----------------------------------------------------------------------------
(***************************************************************************)
(* The theorems.                                                           *)
(***************************************************************************)

\* The inductive invariant holds in every reachable state.
THEOREM Invariant == Spec => []IInv
<1> QED  BY InitOK, NextOK, PTL DEF Spec

\* The ledger and the call stack stay well formed, and no deposit, stake or
\* withdraw time outgrows its field.
THEOREM Typed == Spec => []TypeOK
<1>1. IInv => TypeOK
  BY DEF IInv
<1> QED  BY <1>1, Invariant, PTL

\* The contract's ether is always the sum of what it owes.
THEOREM Solvency == Spec => []Solvent
<1>1. IInv => Solvent
  BY DEF IInv, LedgerOK, Solvent
<1> QED  BY <1>1, Invariant, PTL

\* Every address is owed exactly what it paid in and did not take out.
THEOREM NoTransfer == Spec => []ClaimsBacked
<1>1. IInv => ClaimsBacked
  BY DEF IInv, LedgerOK, ClaimsBacked, Backed
<1> QED  BY <1>1, Invariant, PTL

\* No stake is ever stuck.
THEOREM NoStuckStake == Spec => []StakeRecoverable
<1>1. IInv => StakeRecoverable
  <2> SUFFICES ASSUME IInv, NEW a \in Address, ledger.deposits[a].stake > 0
               PROVE  LET info == ledger.deposits[a]
                      IN  /\ info.unstakeDelaySec > 0
                          /\ info.staked <=> info.withdrawTime = 0
                          /\ ~info.staked => info.withdrawTime
                                               = ledger.unlockedAt[a] + ledger.committed[a]
    BY DEF StakeRecoverable
  <2>1. LockOK(ledger.deposits[a], ledger.committed[a], ledger.unlockedAt[a])
        /\ ledger.deposits[a].withdrawTime \in Nat
        /\ ledger.deposits[a].staked \in BOOLEAN
    BY Fields DEF IInv
  <2> QED  BY <2>1 DEF LockOK
<1> QED  BY <1>1, Invariant, PTL

\* Stake is only released when it is due.
THEOREM ReleasedWhenDue == Spec => StakeReleasedWhenDue
<1> DEFINE Step ==
      \A a \in Address :
        (Len(frames') > Len(frames) /\ ledger'.deposits[a].stake < ledger.deposits[a].stake)
            => /\ ledger.unlockedAt[a] # 0
               /\ ledger.unlockedAt[a] + ledger.committed[a] <= now
<1>1. IInv /\ [Next]_vars => [Step]_vars
  <2> SUFFICES ASSUME IInv, Next, NEW a \in Address, Len(frames') > Len(frames),
                      ledger'.deposits[a].stake < ledger.deposits[a].stake
               PROVE  /\ ledger.unlockedAt[a] # 0
                      /\ ledger.unlockedAt[a] + ledger.committed[a] <= now
    OBVIOUS
  <2>1. LedgerOK(ledger) /\ frames \in Seq(Frame) /\ now \in Nat
    BY InvSplit DEF FramesOK
  <2>2. Len(frames) \in Nat
    BY <2>1
  <2>3. frames' # frames
    BY <2>2
  <2>4. \A success \in BOOLEAN : ~SendReturns(success)
    <3> SUFFICES ASSUME NEW success \in BOOLEAN, SendReturns(success) PROVE FALSE
      OBVIOUS
    <3>1. frames # <<>> /\ frames' = SubSeq(frames, 1, Len(frames) - 1)
      BY DEF SendReturns, Leave
    <3>2. Len(frames') = Len(frames) - 1
      BY <2>1, <3>1
    <3> QED  BY <2>2, <3>2
  <2>5. ASSUME NEW b \in Address, WithdrawStake(b)
        PROVE  /\ ledger.unlockedAt[a] # 0
               /\ ledger.unlockedAt[a] + ledger.committed[a] <= now
    <3>1. ledger.deposits[b].withdrawTime > 0 /\ ledger.deposits[b].withdrawTime <= now
      BY <2>5 DEF WithdrawStake
    <3>2. /\ LockOK(ledger.deposits[b], ledger.committed[b], ledger.unlockedAt[b])
          /\ ledger.deposits[a].stake \in Nat
      BY <2>1, Fields
    <3>3. a = b
      BY <2>1, <2>5, <3>2, WithdrawStakeOK
    <3>4. /\ ledger.unlockedAt[a] > 0
          /\ ledger.deposits[b].withdrawTime = ledger.unlockedAt[a] + ledger.committed[a]
      BY <3>1, <3>2, <3>3 DEF LockOK
    <3> QED  BY <3>1, <3>4
  <2>6. ASSUME NEW b \in Address, NEW amount \in Amounts, WithdrawTo(b, amount) PROVE FALSE
    <3>1. amount \in Nat
      BY StakeConstants
    <3>2. ledger'.deposits[a].stake = ledger.deposits[a].stake
      BY <2>1, <2>6, <3>1, WithdrawToOK
    <3>3. ledger.deposits[a].stake \in Nat
      BY <2>1, Fields
    <3> QED  BY <3>2, <3>3
  <2>7. /\ \A b \in Address, value \in Amounts : ~DepositTo(b, value)
        /\ \A b \in Address, delay \in Delays, value \in Amounts : ~AddStake(b, delay, value)
        /\ \A b \in Address : ~UnlockStake(b)
        /\ ~Tick
    <3>1. \A b \in Address, value \in Amounts : ~DepositTo(b, value)
      BY <2>3 DEF DepositTo, Finish
    <3>2. \A b \in Address, delay \in Delays, value \in Amounts : ~AddStake(b, delay, value)
      BY <2>3 DEF AddStake, Finish
    <3>3. \A b \in Address : ~UnlockStake(b)
      BY <2>3 DEF UnlockStake, Finish
    <3>4. ~Tick
      BY <2>3 DEF Tick
    <3> QED  BY <3>1, <3>2, <3>3, <3>4
  <2>8. StakeManagerCall
    BY <2>4, <2>7 DEF Next
  <2> QED  BY <2>5, <2>6, <2>7, <2>8 DEF StakeManagerCall
<1>2. Spec => [][Step]_vars
  BY <1>1, Invariant, PTL DEF Spec
<1> QED  BY <1>2 DEF StakeReleasedWhenDue

-----------------------------------------------------------------------------
(***************************************************************************)
(* Validation data: what a simulation reports of an operation is what the  *)
(* chain does with it.                                                     *)
(***************************************************************************)

\* Cutting a word into fields: a remainder fits its field.
LEMMA Remainder ==
    ASSUME NEW a \in Nat, NEW n \in Nat, n > 0
    PROVE  a % n \in 0 .. n - 1 /\ a \div n \in Nat
    OBVIOUS

\* The zero word has only zeroes in its fields.
LEMMA ZeroWord ==
    ASSUME NEW n \in Nat, n > 0
    PROVE  0 % n = 0 /\ 0 \div n = 0
    OBVIOUS

\* A product of two sizes is a size.
LEMMA Product ==
    ASSUME NEW m \in Nat, NEW n \in Nat, m > 0, n > 0
    PROVE  m * n \in Nat /\ m * n > 0
    OBVIOUS

\* Every word parses to a struct whose fields fit.
LEMMA ParseFits ==
    ASSUME NEW word \in Nat
    PROVE  ParseValidationData(word) \in Parsed
<1> DEFINE slice == word \div AddressSize
           upper == word \div (AddressSize * TimeSize)
<1>1. AddressSize \in Nat /\ AddressSize > 0 /\ TimeSize \in Nat /\ TimeSize > 0
    BY WidthConstants
<1>2. AddressSize * TimeSize \in Nat /\ AddressSize * TimeSize > 0
    BY <1>1, Product
<1>3. word % AddressSize \in Aggregator /\ slice \in Nat
    BY <1>1, Remainder DEF Aggregator
<1>4. upper \in Nat
    BY <1>2, Remainder
<1> HIDE DEF slice, upper
<1>5. upper % TimeSize \in Time /\ slice % TimeSize \in Time
    BY <1>1, <1>3, <1>4, Remainder DEF Time
<1>6. MaxUint48 \in Time
    BY <1>1 DEF MaxUint48, Time
<1>7. ParseValidationData(word) =
          [aggregator |-> word % AddressSize, validAfter |-> upper % TimeSize,
           validUntil |-> IF slice % TimeSize = 0 THEN MaxUint48 ELSE slice % TimeSize]
    BY DEF ParseValidationData, slice, upper
<1> QED
    BY <1>3, <1>5, <1>6, <1>7 DEF Parsed

\* The zero word parses to no aggregator and all of time, which is why the
\* chain may skip it.
LEMMA ParseZero ==
    /\ ParseValidationData(0).aggregator = NoAggregator
    /\ ParseValidationData(0).validAfter = 0
    /\ ParseValidationData(0).validUntil = MaxUint48
<1>1. AddressSize \in Nat /\ AddressSize > 0 /\ TimeSize \in Nat /\ TimeSize > 0
    BY WidthConstants
<1>2. AddressSize * TimeSize \in Nat /\ AddressSize * TimeSize > 0
    BY <1>1, Product
<1>3. 0 % AddressSize = 0 /\ 0 \div AddressSize = 0 /\ 0 % TimeSize = 0
         /\ 0 \div (AddressSize * TimeSize) = 0
    BY <1>1, <1>2, ZeroWord
<1> QED
    BY <1>3 DEF ParseValidationData, NoAggregator

\* _getValidationData reads of every word, zero or not, what parsing it says.
LEMMA ReadAsParsed ==
    ASSUME NEW word \in Nat, NEW time \in Time
    PROVE  /\ AggregatorOf(word) = ParseValidationData(word).aggregator
           /\ OutOfTimeRange(word, time) <=>
                 \/ time > ParseValidationData(word).validUntil
                 \/ time < ParseValidationData(word).validAfter
<1>1. CASE word = 0
    BY <1>1, ParseZero, WidthConstants DEF AggregatorOf, OutOfTimeRange, Time, MaxUint48
<1>2. CASE word # 0
    BY <1>2 DEF AggregatorOf, OutOfTimeRange
<1> QED
    BY <1>1, <1>2

\* What _intersectTimeRange makes of two words, field by field.
LEMMA Intersection ==
    ASSUME NEW word \in Nat, NEW pmWord \in Nat
    PROVE  LET data == ParseValidationData(word)
               pmData == ParseValidationData(pmWord)
               both == IntersectTimeRange(word, pmWord)
           IN  /\ both \in Parsed
               /\ both.aggregator = IF data.aggregator = NoAggregator
                                    THEN pmData.aggregator ELSE data.aggregator
               /\ \A time \in Time :
                     both.validAfter <= time /\ time <= both.validUntil <=>
                         /\ data.validAfter <= time /\ time <= data.validUntil
                         /\ pmData.validAfter <= time /\ time <= pmData.validUntil
<1> DEFINE data == ParseValidationData(word)
           pmData == ParseValidationData(pmWord)
           both == IntersectTimeRange(word, pmWord)
<1>1. data \in Parsed /\ pmData \in Parsed
    BY ParseFits
<1>2. both = [aggregator |-> IF data.aggregator = NoAggregator
                             THEN pmData.aggregator ELSE data.aggregator,
              validAfter |-> Larger(data.validAfter, pmData.validAfter),
              validUntil |-> Smaller(data.validUntil, pmData.validUntil)]
    BY DEF IntersectTimeRange
<1> HIDE DEF data, pmData, both
<1>3. both \in Parsed
    BY <1>1, <1>2 DEF Parsed, Larger, Smaller
<1>4. Time \subseteq Int
    BY WidthConstants DEF Time
<1>5. ASSUME NEW time \in Time
      PROVE  both.validAfter <= time /\ time <= both.validUntil <=>
                 /\ data.validAfter <= time /\ time <= data.validUntil
                 /\ pmData.validAfter <= time /\ time <= pmData.validUntil
  <2>1. both.validAfter = Larger(data.validAfter, pmData.validAfter)
        /\ both.validUntil = Smaller(data.validUntil, pmData.validUntil)
      BY <1>2
  <2>2. /\ data.validAfter \in Int /\ pmData.validAfter \in Int
        /\ data.validUntil \in Int /\ pmData.validUntil \in Int
      BY <1>1, <1>4 DEF Parsed
  <2>3. time \in Int
      BY <1>4
  <2>4. Larger(data.validAfter, pmData.validAfter) <= time <=>
            data.validAfter <= time /\ pmData.validAfter <= time
      BY <2>2, <2>3 DEF Larger
  <2>5. time <= Smaller(data.validUntil, pmData.validUntil) <=>
            time <= data.validUntil /\ time <= pmData.validUntil
      BY <2>2, <2>3 DEF Smaller
  <2> QED
      BY <2>1, <2>4, <2>5
<1>6. both.aggregator = IF data.aggregator = NoAggregator
                        THEN pmData.aggregator ELSE data.aggregator
    BY <1>2
<1> QED
    BY <1>3, <1>5, <1>6 DEF data, pmData, both

-----------------------------------------------------------------------------
\* A multiple of n within n of zero is zero.
LEMMA Multiple ==
    ASSUME NEW n \in Nat, n > 0, NEW k \in Int, 0 - n < n * k, n * k < n
    PROVE  k = 0
<1>1. CASE k >= 1
    <2>1. n * k >= n
        BY <1>1
    <2> QED BY <2>1
<1>2. CASE k <= 0 - 1
    <2>1. n * k <= 0 - n
        BY <1>2
    <2> QED BY <2>1
<1> QED BY <1>1, <1>2

\* The lower and the upper part of a number in base n are unique.
LEMMA Split ==
    ASSUME NEW n \in Nat, n > 0, NEW a \in 0 .. n - 1, NEW b \in Nat
    PROVE  (a + b * n) % n = a /\ (a + b * n) \div n = b
<1> DEFINE x == a + b * n
<1>1. b * n \in Nat /\ x \in Nat /\ x = a + n * b
    OBVIOUS
<1>2. x \div n \in Nat /\ x % n \in 0 .. n - 1 /\ x = n * (x \div n) + (x % n)
    BY <1>1
<1> HIDE DEF x
<1>3. ASSUME NEW q \in Nat, NEW r \in 0 .. n - 1, x = n * q + r
      PROVE  q = b /\ r = a
    <2>1. n * (q - b) = a - r
        BY <1>1, <1>3
    <2>2. q - b = 0
        BY <2>1, Multiple
    <2> QED BY <2>1, <2>2, <1>1, <1>3
<1> QED BY <1>2, <1>3 DEF x

\* Each field of a packed word is where _parseValidationData looks for it.
LEMMA PackedFields ==
    ASSUME NEW data \in Parsed
    PROVE  ParseValidationData(PackValidationData(data)) =
               [data EXCEPT !.validUntil = IF data.validUntil = 0 THEN MaxUint48
                                           ELSE data.validUntil]
<1> DEFINE a == data.aggregator
           u == data.validUntil
           v == data.validAfter
           word == PackValidationData(data)
<1>1. /\ AddressSize \in Nat /\ AddressSize > 0 /\ TimeSize \in Nat /\ TimeSize > 0
      /\ a \in 0 .. AddressSize - 1 /\ u \in 0 .. TimeSize - 1 /\ v \in 0 .. TimeSize - 1
    BY WidthConstants DEF Parsed, Aggregator, Time
<1>2. word = a + u * AddressSize + v * AddressSize * TimeSize
    BY DEF PackValidationData
<1>3. data = [aggregator |-> a, validAfter |-> v, validUntil |-> u]
    BY DEF Parsed
<1> HIDE DEF a, u, v, word
<1>4. word % AddressSize = a /\ word \div AddressSize = u + v * TimeSize
  <2>1. u + v * TimeSize \in Nat
      BY <1>1
  <2>2. word = a + (u + v * TimeSize) * AddressSize
      BY <1>1, <1>2
  <2> QED
      BY <1>1, <2>1, <2>2, Split
<1>5. (u + v * TimeSize) % TimeSize = u
    BY <1>1, Split
<1>6. word \div (AddressSize * TimeSize) = v
  <2> DEFINE n == AddressSize * TimeSize
             low == a + u * AddressSize
  <2>1. n \in Nat /\ n > 0
      BY <1>1, Product
  <2>2. low \in Nat /\ low <= n - 1
    <3>1. u * AddressSize \in Nat /\ u * AddressSize <= (TimeSize - 1) * AddressSize
        BY <1>1
    <3>2. (TimeSize - 1) * AddressSize = n - AddressSize
        BY <1>1
    <3> QED
        BY <1>1, <2>1, <3>1, <3>2
  <2>3. word = low + v * n
      BY <1>1, <1>2
  <2> HIDE DEF n, low
  <2>4. word \div n = v
      BY <1>1, <2>1, <2>2, <2>3, Split
  <2> QED
      BY <2>4 DEF n
<1>7. v % TimeSize = v
    BY <1>1
<1>8. ParseValidationData(word) =
          [aggregator |-> a, validAfter |-> v,
           validUntil |-> IF u = 0 THEN MaxUint48 ELSE u]
    BY <1>4, <1>5, <1>6, <1>7 DEF ParseValidationData
<1> QED
    BY <1>3, <1>8 DEF a, u, v, word

-----------------------------------------------------------------------------
\* Words have no negative fields.
LEMMA WordsAreNat == Word \subseteq Nat
    BY DEF Word

\* The state keeps its words while time passes within its range.
LEMMA WordsInvariant == WordsSpec => [](validationData \in Word /\ paymasterValidationData \in Word /\ timestamp \in Time)
<1> DEFINE Inv == validationData \in Word /\ paymasterValidationData \in Word /\ timestamp \in Time
<1>1. WordsInit => Inv
    BY WidthConstants DEF WordsInit, Time
<1>2. Inv /\ [WordsTick]_wordVars => Inv'
    BY WidthConstants DEF WordsTick, wordVars, Time, MaxUint48
<1> QED
    BY <1>1, <1>2, PTL DEF WordsSpec

\* Words, times, and everything that Helpers.sol makes of words fit their
\* fields, whatever the widths.
THEOREM WordsTyped == WordsSpec => []WordsOK
<1>1. ASSUME validationData \in Word, paymasterValidationData \in Word, timestamp \in Time
      PROVE  WordsOK
    BY <1>1, WordsAreNat, ParseFits, Intersection DEF WordsOK
<1> QED
    BY <1>1, WordsInvariant, PTL

\* _packValidationData and _parseValidationData are inverses, but for the zero
\* that stands for the end of time.
THEOREM RoundTrips == WordsSpec => []RoundTrip
<1>1. ASSUME validationData \in Word
      PROVE  RoundTrip
  <2> DEFINE data == ParseValidationData(validationData)
             endless == [data EXCEPT !.validUntil = 0]
  <2>1. data \in Parsed
      BY <1>1, WordsAreNat, ParseFits
  <2>2. data.validUntil # 0 /\ 0 \in Time /\ {NoAggregator, SigFailed} \subseteq Aggregator
      BY WidthConstants DEF ParseValidationData, MaxUint48, Time, Aggregator, NoAggregator, SigFailed
  <2> HIDE DEF data
  <2>3. ParseValidationData(PackValidationData(data)) = data
      BY <2>1, <2>2, PackedFields DEF Parsed
  <2>4. ParseValidationData(PackValidationData(endless)) = [data EXCEPT !.validUntil = MaxUint48]
    <3>1. endless \in Parsed /\ endless.validUntil = 0
        BY <2>1, <2>2 DEF Parsed
    <3>2. [endless EXCEPT !.validUntil = MaxUint48] = [data EXCEPT !.validUntil = MaxUint48]
        BY <2>1 DEF Parsed
    <3> HIDE DEF endless
    <3> QED
        BY <3>1, <3>2, PackedFields
  <2>5. ASSUME NEW sigFailed \in BOOLEAN
        PROVE  ParseValidationData(PackSigFailed(sigFailed, data.validUntil, data.validAfter)) =
                   [data EXCEPT !.aggregator = IF sigFailed THEN SigFailed ELSE NoAggregator]
    <3> DEFINE signed == [data EXCEPT !.aggregator = IF sigFailed THEN SigFailed ELSE NoAggregator]
    <3>1. signed \in Parsed /\ signed.validUntil = data.validUntil
        BY <2>1, <2>2 DEF Parsed
    <3>2. PackSigFailed(sigFailed, data.validUntil, data.validAfter) = PackValidationData(signed)
        BY <2>1 DEF PackSigFailed, Parsed
    <3> HIDE DEF signed
    <3>3. [signed EXCEPT !.validUntil = data.validUntil] = signed
        BY <3>1 DEF Parsed
    <3>4. ParseValidationData(PackValidationData(signed)) = signed
        BY <2>2, <3>1, <3>3, PackedFields
    <3> QED
        BY <3>2, <3>4 DEF signed
  <2> QED
      BY <2>3, <2>4, <2>5 DEF RoundTrip, data
<1> QED
    BY <1>1, WordsInvariant, PTL

\* The range and the aggregator that simulateValidation reports are exactly
\* those that _validateAccountAndPaymasterValidationData accepts.
THEOREM SimulationIsExact == WordsSpec => []SimulationExact
<1>1. ASSUME validationData \in Word, paymasterValidationData \in Word, timestamp \in Time
      PROVE  SimulationExact
  <2> DEFINE reported == Simulated(validationData, paymasterValidationData)
             data == ParseValidationData(validationData)
             pmData == ParseValidationData(paymasterValidationData)
  <2>1. validationData \in Nat /\ paymasterValidationData \in Nat
      BY <1>1, WordsAreNat
  <2>2. data \in Parsed /\ pmData \in Parsed /\ Time \subseteq Int
      BY <2>1, ParseFits, WidthConstants DEF Time
  <2>3. /\ reported.aggregator = IntersectTimeRange(validationData, paymasterValidationData).aggregator
        /\ reported.validAfter = IntersectTimeRange(validationData, paymasterValidationData).validAfter
        /\ reported.validUntil = IntersectTimeRange(validationData, paymasterValidationData).validUntil
      BY DEF Simulated
  <2>4. reported.validAfter <= timestamp /\ timestamp <= reported.validUntil <=>
            /\ data.validAfter <= timestamp /\ timestamp <= data.validUntil
            /\ pmData.validAfter <= timestamp /\ timestamp <= pmData.validUntil
      BY <1>1, <2>1, <2>3, Intersection
  <2>5. reported.aggregator = IF data.aggregator = NoAggregator
                              THEN pmData.aggregator ELSE data.aggregator
      BY <2>1, <2>3, Intersection
  <2>6. /\ AggregatorOf(validationData) = data.aggregator
        /\ OutOfTimeRange(validationData, timestamp) <=> timestamp > data.validUntil \/ timestamp < data.validAfter
      BY <1>1, <2>1, ReadAsParsed
  <2>7. /\ AggregatorOf(paymasterValidationData) = pmData.aggregator
        /\ OutOfTimeRange(paymasterValidationData, timestamp) <=>
              timestamp > pmData.validUntil \/ timestamp < pmData.validAfter
      BY <1>1, <2>1, ReadAsParsed
  <2> HIDE DEF reported, data, pmData
  <2>8. pmData.aggregator = NoAggregator =>
            (Accepted(validationData, paymasterValidationData, reported.aggregator, timestamp)
                <=> reported.validAfter <= timestamp /\ timestamp <= reported.validUntil)
    <3>1. /\ data.validAfter \in Int /\ pmData.validAfter \in Int
          /\ data.validUntil \in Int /\ pmData.validUntil \in Int /\ timestamp \in Int
        BY <1>1, <2>2 DEF Parsed
    <3>2. ~OutOfTimeRange(validationData, timestamp) <=>
              data.validAfter <= timestamp /\ timestamp <= data.validUntil
        BY <2>6, <3>1
    <3>3. ~OutOfTimeRange(paymasterValidationData, timestamp) <=>
              pmData.validAfter <= timestamp /\ timestamp <= pmData.validUntil
        BY <2>7, <3>1
    <3>4. ASSUME pmData.aggregator = NoAggregator
          PROVE  AggregatorOf(validationData) = reported.aggregator
        BY <2>5, <2>6, <3>4
    <3> QED
        BY <2>4, <2>7, <3>2, <3>3, <3>4 DEF Accepted
  <2> QED
      BY <2>7, <2>8 DEF SimulationExact, reported
<1> QED
    BY <1>1, WordsInvariant, PTL

\* Neither handleOps nor, with an account that names no aggregator, a
\* simulation takes a failed signature for a good one.
THEOREM FailuresReported == WordsSpec => []FailureReported
<1>1. ASSUME validationData \in Word, paymasterValidationData \in Word, timestamp \in Time
      PROVE  FailureReported
  <2> DEFINE reported == Simulated(validationData, paymasterValidationData)
             account == AggregatorOf(validationData)
             paymaster == AggregatorOf(paymasterValidationData)
  <2>1. validationData \in Nat /\ paymasterValidationData \in Nat
      BY <1>1, WordsAreNat
  <2>2. account = ParseValidationData(validationData).aggregator
        /\ paymaster = ParseValidationData(paymasterValidationData).aggregator
      BY <1>1, <2>1, ReadAsParsed
  <2>3. reported.sigFailed <=>
            (IF account = NoAggregator THEN paymaster ELSE account) = SigFailed
      BY <2>1, <2>2, Intersection DEF Simulated
  <2>4. SigFailed # NoAggregator
      BY DEF SigFailed, NoAggregator
  <2>5. Accepted(validationData, paymasterValidationData, NoAggregator, timestamp) =>
            account = NoAggregator /\ paymaster = NoAggregator
      BY DEF Accepted
  <2> HIDE DEF reported, account, paymaster
  <2>6. SigFailed \in {account, paymaster} =>
            /\ ~Accepted(validationData, paymasterValidationData, NoAggregator, timestamp)
            /\ account \in {NoAggregator, SigFailed} => reported.sigFailed
      BY <2>3, <2>4, <2>5
  <2> QED
      BY <2>6 DEF FailureReported, reported, account, paymaster
<1> QED
    BY <1>1, WordsInvariant, PTL

=============================================================================
