----------------------------- MODULE GasChecker -----------------------------
(***************************************************************************)
(* gascalc/GasChecker.ts: the tests of gascalc measure bundles of growing  *)
(* size, and put the results into one table.  Mocha loads all files, whose *)
(* GasCheckers start the one GasCheckCollector, and then runs one test     *)
(* after the other; it stops at the first that fails or takes too long     *)
(* (--bail in package.json), and then the table is written, unless nothing *)
(* was measured.                                                           *)
(* Meanwhile others may deploy on the same chain.                          *)
(*                                                                         *)
(* Gas is what it was used for: gasUsed is the file and the number of      *)
(* operations, and an estimate tells whether there was code to run.  All   *)
(* operations call one method of their own account, which has a nonce that *)
(* nobody else uses.                                                       *)
(***************************************************************************)
EXTENDS Create2Factory, Sequences, SequencesExt

CONSTANTS
    File,       \* the files, each with one GasChecker
    Test,       \* the tests: a sequence of [file, rows]
    MaxCount,   \* the largest count of a row
    Runner,     \* the caller that runs the tests
    Other       \* callers of deploy in other programs

EntryPoint == "EntryPoint"
AccountFactory == "SimpleAccountFactory"

ASSUME CheckerConstants ==
    /\ Caller = File \cup {Runner} \cup Other
    /\ (File \cup {Runner}) \cap Other = {}
    /\ Contract = {EntryPoint, AccountFactory}
    /\ MaxCount \in Nat
    /\ Test # <<>>
    /\ Test \in Seq([file: File,
                     rows: Seq([count: 1 .. MaxCount, diffLastGas: BOOLEAN, added: BOOLEAN])])
    /\ \A i \in DOMAIN Test : Test[i].rows # <<>>
    /\ LET size == File \X (1 .. MaxCount)
       IN  Null \notin {"execute", "nothing"} \cup size \cup (size \X (size \cup {Null}))

\* In all files of gascalc, a row that shows a difference follows a row of the
\* same test with one operation less.
ASSUME TestsAsWritten ==
    \A i \in DOMAIN Test : \A j \in DOMAIN Test[i].rows :
        Test[i].rows[j].diffLastGas =>
            j > 1 /\ Test[i].rows[j].count = Test[i].rows[j - 1].count + 1

VARIABLES
    inst,         \* GasCheckCollector.inst: the caller that made it
    initPromise,  \* GasCheckCollector.initPromise
    waiting,      \* calls of init: the promise they wait for, and the outcome
    collector,    \* the collectors, by who made them
    run,          \* the test that mocha runs
    gasEstimatePerExec, lastGasUsed,
    accounts,     \* the accounts: deployed or not, and their deposits
    table         \* the table that was written

checkerVars ==
    <<inst, initPromise, waiting, collector, run, gasEstimatePerExec, lastGasUsed, accounts, table>>
vars == <<factoryVars, checkerVars>>

Salt == 0 .. MaxCount - 1

Account == File \X Salt

InitCaller == File \cup {Runner}

-----------------------------------------------------------------------------
\* The owners of the accounts are the same in every run of the program, and
\* find the accounts of an earlier one, if there was any.
NoOps == [n \in Salt |-> "none"]

NewRun ==
    [pc |-> "load", test |-> 1, row |-> 1, n |-> 0, to |-> Null, ops |-> NoOps, accountEst |-> Null,
     failed |-> FALSE]

Init ==
    /\ FactoryInit
    /\ inst = Null
    /\ initPromise = Null
    /\ waiting = [p \in InitCaller |-> [pc |-> "idle", for |-> Null]]
    /\ collector = [p \in InitCaller |-> [pc |-> "none", tabRows |-> <<>>]]
    /\ run = NewRun
    /\ gasEstimatePerExec = Null
    /\ lastGasUsed = Null
    /\ \E deposit \in 1 .. 2 :
        accounts = IF AccountFactory \in chain.code
                   THEN [a \in Account |-> [code |-> TRUE, deposit |-> deposit]]
                   ELSE [a \in Account |-> [code |-> FALSE, deposit |-> 0]]
    /\ table = Null

measured == <<gasEstimatePerExec, lastGasUsed, accounts, table>>
collected == <<inst, initPromise, waiting, collector>>

(***************************************************************************)
(* GasCheckCollector.init: the promise is made before anything is awaited. *)
(***************************************************************************)
WaitFor(p, promise) == waiting' = [waiting EXCEPT ![p] = [pc |-> "await", for |-> promise]]

NewCollector(p) == collector' = [collector EXCEPT ![p] = [pc |-> "balance", tabRows |-> <<>>]]

CollectorInit(p) ==
    /\ \/ /\ inst # Null
          /\ waiting' = [waiting EXCEPT ![p].pc = "done"]
          /\ UNCHANGED <<initPromise, collector>>
       \/ /\ inst = Null /\ initPromise = Null
          /\ initPromise' = p
          /\ NewCollector(p)
          /\ WaitFor(p, p)
       \/ /\ inst = Null /\ initPromise # Null
          /\ WaitFor(p, initPromise)
          /\ UNCHANGED <<initPromise, collector>>
    /\ UNCHANGED inst

\* Mutant of Awaited: each caller that waited has a collector of its own.
AwaitedOwn(p) ==
    /\ waiting[p].pc = "await"
    /\ LET promise == waiting[p].for
       IN  \/ /\ collector[promise].pc = "ready"
              /\ inst' = p
              /\ waiting' = [waiting EXCEPT ![p].pc = "done"]
           \/ /\ collector[promise].pc = "rejected"
              /\ waiting' = [waiting EXCEPT ![p].pc = "thrown"]
              /\ UNCHANGED inst
    /\ UNCHANGED <<initPromise, collector, run, measured, factoryVars>>

Awaited(p) ==
    /\ waiting[p].pc = "await"
    /\ LET promise == waiting[p].for
       IN  \/ /\ collector[promise].pc = "ready"
              /\ inst' = promise
              /\ waiting' = [waiting EXCEPT ![p].pc = "done"]
           \/ /\ collector[promise].pc = "rejected"
              /\ waiting' = [waiting EXCEPT ![p].pc = "thrown"]
              /\ UNCHANGED inst
    /\ UNCHANGED <<initPromise, collector, run, measured, factoryVars>>

(***************************************************************************)
(* _init: the signer's balance decides which signer is used, and then the  *)
(* EntryPoint is deployed (deployEntryPoint of test/testutils.ts).         *)
(***************************************************************************)
GotSigner(p) ==
    /\ collector[p].pc = "balance"
    /\ collector' = [collector EXCEPT ![p].pc = "deploy"]
    /\ deploy' = [deploy EXCEPT ![p] = Deploying(EntryPoint)]
    /\ UNCHANGED <<automine, chain, inst, initPromise, waiting, run, measured>>

GotEntryPoint(p) ==
    /\ collector[p].pc = "deploy"
    /\ \/ deploy[p].pc = "returned" /\ collector' = [collector EXCEPT ![p] = [pc |-> "ready", tabRows |-> <<>>]]
       \/ deploy[p].pc = "thrown" /\ collector' = [collector EXCEPT ![p].pc = "rejected"]
    /\ UNCHANGED <<inst, initPromise, waiting, run, measured, factoryVars>>

Collecting(p) == GotSigner(p) \/ GotEntryPoint(p) \/ Awaited(p)

-----------------------------------------------------------------------------
(***************************************************************************)
(* Mocha.                                                                  *)
(***************************************************************************)
Loading == \E f \in File : waiting[f].pc = "idle"

\* The constructor of GasChecker; the outcome of init is not waited for.
Construct(f) ==
    /\ waiting[f].pc = "idle"
    /\ CollectorInit(f)
    /\ UNCHANGED <<run, measured, factoryVars>>

Row == Test[run.test].rows[run.row]

TheAccount(n) == <<Test[run.test].file, n>>

Fail == run' = [run EXCEPT !.pc = "bail", !.failed = TRUE]

AtEnd == run.test = Len(Test) /\ run.row = Len(Test[run.test].rows)

NextRow ==
    run' = IF AtEnd THEN [NewRun EXCEPT !.pc = "end", !.test = run.test + 1]
           ELSE IF run.row < Len(Test[run.test].rows)
                THEN [NewRun EXCEPT !.pc = "start", !.test = run.test, !.row = run.row + 1]
                ELSE [NewRun EXCEPT !.pc = "start", !.test = run.test + 1]

\* addTestRow, and the first line of the warmup.
StartRow ==
    /\ \/ run.pc = "load" /\ ~Loading
       \/ run.pc = "start"
    /\ CollectorInit(Runner)
    /\ run' = [run EXCEPT !.pc = "init"]
    /\ UNCHANGED <<measured, factoryVars>>

\* The collector that gets the row is looked up before the test is run.
RunTest ==
    /\ run.pc = "init"
    /\ \/ /\ waiting[Runner].pc = "done"
          /\ deploy' = [deploy EXCEPT ![Runner] = Deploying(AccountFactory)]
          /\ run' = [run EXCEPT !.pc = "factory", !.to = inst]
       \/ waiting[Runner].pc = "thrown" /\ Fail /\ UNCHANGED deploy
    /\ UNCHANGED <<automine, chain, collected, measured>>

TimesOut ==
    /\ run.pc \notin {"load", "bail", "end", "exit", "crashed"}
    /\ run' = [run EXCEPT !.pc = "bail"]
    /\ UNCHANGED <<collected, measured, factoryVars>>

\* Mutant of DoneTable: it is called at the end of the tests, not in a hook.
DoneTableAtEnd ==
    /\ run.pc = "end"
    /\ run' = [run EXCEPT !.pc = "exit"]
    /\ table' = collector[inst].tabRows
    /\ UNCHANGED <<collected, gasEstimatePerExec, lastGasUsed, accounts, factoryVars>>

\* doneTable in the hook `after': it throws without a collector, and without an
\* estimate too, as `table' is then asked for a table of no rows.
DoneTable ==
    /\ run.pc \in {"bail", "end"}
    /\ IF inst = Null \/ gasEstimatePerExec = Null
       THEN run' = [run EXCEPT !.pc = "crashed"] /\ UNCHANGED table
       ELSE run' = [run EXCEPT !.pc = "exit"] /\ table' = collector[inst].tabRows
    /\ UNCHANGED <<collected, gasEstimatePerExec, lastGasUsed, accounts, factoryVars>>

-----------------------------------------------------------------------------
(***************************************************************************)
(* createAccounts1.  Deposits count minDepositOrBalance.  Neither of the   *)
(* two transactions is waited for.                                         *)
(***************************************************************************)
AccountKind == {"createAccount", "depositTo"}

GotFactory ==
    /\ run.pc = "factory"
    /\ \/ deploy[Runner].pc = "returned" /\ run' = [run EXCEPT !.pc = "create"]
       \/ deploy[Runner].pc = "thrown" /\ Fail
    /\ UNCHANGED <<collected, measured, factoryVars>>

AccountMined(s, kind, a) ==
    IF kind = "createAccount" THEN [s EXCEPT ![a].code = TRUE]
    ELSE [s EXCEPT ![a].deposit = @ + 5]

SubmitFor(kind, a) ==
    IF automine
    THEN accounts' = AccountMined(accounts, kind, a) /\ UNCHANGED chain
    ELSE chain' = [chain EXCEPT !.pool = @ \cup {Tx(kind, Runner, a)}] /\ UNCHANGED accounts

MineForAccount ==
    /\ \E tx \in chain.pool :
        /\ tx.kind \in AccountKind
        /\ chain' = [chain EXCEPT !.pool = @ \ {tx}]
        /\ accounts' = AccountMined(accounts, tx.kind, tx.what)
    /\ UNCHANGED <<automine, deploy, collected, run, gasEstimatePerExec, lastGasUsed, table>>

\* Mutant of CreateAccount: it relies on the account of an earlier run.
CreateNoAccount ==
    /\ run.pc = "create"
    /\ run.n < Row.count
    /\ run' = [run EXCEPT !.pc = "balanceOf"]
    /\ UNCHANGED <<collected, measured, factoryVars>>

CreateAccount ==
    /\ run.pc = "create"
    /\ run.n < Row.count
    /\ SubmitFor("createAccount", TheAccount(run.n))
    /\ run' = [run EXCEPT !.pc = "balanceOf"]
    /\ UNCHANGED <<automine, deploy, collected, gasEstimatePerExec, lastGasUsed, table>>

MinDepositOrBalance == 1

GotBalance ==
    /\ run.pc = "balanceOf"
    /\ run' = IF accounts[TheAccount(run.n)].deposit <= MinDepositOrBalance
              THEN [run EXCEPT !.pc = "depositTo"]
              ELSE [run EXCEPT !.pc = "create", !.n = @ + 1]
    /\ UNCHANGED <<collected, measured, factoryVars>>

DepositTo ==
    /\ run.pc = "depositTo"
    /\ SubmitFor("depositTo", TheAccount(run.n))
    /\ run' = [run EXCEPT !.pc = "create", !.n = @ + 1]
    /\ UNCHANGED <<automine, deploy, collected, gasEstimatePerExec, lastGasUsed, table>>

CreateAccounts1 == GotFactory \/ CreateAccount \/ GotBalance \/ DepositTo

-----------------------------------------------------------------------------
(***************************************************************************)
(* The rest of runTest.  The operations are made at once, each of which    *)
(* looks for the estimate before any has it.                               *)
(***************************************************************************)
Used == 0 .. Row.count - 1

MakeOps ==
    /\ run.pc = "create"
    /\ run.n = Row.count
    /\ run' = [run EXCEPT !.pc = "ops",
                          !.accountEst = gasEstimatePerExec,
                          !.ops = [n \in Salt |-> IF n \notin Used THEN "none"
                                                  ELSE IF gasEstimatePerExec = Null THEN "estimate"
                                                  ELSE "nonce"]]
    /\ UNCHANGED <<collected, measured, factoryVars>>

\* A call of an account that is not there succeeds, and costs little.
GotExecEstimate(n) ==
    /\ run.pc = "ops"
    /\ run.ops[n] = "estimate"
    /\ LET est == IF accounts[TheAccount(n)].code THEN "execute" ELSE "nothing"
       IN  /\ gasEstimatePerExec' = est
           /\ run' = [run EXCEPT !.ops[n] = "nonce", !.accountEst = est]
    /\ UNCHANGED <<collected, lastGasUsed, accounts, table, factoryVars>>

\* fillAndSign asks the account for its nonce.
FillAndSign(n) ==
    /\ run.pc = "ops"
    /\ run.ops[n] = "nonce"
    /\ IF accounts[TheAccount(n)].code THEN run' = [run EXCEPT !.ops[n] = "signed"] ELSE Fail
    /\ UNCHANGED <<collected, measured, factoryVars>>

\* The bundle is estimated: it is valid when all accounts can pay.
EstimateHandleOps ==
    /\ run.pc = "ops"
    /\ \A n \in Used : run.ops[n] = "signed"
    /\ IF \A n \in Used : accounts[TheAccount(n)].deposit > 0
       THEN run' = [run EXCEPT !.pc = "handleOps"]
       ELSE Fail
    /\ UNCHANGED <<collected, measured, factoryVars>>

\* It is executed, at once or later, but after the deposits that the same
\* signer sent before it.  An operation costs less than minDepositOrBalance;
\* all of that is taken here, the worst case.
HandleOps ==
    /\ run.pc = "handleOps"
    /\ \A tx \in chain.pool : tx.kind # "depositTo"
    /\ accounts' = [a \in Account |->
         IF \E n \in Used : a = TheAccount(n)
         THEN [accounts[a] EXCEPT !.deposit = @ - 1] ELSE accounts[a]]
    /\ run' = [run EXCEPT !.pc = "receipt"]
    /\ UNCHANGED <<collected, gasEstimatePerExec, lastGasUsed, table, factoryVars>>

GasUsed == <<Test[run.test].file, Row.count>>

\* What addRow puts into the table.  The warmup adds none.
Result(last) ==
    [count |-> Row.count,
     gasDiff |-> IF Row.diffLastGas THEN <<GasUsed, last>> ELSE Null,
     accountEst |-> run.accountEst]

AddRow(last) ==
    IF Row.added
    THEN collector' = [collector EXCEPT ![run.to].tabRows = Append(@, Result(last))]
    ELSE UNCHANGED collector

\* Mutant of GotReceiptOfOps: the last gas used is replaced first.
GotReceiptReplacing ==
    /\ run.pc = "receipt"
    /\ lastGasUsed' = GasUsed
    /\ AddRow(GasUsed)
    /\ NextRow
    /\ UNCHANGED <<inst, initPromise, waiting, gasEstimatePerExec, accounts, table, factoryVars>>

GotReceiptOfOps ==
    /\ run.pc = "receipt"
    /\ lastGasUsed' = GasUsed
    /\ AddRow(lastGasUsed)
    /\ NextRow
    /\ UNCHANGED <<inst, initPromise, waiting, gasEstimatePerExec, accounts, table, factoryVars>>

Measure ==
    \/ MakeOps \/ EstimateHandleOps \/ HandleOps \/ GotReceiptOfOps
    \/ \E n \in Salt : GotExecEstimate(n) \/ FillAndSign(n)

-----------------------------------------------------------------------------
\* What happens after the program ended is left out.
Ended == run.pc \in {"exit", "crashed"}

\* Another program deploys one of the contracts.
OtherDeploys(d) ==
    /\ deploy[d].pc = "idle"
    /\ ~Ended
    /\ \E what \in Contract : deploy' = [deploy EXCEPT ![d] = Deploying(what)]
    /\ UNCHANGED <<automine, chain, checkerVars>>

Deploys == ~Ended /\ \E d \in Caller : Deploy(d) /\ UNCHANGED checkerVars

Mines == ~Ended /\ ((Mine /\ UNCHANGED checkerVars) \/ MineForAccount)

Running ==
    \/ \E f \in File : Construct(f)
    \/ StartRow \/ RunTest \/ CreateAccounts1 \/ Measure \/ DoneTable
    \/ ~Ended /\ \E p \in InitCaller : Collecting(p)

Next == Running \/ TimesOut \/ Deploys \/ Mines \/ \E d \in Other : OtherDeploys(d)

Spec == Init /\ [][Next]_vars

\* The node answers and mines, and the program goes on.
FairSpec ==
    /\ Spec
    /\ WF_vars(Running) /\ WF_vars(Mines)
    /\ WF_vars(Deploys)

-----------------------------------------------------------------------------
\* The rows that the first j rows of test i add to the table, and those of the
\* first k tests.
AddedRows(i, j) ==
    FlattenSeq([n \in 1 .. j |-> IF Test[i].rows[n].added THEN <<Test[i].rows[n]>> ELSE <<>>])

RowsOf(k) == FlattenSeq([i \in 1 .. k |-> AddedRows(i, Len(Test[i].rows))])

\* The table that is written has the rows of every test that ended, in the
\* order of the tests, although every file starts a collector: they are rows
\* of one and the same (lines 98, 152, 266-273, 351).
TableComplete ==
    table # Null =>
        LET expected == RowsOf(run.test - 1)
        IN  /\ Len(table) >= Len(expected)
            /\ \A i \in DOMAIN expected :
                /\ table[i].count = expected[i].count
                /\ table[i].gasDiff = Null <=> ~expected[i].diffLastGas

\* What the table calls the delta for one UserOp (line 297) is the difference
\* of two bundles of one file, of which one has one operation more.
DeltaForOneOp ==
    \A p \in InitCaller : \A i \in DOMAIN collector[p].tabRows :
        LET row == collector[p].tabRows[i]
        IN  row.gasDiff # Null =>
                /\ row.gasDiff[2] # Null
                /\ row.gasDiff[1][1] = row.gasDiff[2][1]
                /\ row.gasDiff[1][2] = row.gasDiff[2][2] + 1

\* On a node that mines at once, what the overhead is compared to is a call of
\* account.exec() (line 299), and the estimate that is kept for later tests too.
OverheadOverExec ==
    automine =>
        /\ gasEstimatePerExec # "nothing"
        /\ \A p \in InitCaller : \A i \in DOMAIN collector[p].tabRows :
            collector[p].tabRows[i].accountEst = "execute"

\* On such a node, when nobody else deploys, no test fails, but for one that
\* takes too long: all accounts of a bundle exist and can pay, whatever earlier
\* bundles paid from their deposits (lines 116-117).
AlonePasses ==
    automine /\ (\A d \in Other : deploy[d].pc = "idle") => ~run.failed

\* Once a first operation was estimated the table is written, whatever test fails
\* or takes too long (lines 345-351, 368-370).  Before that it is lost.
TableWritten == gasEstimatePerExec # Null ~> table # Null

=============================================================================
