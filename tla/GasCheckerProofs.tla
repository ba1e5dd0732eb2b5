-------------------------- MODULE GasCheckerProofs --------------------------
(***************************************************************************)
(* What src/Create2Factory.ts and gascalc/GasChecker.ts guarantee, for any *)
(* number of callers of deploy, of files, tests and rows.                  *)
(***************************************************************************)
EXTENDS GasChecker, RecursionTheorems

-----------------------------------------------------------------------------
(***************************************************************************)
(* The chain and the calls of deploy.                                      *)
(***************************************************************************)
Transaction ==
    [kind: FactoryKind, by: Caller \cup {Null}, what: Contract \cup {Factory}]
    \cup [kind: AccountKind, by: {Runner}, what: Account]

Chain ==
    [code: SUBSET (Contract \cup {Factory}), fees: Int, pool: SUBSET Transaction,
     receipts: [Caller -> {"none", "success", "reverted"}]]

AtRest == {"idle", "returned", "thrown"}

DeployPc ==
    AtRest \cup {"factory", "fund", "factoryTx", "recheck", "code", "send", "receipt", "verify"}

DeployCall == [pc: DeployPc, what: Contract \cup {Null}, factoryDeployed: BOOLEAN]

FactoryOK ==
    /\ automine \in BOOLEAN
    /\ chain \in Chain
    /\ deploy \in [Caller -> DeployCall]
    /\ \A d \in Caller : deploy[d].pc # "idle" => deploy[d].what \in Contract
    /\ \A d \in Caller : deploy[d].factoryDeployed => Factory \in chain.code
    /\ automine => chain.pool = {} /\ chain.fees >= 0

(***************************************************************************)
(* The one collector.                                                      *)
(***************************************************************************)
Size == File \X (1 .. MaxCount)

TableRow ==
    [count: 1 .. MaxCount, gasDiff: {Null} \cup (Size \X (Size \cup {Null})),
     accountEst: {"execute", "nothing", Null}]

WaitState == [pc: {"idle", "await", "done", "thrown"}, for: InitCaller \cup {Null}]

CollectorState == [pc: {"none", "balance", "deploy", "ready", "rejected"}, tabRows: Seq(TableRow)]

CollectorTypeOK ==
    /\ inst \in InitCaller \cup {Null}
    /\ initPromise \in InitCaller \cup {Null}
    /\ waiting \in [InitCaller -> WaitState]
    /\ collector \in [InitCaller -> CollectorState]

\* All wait for the one promise there is, and get what comes of it.
OneCollector ==
    /\ inst # Null => inst = initPromise /\ collector[inst].pc = "ready"
    /\ \A p \in InitCaller :
        /\ waiting[p].pc = "await" => waiting[p].for = initPromise /\ initPromise # Null
        /\ waiting[p].pc = "done" => inst # Null
        /\ waiting[p].pc = "thrown" => initPromise # Null /\ collector[initPromise].pc = "rejected"
        /\ collector[p].pc # "none" => initPromise = p
    /\ initPromise # Null => collector[initPromise].pc # "none"

(***************************************************************************)
(* The run.                                                                *)
(***************************************************************************)
RunPc ==
    {"load", "start", "init", "factory", "create", "balanceOf", "depositTo", "ops", "handleOps",
     "receipt", "bail", "end", "exit", "crashed"}

Over == {"end", "exit", "crashed"}

RunState ==
    [pc: RunPc, test: Nat, row: Nat, n: Nat, to: InitCaller \cup {Null},
     ops: [Salt -> {"none", "estimate", "nonce", "signed"}],
     accountEst: {"execute", "nothing", Null}, failed: BOOLEAN]

AccountState == [code: BOOLEAN, deposit: Int]

RunTypeOK ==
    /\ run \in RunState
    /\ gasEstimatePerExec \in {"execute", "nothing", Null}
    /\ lastGasUsed \in Size \cup {Null}
    /\ accounts \in [Account -> AccountState]
    /\ run.pc \notin Over => run.test \in DOMAIN Test /\ run.row \in DOMAIN Test[run.test].rows
    /\ run.pc \in {"load", "start", "init", "factory"} => run.n = 0
    /\ run.pc \in {"create", "balanceOf", "depositTo"} => run.n <= Row.count
    /\ run.pc \in {"balanceOf", "depositTo"} => run.n < Row.count
    /\ run.pc \in {"factory", "create", "balanceOf", "depositTo", "ops", "handleOps", "receipt"} =>
          run.to = inst /\ inst # Null

\* The last bundle was that of the row before.
LastIsPrevious ==
    run.pc \notin Over /\ run.row > 1 =>
        lastGasUsed = <<Test[run.test].file, Test[run.test].rows[run.row - 1].count>>

\* The accounts that the test has made so far: on a node that mines at once,
\* they exist, and can pay for an operation.
Ready ==
    CASE run.pc \in {"create", "balanceOf", "depositTo"} -> 0 .. run.n - 1
      [] run.pc \in {"ops", "handleOps"} -> Used
      [] OTHER -> {}

AccountsReady ==
    automine =>
        /\ \A a \in Account : accounts[a].deposit >= 0
        /\ \A n \in Ready : accounts[TheAccount(n)].code /\ accounts[TheAccount(n)].deposit > 0
        /\ run.pc \in {"balanceOf", "depositTo"} => accounts[TheAccount(run.n)].code

\* The estimates of a bundle.
EstimatesOK ==
    automine =>
        /\ gasEstimatePerExec # "nothing"
        /\ run.pc = "ops" =>
            /\ run.accountEst # "nothing"
            /\ \A n \in Salt : IF n \notin Used THEN run.ops[n] = "none"
                               ELSE run.accountEst = Null => run.ops[n] = "estimate"
        /\ run.pc \in {"handleOps", "receipt"} => run.accountEst = "execute"
        /\ \A p \in InitCaller : \A i \in DOMAIN collector[p].tabRows :
            collector[p].tabRows[i].accountEst = "execute"

(***************************************************************************)
(* Of the program's calls of deploy only one is in progress: that of the   *)
(* collector, or, once there is a collector, that of the run.              *)
(***************************************************************************)
InProgress(p) == deploy[p].pc \notin AtRest

OneDeploy ==
    \A p \in InitCaller :
        /\ InProgress(p) => collector[p].pc = "deploy" \/ (p = Runner /\ inst # Null)

Alone == automine /\ \A d \in Other : deploy[d].pc = "idle"

\* How far a call is, when nobody else deploys.
Progress(d) ==
    LET call == deploy[d] IN
    /\ call.pc # "thrown"
    /\ call.pc \in {"fund", "factoryTx"} => Factory \notin chain.code
    /\ call.pc = "factoryTx" => chain.fees > 0
    /\ call.pc \in {"recheck", "code", "send"} => Factory \in chain.code
    /\ call.pc = "send" => call.what \notin chain.code
    /\ call.pc = "receipt" => chain.receipts[d] = "success"
    /\ call.pc \in {"receipt", "verify"} => call.what \in chain.code

AloneOK ==
    Alone =>
        /\ \A p \in InitCaller : Progress(p) /\ collector[p].pc # "rejected"
        /\ ~run.failed

(***************************************************************************)
(* The table.                                                              *)
(***************************************************************************)
\* The rows that are added before a row of a test.
Expected(test, row) == RowsOf(test - 1) \o AddedRows(test, row - 1)

Matches(rows, expected) ==
    /\ Len(rows) = Len(expected)
    /\ \A i \in DOMAIN rows :
        /\ rows[i].count = expected[i].count
        /\ rows[i].gasDiff = Null <=> ~expected[i].diffLastGas

\* The collector has these rows, and no test is over before there is one.
RowsMatch ==
    IF inst = Null
    THEN run.test = 1 /\ run.row = 1 /\ \A p \in InitCaller : collector[p].tabRows = <<>>
    ELSE Matches(collector[inst].tabRows, Expected(run.test, run.row))

\* The run is at a row, or behind the last.
PlaceOK ==
    \/ run.test \in DOMAIN Test /\ run.row \in DOMAIN Test[run.test].rows
    \/ run.test = Len(Test) + 1 /\ run.row = 1

TableIsCollectors ==
    table # Null => run.pc = "exit" /\ inst # Null /\ table = collector[inst].tabRows

TableOK == PlaceOK /\ RowsMatch /\ TableIsCollectors

IInv ==
    /\ FactoryOK
    /\ ReturnedIsDeployed
    /\ CollectorTypeOK
    /\ OneCollector
    /\ RunTypeOK
    /\ LastIsPrevious
    /\ DeltaForOneOp
    /\ AccountsReady
    /\ EstimatesOK
    /\ OneDeploy
    /\ AloneOK
    /\ TableOK

-----------------------------------------------------------------------------
\* What a transaction that is mined does to the chain.
LEMMA MinedChain ==
    ASSUME NEW s \in Chain, NEW tx \in Transaction, tx.kind \in FactoryKind
    PROVE  /\ Mined(s, tx) \in Chain
           /\ s.code \subseteq Mined(s, tx).code
           /\ Mined(s, tx).pool = s.pool
           /\ s.fees >= 0 /\ (tx.kind = "factoryTx" => s.fees > 0) => Mined(s, tx).fees >= 0
<1>1. tx.what \in Contract \cup {Factory}
  BY DEF Transaction, FactoryKind, AccountKind
<1>2. CASE tx.kind = "fund"
  <2>1. Mined(s, tx) = [s EXCEPT !.fees = @ + 1]
    BY <1>2 DEF Mined, Funded
  <2> QED  BY <1>2, <2>1 DEF Chain
<1>3. CASE tx.kind = "factoryTx"
  <2> DEFINE code == s.code \cup {Factory}
  <2>1. Mined(s, tx) = [s EXCEPT !.fees = s.fees - 1, !.code = code]
    BY <1>3 DEF Mined, FactoryCreated
  <2>2. code \in SUBSET (Contract \cup {Factory}) /\ s.code \subseteq code
    BY DEF Chain
  <2>3. s.fees - 1 \in Int /\ (s.fees > 0 => s.fees - 1 >= 0)
    BY DEF Chain
  <2> HIDE DEF code
  <2> QED  BY <1>3, <2>1, <2>2, <2>3 DEF Chain
<1>4. CASE tx.kind = "create"
  <2> DEFINE code == IF Factory \in s.code THEN s.code \cup {tx.what} ELSE s.code
             outcome == IF tx.what \in s.code THEN "reverted" ELSE "success"
             receipts == [s.receipts EXCEPT ![tx.by] = outcome]
  <2>1. Mined(s, tx) = [s EXCEPT !.code = code, !.receipts = receipts]
    BY <1>4 DEF Mined, Created
  <2>2. code \in SUBSET (Contract \cup {Factory}) /\ s.code \subseteq code
    BY <1>1 DEF Chain
  <2>3. receipts \in [Caller -> {"none", "success", "reverted"}]
    BY DEF Chain
  <2> HIDE DEF code, receipts
  <2> QED  BY <1>4, <2>1, <2>2, <2>3 DEF Chain
<1> QED  BY <1>2, <1>3, <1>4 DEF FactoryKind

\* What a transaction that is sent does to it.
LEMMA SubmitChain ==
    ASSUME FactoryOK, NEW tx \in Transaction, tx.kind \in FactoryKind,
           tx.kind = "factoryTx" => chain.fees > 0
    PROVE  /\ Submit(tx) \in Chain
           /\ chain.code \subseteq Submit(tx).code
           /\ automine => Submit(tx).pool = {} /\ Submit(tx).fees >= 0
<1>1. chain \in Chain
  BY DEF FactoryOK
<1>2. CASE automine
  <2>1. Submit(tx) = Mined(chain, tx)
    BY <1>2 DEF Submit
  <2> QED  BY <1>1, <1>2, <2>1, MinedChain DEF FactoryOK
<1>3. CASE ~automine
  <2>1. Submit(tx) = [chain EXCEPT !.pool = chain.pool \cup {tx}]
    BY <1>3 DEF Submit
  <2> QED  BY <1>1, <1>3, <2>1 DEF Chain
<1> QED  BY <1>2, <1>3

-----------------------------------------------------------------------------
(***************************************************************************)
(* What the steps of the program are to the chain and the calls of deploy. *)
(***************************************************************************)
Begins(d, what) ==
    /\ deploy' = [deploy EXCEPT ![d] = Deploying(what)]
    /\ UNCHANGED <<automine, chain>>

ForAccounts ==
    /\ ~automine
    /\ chain'.pool \subseteq Transaction
    /\ chain' = [chain EXCEPT !.pool = chain'.pool]
    /\ UNCHANGED <<automine, deploy>>

FactoryStep ==
    \/ UNCHANGED factoryVars
    \/ \E d \in Caller : Deploy(d)
    \/ Mine
    \/ \E d \in Caller, what \in Contract : Begins(d, what)
    \/ ForAccounts

\* A transaction for an account is one of those that are not the factory's.
LEMMA SubmitForIsForAccounts ==
    ASSUME FactoryOK, NEW kind \in AccountKind, NEW a \in Account, SubmitFor(kind, a),
           UNCHANGED <<automine, deploy>>
    PROVE  FactoryStep
<1>1. CASE automine
  BY <1>1 DEF SubmitFor, FactoryStep, factoryVars
<1>2. CASE ~automine
  <2>1. chain' = [chain EXCEPT !.pool = chain.pool \cup {Tx(kind, Runner, a)}]
    BY <1>2 DEF SubmitFor
  <2>2. Tx(kind, Runner, a) \in Transaction
    BY DEF Tx, Transaction
  <2>3. chain.pool \subseteq Transaction /\ chain'.pool = chain.pool \cup {Tx(kind, Runner, a)}
    BY <2>1 DEF FactoryOK, Chain
  <2>4. chain'.pool \subseteq Transaction
    BY <2>2, <2>3
  <2>5. chain' = [chain EXCEPT !.pool = chain'.pool]
    BY <2>1, <2>3
  <2> QED  BY <1>2, <2>4, <2>5 DEF FactoryStep, ForAccounts
<1> QED  BY <1>1, <1>2

\* What the tests are.
RowSpec == [count: 1 .. MaxCount, diffLastGas: BOOLEAN, added: BOOLEAN]

TestSpec == [file: File, rows: Seq(RowSpec)]

LEMMA TestTyped ==
    /\ Test \in Seq(TestSpec)
    /\ \A i \in DOMAIN Test : Test[i] \in TestSpec /\ Len(Test[i].rows) > 0
<1>1. Test \in Seq(TestSpec)
  BY CheckerConstants DEF TestSpec, RowSpec
<1>2. \A i \in DOMAIN Test : Test[i] \in TestSpec
  BY <1>1
<1>3. \A i \in DOMAIN Test : Test[i].rows \in Seq(RowSpec) /\ Test[i].rows # <<>>
  BY <1>2, CheckerConstants DEF TestSpec
<1> QED  BY <1>1, <1>2, <1>3

\* The account with a number below the row's is one there is.
LEMMA TheAccounts ==
    ASSUME RunTypeOK, run.pc \notin Over
    PROVE  /\ Test[run.test] \in TestSpec
           /\ Row \in RowSpec /\ Row.count \in 1 .. MaxCount /\ Row.count \in Nat
           /\ Used \subseteq Salt
           /\ \A n \in Used : TheAccount(n) \in Account
           /\ run.n < Row.count => run.n \in Used
           /\ GasUsed \in Size
<1>1. run.test \in DOMAIN Test /\ run.row \in DOMAIN Test[run.test].rows
  BY DEF RunTypeOK
<1>2. Test[run.test] \in TestSpec
  BY <1>1, TestTyped
<1>3. Row \in RowSpec
  BY <1>1, <1>2 DEF Row, TestSpec
<1>4. Used \subseteq Salt
  BY <1>3, CheckerConstants DEF Used, Salt, RowSpec
<1>5. Row.count \in 1 .. MaxCount /\ Row.count \in Nat
  BY <1>3, CheckerConstants DEF RowSpec
<1>6. run.n < Row.count => run.n \in Used
  BY <1>5 DEF RunTypeOK, RunState, Used
<1>7. Test[run.test].file \in File
  BY <1>2 DEF TestSpec
<1> QED  BY <1>2, <1>3, <1>4, <1>5, <1>6, <1>7 DEF TheAccount, Account, GasUsed, Size

\* The steps of the program are of these kinds.
LEMMA FactorySteps ==
    ASSUME FactoryOK, RunTypeOK, [Next]_vars
    PROVE  FactoryStep
<1>1. CASE Running
  <2>1. CASE \E f \in File : Construct(f)
    BY <2>1 DEF Construct, FactoryStep
  <2>2. CASE StartRow
    BY <2>2 DEF StartRow, FactoryStep
  <2>3. CASE RunTest
    <3>1. CASE UNCHANGED deploy
      BY <2>3, <3>1 DEF RunTest, FactoryStep, factoryVars
    <3>2. CASE deploy' = [deploy EXCEPT ![Runner] = Deploying(AccountFactory)]
      BY <2>3, <3>2, CheckerConstants DEF RunTest, FactoryStep, Begins
    <3> QED  BY <2>3, <3>1, <3>2 DEF RunTest
  <2>4. CASE CreateAccounts1
    <3>1. CASE GotFactory \/ GotBalance
      BY <3>1 DEF GotFactory, GotBalance, FactoryStep
    <3>2. CASE CreateAccount
      <4>1. TheAccount(run.n) \in Account
        <5>1. run.n < Row.count /\ run.pc \notin Over
          BY <3>2 DEF CreateAccount, RunTypeOK, Over
        <5> QED  BY <5>1, TheAccounts
      <4> QED  BY <3>2, <4>1, SubmitForIsForAccounts DEF CreateAccount, AccountKind
    <3>3. CASE DepositTo
      <4>1. TheAccount(run.n) \in Account
        <5>1. run.n < Row.count /\ run.pc \notin Over
          BY <3>3 DEF DepositTo, RunTypeOK, Over
        <5> QED  BY <5>1, TheAccounts
      <4> QED  BY <3>3, <4>1, SubmitForIsForAccounts DEF DepositTo, AccountKind
    <3> QED  BY <2>4, <3>1, <3>2, <3>3 DEF CreateAccounts1
  <2>5. CASE Measure
    BY <2>5 DEF Measure, MakeOps, EstimateHandleOps, HandleOps, GotReceiptOfOps,
                GotExecEstimate, FillAndSign, FactoryStep
  <2>6. CASE DoneTable
    BY <2>6 DEF DoneTable, FactoryStep
  <2>7. CASE \E p \in InitCaller : Collecting(p)
    <3>1. PICK p \in InitCaller : Collecting(p)
      BY <2>7
    <3>2. CASE GotSigner(p)
      BY <3>2, CheckerConstants DEF GotSigner, FactoryStep, Begins, InitCaller
    <3>3. CASE GotEntryPoint(p) \/ Awaited(p)
      BY <3>3 DEF GotEntryPoint, Awaited, FactoryStep
    <3> QED  BY <3>1, <3>2, <3>3 DEF Collecting
  <2> QED  BY <1>1, <2>1, <2>2, <2>3, <2>4, <2>5, <2>6, <2>7 DEF Running
<1>2. CASE TimesOut
  BY <1>2 DEF TimesOut, FactoryStep
<1>3. CASE Deploys
  BY <1>3 DEF Deploys, FactoryStep
<1>4. CASE Mines
  <2>1. CASE Mine
    BY <2>1 DEF FactoryStep
  <2>2. CASE MineForAccount
    <3>1. PICK tx \in chain.pool : chain' = [chain EXCEPT !.pool = @ \ {tx}]
      BY <2>2 DEF MineForAccount
    <3>2. chain'.pool = chain.pool \ {tx} /\ chain.pool \subseteq Transaction
      BY <3>1 DEF FactoryOK, Chain
    <3>3. ~automine
      BY <3>1 DEF FactoryOK
    <3>4. chain' = [chain EXCEPT !.pool = chain'.pool]
      BY <3>1, <3>2
    <3> QED  BY <2>2, <3>2, <3>3, <3>4 DEF MineForAccount, FactoryStep, ForAccounts
  <2> QED  BY <1>4, <2>1, <2>2 DEF Mines
<1>5. CASE \E d \in Other : OtherDeploys(d)
  <2>1. PICK d \in Other, what \in Contract : Begins(d, what)
    BY <1>5 DEF OtherDeploys, Begins
  <2>2. d \in Caller
    BY CheckerConstants
  <2> QED  BY <2>1, <2>2 DEF FactoryStep
<1>6. CASE UNCHANGED vars
  BY <1>6 DEF vars, FactoryStep
<1> QED  BY <1>1, <1>2, <1>3, <1>4, <1>5, <1>6 DEF Next

-----------------------------------------------------------------------------
\* What a step of deploy leads to.
Moves(d, c) ==
    /\ deploy' = [deploy EXCEPT ![d] = c]
    /\ c \in DeployCall
    /\ c.what = deploy[d].what
    /\ c.pc # "idle"
    /\ c.factoryDeployed => Factory \in chain'.code
    /\ c.pc = "returned" => c.what \in chain'.code

ChainGrows ==
    /\ chain' \in Chain
    /\ chain.code \subseteq chain'.code
    /\ automine => chain'.pool = {} /\ chain'.fees >= 0

LEMMA GotoMoves ==
    ASSUME FactoryOK, NEW d \in Caller, NEW pc \in DeployPc \ {"idle"}, Goto(d, pc),
           chain.code \subseteq chain'.code,
           pc = "returned" => deploy[d].what \in chain'.code
    PROVE  Moves(d, [deploy[d] EXCEPT !.pc = pc])
<1>1. deploy[d] \in DeployCall /\ (deploy[d].factoryDeployed => Factory \in chain.code)
  BY DEF FactoryOK
<1>2. deploy' = [deploy EXCEPT ![d] = [deploy[d] EXCEPT !.pc = pc]]
  BY DEF Goto
<1> QED  BY <1>1, <1>2 DEF Moves, DeployCall

\* The two places where it is asked for the factory.
LEMMA CheckFactoryMoves ==
    ASSUME FactoryOK, NEW d \in Caller, NEW otherwise \in {"fund", "thrown"},
           CheckFactory(d, otherwise)
    PROVE  \E c : Moves(d, c)
<1>1. deploy[d] \in DeployCall
  BY DEF FactoryOK
<1>2. CASE IsFactoryDeployed(d)
  <2> DEFINE c == [deploy[d] EXCEPT !.factoryDeployed = TRUE, !.pc = "code"]
  <2>1. deploy' = [deploy EXCEPT ![d] = c]
    BY <1>2 DEF CheckFactory, FactoryOK
  <2>2. Factory \in chain'.code
    BY <1>2 DEF CheckFactory, IsFactoryDeployed, FactoryOK
  <2>3. Moves(d, c)
    BY <1>1, <2>1, <2>2 DEF Moves, DeployCall, DeployPc
  <2> QED  BY <2>3
<1>3. CASE ~IsFactoryDeployed(d)
  <2>1. Goto(d, otherwise) /\ chain' = chain
    BY <1>3 DEF CheckFactory
  <2>2. otherwise \in DeployPc \ {"idle"} /\ otherwise # "returned"
    BY DEF DeployPc, AtRest
  <2> QED  BY <2>1, <2>2, GotoMoves
<1> QED  BY <1>2, <1>3

LEMMA DeployMoves ==
    ASSUME FactoryOK, NEW d \in Caller, Deploy(d)
    PROVE  /\ \E c : Moves(d, c)
           /\ ChainGrows
           /\ deploy[d].pc \notin AtRest
           /\ UNCHANGED automine
<1> USE DEF AtRest
<1>1. deploy[d].pc # "idle" => deploy[d].what \in Contract
  BY DEF FactoryOK
<1>2. chain \in Chain /\ (automine => chain.pool = {} /\ chain.fees >= 0)
  BY DEF FactoryOK
<1>3. CASE deploy[d].pc = "factory" /\ CheckFactory(d, "fund")
  BY <1>2, <1>3, CheckFactoryMoves DEF CheckFactory, ChainGrows
<1>4. CASE SendFee(d)
  <2>1. Tx("fund", d, Factory) \in Transaction /\ Tx("fund", d, Factory).kind = "fund"
    BY DEF Tx, Transaction, FactoryKind
  <2>2. ChainGrows
    BY <1>4, <2>1, SubmitChain DEF SendFee, ChainGrows, FactoryKind
  <2>3. \E c : Moves(d, c)
    BY <1>4, <2>2, GotoMoves DEF SendFee, DeployPc, ChainGrows
  <2> QED  BY <1>4, <2>2, <2>3 DEF SendFee
<1>5. CASE SendFactoryTx(d)
  <2>1. CASE Acceptable(FactoryTx)
    <3>1. FactoryTx \in Transaction /\ FactoryTx.kind = "factoryTx"
      BY DEF FactoryTx, Tx, Transaction, FactoryKind
    <3>2. ChainGrows
      BY <1>5, <2>1, <3>1, SubmitChain DEF SendFactoryTx, Acceptable, ChainGrows, FactoryKind
    <3>3. \E c : Moves(d, c)
      BY <1>5, <2>1, <3>2, GotoMoves DEF SendFactoryTx, DeployPc, ChainGrows
    <3> QED  BY <1>5, <3>2, <3>3 DEF SendFactoryTx
  <2>2. CASE ~Acceptable(FactoryTx)
    <3>1. \E c : Moves(d, c)
      BY <1>5, <2>2, GotoMoves DEF SendFactoryTx, DeployPc
    <3> QED  BY <1>2, <1>5, <2>2, <3>1 DEF SendFactoryTx, ChainGrows
  <2> QED  BY <2>1, <2>2
<1>6. CASE deploy[d].pc = "recheck" /\ CheckFactory(d, "thrown")
  BY <1>2, <1>6, CheckFactoryMoves DEF CheckFactory, ChainGrows
<1>7. CASE GotCode(d)
  <2> DEFINE pc == IF deploy[d].what \in chain.code THEN "returned" ELSE "send"
  <2>1. Goto(d, pc) /\ pc \in DeployPc \ {"idle"} /\ chain' = chain
    BY <1>7 DEF GotCode, DeployPc
  <2>2. \E c : Moves(d, c)
    BY <2>1, GotoMoves
  <2> QED  BY <1>2, <1>7, <2>2 DEF GotCode, ChainGrows
<1>8. CASE SendDeployTx(d)
  <2> DEFINE tx == Tx("create", d, deploy[d].what)
  <2>1. tx \in Transaction /\ tx.kind = "create"
    BY <1>1, <1>8 DEF SendDeployTx, Tx, Transaction, FactoryKind
  <2>2. ChainGrows
    BY <1>8, <2>1, SubmitChain DEF SendDeployTx, ChainGrows, FactoryKind
  <2>3. \E c : Moves(d, c)
    BY <1>8, <2>2, GotoMoves DEF SendDeployTx, DeployPc, ChainGrows
  <2> QED  BY <1>8, <2>2, <2>3 DEF SendDeployTx
<1>9. CASE GotReceipt(d)
  <2> DEFINE pc == IF chain.receipts[d] = "success" THEN "verify" ELSE "thrown"
             receipts == [chain.receipts EXCEPT ![d] = "none"]
  <2>1. chain' = [chain EXCEPT !.receipts = receipts]
    BY <1>9 DEF GotReceipt
  <2>2. receipts \in [Caller -> {"none", "success", "reverted"}]
    BY <1>2 DEF Chain
  <2> HIDE DEF receipts
  <2>3. ChainGrows
    BY <1>2, <2>1, <2>2 DEF ChainGrows, Chain
  <2>4. Goto(d, pc) /\ pc \in DeployPc \ {"idle"} /\ pc # "returned"
    BY <1>9 DEF GotReceipt, DeployPc
  <2>5. \E c : Moves(d, c)
    BY <2>3, <2>4, GotoMoves DEF ChainGrows
  <2> QED  BY <1>9, <2>3, <2>5 DEF GotReceipt
<1>10. CASE Verify(d)
  <2> DEFINE pc == IF deploy[d].what \in chain.code THEN "returned" ELSE "thrown"
  <2>1. Goto(d, pc) /\ pc \in DeployPc \ {"idle"} /\ chain' = chain
    BY <1>10 DEF Verify, DeployPc
  <2>2. \E c : Moves(d, c)
    BY <2>1, GotoMoves
  <2> QED  BY <1>2, <1>10, <2>2 DEF Verify, ChainGrows
<1> QED  BY <1>3, <1>4, <1>5, <1>6, <1>7, <1>8, <1>9, <1>10 DEF Deploy, DeployFactory

\* The chain and the calls of deploy stay as they should be.
LEMMA FactoryKept ==
    ASSUME FactoryOK, ReturnedIsDeployed, FactoryStep
    PROVE  FactoryOK' /\ ReturnedIsDeployed' /\ chain.code \subseteq chain'.code
<1>1. CASE UNCHANGED factoryVars
  BY <1>1 DEF factoryVars, FactoryOK, ReturnedIsDeployed
<1>2. CASE \E d \in Caller : Deploy(d)
  <2>1. PICK d \in Caller : Deploy(d)
    BY <1>2
  <2>2. PICK c : Moves(d, c)
    BY <2>1, DeployMoves
  <2>3. ChainGrows /\ deploy[d].pc # "idle" /\ UNCHANGED automine
    BY <2>1, DeployMoves DEF AtRest
  <2>4. deploy' \in [Caller -> DeployCall]
    BY <2>2 DEF FactoryOK, Moves
  <2>5. \A e \in Caller : deploy'[e] = IF e = d THEN c ELSE deploy[e]
    BY <2>2 DEF FactoryOK, Moves
  <2>6. c.what \in Contract
    BY <2>2, <2>3 DEF FactoryOK, Moves
  <2> QED  BY <2>2, <2>3, <2>4, <2>5, <2>6 DEF FactoryOK, ReturnedIsDeployed, Moves, ChainGrows
<1>3. CASE Mine
  <2>1. PICK tx \in chain.pool : /\ tx.kind \in FactoryKind
                                 /\ chain' = Mined([chain EXCEPT !.pool = @ \ {tx}], tx)
    BY <1>3 DEF Mine
  <2>2. tx \in Transaction /\ [chain EXCEPT !.pool = @ \ {tx}] \in Chain
    BY <2>1 DEF FactoryOK, Chain
  <2>3. chain' \in Chain /\ chain.code \subseteq chain'.code
    BY <2>1, <2>2, MinedChain DEF FactoryOK, Chain
  <2>4. ~automine
    BY <2>1 DEF FactoryOK
  <2> QED  BY <1>3, <2>3, <2>4 DEF Mine, FactoryOK, ReturnedIsDeployed
<1>4. CASE \E d \in Caller, what \in Contract : Begins(d, what)
  <2>1. PICK d \in Caller, what \in Contract : Begins(d, what)
    BY <1>4
  <2>2. /\ Deploying(what).pc = "factory"
        /\ Deploying(what).what = what
        /\ Deploying(what).factoryDeployed = FALSE
    BY DEF Deploying, NoDeploy
  <2>3. Deploying(what) \in DeployCall
    BY DEF Deploying, NoDeploy, DeployCall, DeployPc, AtRest
  <2>4. deploy' \in [Caller -> DeployCall]
        /\ \A e \in Caller : deploy'[e] = IF e = d THEN Deploying(what) ELSE deploy[e]
    BY <2>1, <2>3 DEF Begins, FactoryOK
  <2> QED  BY <2>1, <2>2, <2>4 DEF Begins, FactoryOK, ReturnedIsDeployed
<1>5. CASE ForAccounts
  <2>1. chain' \in Chain /\ chain'.code = chain.code
    BY <1>5 DEF ForAccounts, FactoryOK, Chain
  <2> QED  BY <1>5, <2>1 DEF ForAccounts, FactoryOK, ReturnedIsDeployed
<1> QED  BY <1>1, <1>2, <1>3, <1>4, <1>5 DEF FactoryStep

-----------------------------------------------------------------------------
(***************************************************************************)
(* What the steps of the program are to the collector.                     *)
(***************************************************************************)
CollectorStep ==
    \/ UNCHANGED collected
    \/ \E p \in InitCaller : CollectorInit(p)
    \/ \E p \in InitCaller : Collecting(p)
    \/ GotReceiptOfOps

LEMMA CollectorSteps ==
    ASSUME [Next]_vars
    PROVE  CollectorStep
<1>1. CASE Running
  <2>1. CASE \E f \in File : Construct(f)
    BY <2>1 DEF Construct, CollectorStep, InitCaller
  <2>2. CASE StartRow
    BY <2>2 DEF StartRow, CollectorStep, InitCaller
  <2>3. CASE RunTest \/ DoneTable
    BY <2>3 DEF RunTest, DoneTable, CollectorStep
  <2>4. CASE CreateAccounts1
    BY <2>4 DEF CreateAccounts1, GotFactory, GotBalance, CreateAccount, DepositTo, CollectorStep
  <2>5. CASE Measure
    BY <2>5 DEF Measure, MakeOps, EstimateHandleOps, HandleOps, GotExecEstimate, FillAndSign,
                CollectorStep
  <2>6. CASE \E p \in InitCaller : Collecting(p)
    BY <2>6 DEF CollectorStep
  <2> QED  BY <1>1, <2>1, <2>2, <2>3, <2>4, <2>5, <2>6 DEF Running
<1>2. CASE TimesOut \/ Deploys \/ Mines \/ (\E d \in Other : OtherDeploys(d)) \/ UNCHANGED vars
  BY <1>2 DEF TimesOut, Deploys, Mines, MineForAccount, OtherDeploys, vars, checkerVars, collected,
              CollectorStep
<1> QED  BY <1>1, <1>2 DEF Next

\* A row that is added is one of the table.
LEMMA ResultTyped ==
    ASSUME RunTypeOK, run.pc \notin Over
    PROVE  Result(lastGasUsed) \in TableRow
<1>1. GasUsed \in Size /\ Row.count \in 1 .. MaxCount
  BY TheAccounts
<1>2. lastGasUsed \in Size \cup {Null} /\ run.accountEst \in {"execute", "nothing", Null}
  BY DEF RunTypeOK, RunState
<1> DEFINE gasDiff == IF Row.diffLastGas THEN <<GasUsed, lastGasUsed>> ELSE Null
<1>3. gasDiff \in {Null} \cup (Size \X (Size \cup {Null}))
  BY <1>1, <1>2
<1>4. Result(lastGasUsed) = [count |-> Row.count, gasDiff |-> gasDiff, accountEst |-> run.accountEst]
  BY DEF Result
<1> HIDE DEF gasDiff
<1> QED  BY <1>1, <1>2, <1>3, <1>4 DEF TableRow

\* One collector changes.
LEMMA OneChanges ==
    ASSUME CollectorTypeOK, NEW p \in InitCaller, NEW c \in CollectorState,
           collector' = [collector EXCEPT ![p] = c]
    PROVE  /\ collector' \in [InitCaller -> CollectorState]
           /\ \A q \in InitCaller : collector'[q] = IF q = p THEN c ELSE collector[q]
BY DEF CollectorTypeOK

\* One wait changes.
LEMMA OneWaits ==
    ASSUME CollectorTypeOK, NEW p \in InitCaller, NEW w \in WaitState,
           waiting' = [waiting EXCEPT ![p] = w]
    PROVE  /\ waiting' \in [InitCaller -> WaitState]
           /\ \A q \in InitCaller : waiting'[q] = IF q = p THEN w ELSE waiting[q]
BY DEF CollectorTypeOK

\* One wait ends.
LEMMA OneDone ==
    ASSUME CollectorTypeOK, NEW p \in InitCaller, NEW pc \in {"done", "thrown"},
           waiting' = [waiting EXCEPT ![p].pc = pc]
    PROVE  /\ waiting' \in [InitCaller -> WaitState]
           /\ \A q \in InitCaller \ {p} : waiting'[q] = waiting[q]
           /\ waiting'[p].pc = pc
<1> DEFINE w == [waiting[p] EXCEPT !.pc = pc]
<1>1. waiting[p] \in WaitState
  BY DEF CollectorTypeOK
<1>2. w \in WaitState /\ w.pc = pc
  BY <1>1 DEF WaitState
<1>3. waiting' = [waiting EXCEPT ![p] = w]
  OBVIOUS
<1> QED  BY <1>2, <1>3, OneWaits

\* There is one promise, and it is kept.
LEMMA CollectorKept ==
    ASSUME CollectorTypeOK, OneCollector, RunTypeOK, CollectorStep
    PROVE  /\ CollectorTypeOK' /\ OneCollector'
           /\ inst # Null => inst' = inst
           /\ initPromise # Null => initPromise' = initPromise
<1>n. Null \notin InitCaller
  BY FactoryConstants, CheckerConstants DEF InitCaller
<1>t. /\ inst \in InitCaller \cup {Null} /\ initPromise \in InitCaller \cup {Null}
      /\ waiting \in [InitCaller -> WaitState] /\ collector \in [InitCaller -> CollectorState]
  BY DEF CollectorTypeOK
<1>1. CASE UNCHANGED collected
  BY <1>1 DEF collected, OneCollector, CollectorTypeOK
<1>2. CASE \E p \in InitCaller : CollectorInit(p)
  <2>1. PICK p \in InitCaller : CollectorInit(p)
    BY <1>2
  <2>2. inst' = inst
    BY <2>1 DEF CollectorInit
  <2>3. CASE inst # Null /\ waiting' = [waiting EXCEPT ![p].pc = "done"]
             /\ UNCHANGED <<initPromise, collector>>
    <3>1. /\ waiting' \in [InitCaller -> WaitState]
          /\ \A q \in InitCaller \ {p} : waiting'[q] = waiting[q]
          /\ waiting'[p].pc = "done"
      BY <2>3, OneDone
    <3> QED  BY <1>t, <2>2, <2>3, <3>1 DEF OneCollector, CollectorTypeOK
  <2>4. CASE /\ inst = Null /\ initPromise = Null /\ initPromise' = p
             /\ NewCollector(p) /\ WaitFor(p, p)
    <3>1. [pc |-> "balance", tabRows |-> <<>>] \in CollectorState
      BY DEF CollectorState
    <3>2. /\ collector' \in [InitCaller -> CollectorState]
          /\ \A q \in InitCaller : collector'[q] = IF q = p THEN [pc |-> "balance", tabRows |-> <<>>]
                                                   ELSE collector[q]
      BY <2>4, <3>1, OneChanges DEF NewCollector
    <3>3. [pc |-> "await", for |-> p] \in WaitState
      BY DEF WaitState
    <3>4. /\ waiting' \in [InitCaller -> WaitState]
          /\ \A q \in InitCaller : waiting'[q] = IF q = p THEN [pc |-> "await", for |-> p]
                                                 ELSE waiting[q]
      BY <2>4, <3>3, OneWaits DEF WaitFor
    <3> QED  BY <1>n, <1>t, <2>2, <2>4, <3>2, <3>4 DEF OneCollector, CollectorTypeOK
  <2>5. CASE inst = Null /\ initPromise # Null /\ WaitFor(p, initPromise)
             /\ UNCHANGED <<initPromise, collector>>
    <3>1. [pc |-> "await", for |-> initPromise] \in WaitState
      BY <1>t DEF WaitState
    <3>2. /\ waiting' \in [InitCaller -> WaitState]
          /\ \A q \in InitCaller : waiting'[q] = IF q = p THEN [pc |-> "await", for |-> initPromise]
                                                 ELSE waiting[q]
      BY <2>5, <3>1, OneWaits DEF WaitFor
    <3> QED  BY <1>t, <2>2, <2>5, <3>2 DEF OneCollector, CollectorTypeOK
  <2> QED  BY <2>1, <2>3, <2>4, <2>5 DEF CollectorInit
<1>3. CASE \E p \in InitCaller : Collecting(p)
  <2>1. PICK p \in InitCaller : Collecting(p)
    BY <1>3
  <2>2. CASE GotSigner(p) \/ GotEntryPoint(p)
    <3>1. collector[p].pc \in {"balance", "deploy"} /\ UNCHANGED <<inst, initPromise, waiting>>
      BY <2>2 DEF GotEntryPoint, GotSigner
    <3>2. PICK c \in CollectorState : c.pc # "none" /\ collector' = [collector EXCEPT ![p] = c]
      <4>1. CASE collector' = [collector EXCEPT ![p] = [pc |-> "ready", tabRows |-> <<>>]]
        <5>1. [pc |-> "ready", tabRows |-> <<>>] \in CollectorState
          BY DEF CollectorState
        <5> QED  BY <4>1, <5>1
      <4>2. ASSUME NEW pc \in {"deploy", "rejected"}, collector' = [collector EXCEPT ![p].pc = pc]
            PROVE  \E c \in CollectorState : c.pc # "none" /\ collector' = [collector EXCEPT ![p] = c]
        <5> DEFINE c == [collector[p] EXCEPT !.pc = pc]
        <5>1. collector[p] \in CollectorState
          BY <1>t
        <5>2. c \in CollectorState /\ c.pc = pc
          BY <5>1 DEF CollectorState
        <5>3. collector' = [collector EXCEPT ![p] = c]
          BY <4>2
        <5> QED  BY <5>2, <5>3
      <4> QED  BY <2>2, <4>1, <4>2 DEF GotEntryPoint, GotSigner
    <3>3. /\ collector' \in [InitCaller -> CollectorState]
          /\ \A q \in InitCaller : collector'[q] = IF q = p THEN c ELSE collector[q]
      BY <3>2, OneChanges
    <3>4. initPromise = p /\ inst = Null /\ \A q \in InitCaller : waiting[q].pc # "thrown"
      BY <1>t, <3>1 DEF OneCollector
    <3> QED  BY <1>n, <1>t, <3>1, <3>2, <3>3, <3>4 DEF OneCollector, CollectorTypeOK
  <2>3. CASE Awaited(p)
    <3>1. waiting[p].for = initPromise /\ initPromise \in InitCaller /\ UNCHANGED <<initPromise, collector>>
      BY <1>t, <2>3 DEF Awaited, OneCollector
    <3>2. CASE collector[initPromise].pc = "ready" /\ inst' = initPromise
               /\ waiting' = [waiting EXCEPT ![p].pc = "done"]
      <4>1. /\ waiting' \in [InitCaller -> WaitState]
            /\ \A q \in InitCaller \ {p} : waiting'[q] = waiting[q]
            /\ waiting'[p].pc = "done"
        BY <3>2, OneDone
      <4>2. OneCollector'
        BY <1>n, <3>1, <3>2, <4>1 DEF OneCollector
      <4>3. inst # Null => inst' = inst
        BY <3>2 DEF OneCollector
      <4> QED  BY <1>n, <1>t, <3>1, <3>2, <4>1, <4>2, <4>3 DEF CollectorTypeOK
    <3>3. CASE collector[initPromise].pc = "rejected" /\ waiting' = [waiting EXCEPT ![p].pc = "thrown"]
               /\ UNCHANGED inst
      <4>1. /\ waiting' \in [InitCaller -> WaitState]
            /\ \A q \in InitCaller \ {p} : waiting'[q] = waiting[q]
            /\ waiting'[p].pc = "thrown"
        BY <3>3, OneDone
      <4> QED  BY <1>n, <1>t, <3>1, <3>3, <4>1 DEF OneCollector, CollectorTypeOK
    <3> QED  BY <2>3, <3>1, <3>2, <3>3 DEF Awaited
  <2> QED  BY <2>1, <2>2, <2>3 DEF Collecting
<1>4. CASE GotReceiptOfOps
  <2>1. run.pc \notin Over /\ UNCHANGED <<inst, initPromise, waiting>> /\ AddRow(lastGasUsed)
    BY <1>4 DEF GotReceiptOfOps, Over
  <2>2. CASE UNCHANGED collector
    BY <1>t, <2>1, <2>2 DEF OneCollector, CollectorTypeOK
  <2>3. CASE collector' = [collector EXCEPT ![run.to].tabRows = Append(@, Result(lastGasUsed))]
    <3>1. run.to \in InitCaller
      BY <1>4, <1>t DEF GotReceiptOfOps, RunTypeOK
    <3> DEFINE c == [collector[run.to] EXCEPT !.tabRows = Append(@, Result(lastGasUsed))]
    <3>2. collector[run.to] \in CollectorState /\ Result(lastGasUsed) \in TableRow
      BY <1>t, <2>1, <3>1, ResultTyped
    <3>3. c \in CollectorState /\ c.pc = collector[run.to].pc
      BY <3>2, SMTT(30) DEF CollectorState
    <3>4. collector' = [collector EXCEPT ![run.to] = c]
      BY <2>3
    <3>5. /\ collector' \in [InitCaller -> CollectorState]
          /\ \A q \in InitCaller : collector'[q] = IF q = run.to THEN c ELSE collector[q]
      BY <3>1, <3>3, <3>4, OneChanges
    <3>6. \A q \in InitCaller : collector'[q].pc = collector[q].pc
      BY <3>3, <3>5
    <3> QED  BY <1>t, <2>1, <3>5, <3>6 DEF OneCollector, CollectorTypeOK
  <2> QED  BY <2>1, <2>2, <2>3 DEF AddRow
<1> QED  BY <1>1, <1>2, <1>3, <1>4 DEF CollectorStep

-----------------------------------------------------------------------------
(***************************************************************************)
(* The accounts.                                                           *)
(***************************************************************************)
\* What a transaction for an account does.
LEMMA AccountMinedTyped ==
    ASSUME NEW s \in [Account -> AccountState], NEW kind \in AccountKind, NEW a \in Account
    PROVE  /\ AccountMined(s, kind, a) \in [Account -> AccountState]
           /\ \A b \in Account : /\ s[b].code => AccountMined(s, kind, a)[b].code
                                 /\ AccountMined(s, kind, a)[b].deposit >= s[b].deposit
           /\ kind = "createAccount" => AccountMined(s, kind, a)[a].code
           /\ kind = "depositTo" => AccountMined(s, kind, a)[a].deposit = s[a].deposit + 5
<1> DEFINE after == IF kind = "createAccount" THEN [s[a] EXCEPT !.code = TRUE]
                    ELSE [s[a] EXCEPT !.deposit = s[a].deposit + 5]
<1>1. AccountMined(s, kind, a) = [s EXCEPT ![a] = after]
  BY DEF AccountMined
<1>2. s[a] \in AccountState
  OBVIOUS
<1>3. after \in AccountState
  <2>1. [s[a] EXCEPT !.code = TRUE] \in AccountState
    BY <1>2 DEF AccountState
  <2>2. s[a].deposit + 5 \in Int
    BY <1>2 DEF AccountState
  <2>3. [s[a] EXCEPT !.deposit = s[a].deposit + 5] \in AccountState
    BY <1>2, <2>2 DEF AccountState
  <2> QED  BY <2>1, <2>3
<1>4. /\ s[a].code => after.code
      /\ after.deposit >= s[a].deposit
      /\ kind = "createAccount" => after.code
      /\ kind = "depositTo" => after.deposit = s[a].deposit + 5
  BY <1>2 DEF AccountState, AccountKind
<1> HIDE DEF after
<1>5. \A b \in Account : s[b].deposit \in Int
  BY DEF AccountState
<1> QED  BY <1>1, <1>3, <1>4, <1>5

\* In a bundle, each operation costs its account something.
LEMMA BundleCosts ==
    ASSUME RunTypeOK, HandleOps
    PROVE  /\ accounts' \in [Account -> AccountState]
           /\ \A a \in Account : accounts'[a].code = accounts[a].code
           /\ \A n \in Used : accounts'[TheAccount(n)].deposit >= accounts[TheAccount(n)].deposit - 1
           /\ \A a \in Account : a \notin {TheAccount(n) : n \in Used} =>
                 accounts'[a].deposit = accounts[a].deposit
           /\ \A a \in Account : accounts'[a].deposit >= accounts[a].deposit - 1
<1>1. accounts' = [a \in Account |->
         IF \E n \in Used : a = TheAccount(n)
         THEN [accounts[a] EXCEPT !.deposit = accounts[a].deposit - 1] ELSE accounts[a]]
  BY DEF HandleOps
<1>2. \A a \in Account : accounts[a] \in AccountState
  BY DEF RunTypeOK
<1>3. \A a \in Account : accounts'[a] \in AccountState /\ accounts'[a].code = accounts[a].code
  BY <1>1, <1>2 DEF AccountState
<1>4. \A a \in Account : accounts'[a].deposit >= accounts[a].deposit - 1
  BY <1>1, <1>2 DEF AccountState
<1>5. \A a \in Account : a \notin {TheAccount(n) : n \in Used} =>
         accounts'[a].deposit = accounts[a].deposit
  BY <1>1
<1>6. \A n \in Used : TheAccount(n) \in Account
  BY TheAccounts DEF HandleOps, Over
<1> QED  BY <1>1, <1>3, <1>4, <1>5, <1>6

\* The steps that change the accounts.
LEMMA AccountSteps ==
    ASSUME [Next]_vars
    PROVE  \/ CreateAccount \/ DepositTo \/ MineForAccount \/ HandleOps \/ UNCHANGED accounts
<1> USE DEF vars, checkerVars, measured
<1>1. CASE Running
  <2>1. CASE (\E f \in File : Construct(f)) \/ StartRow \/ RunTest \/ DoneTable
    BY <2>1 DEF Construct, StartRow, RunTest, DoneTable
  <2>2. CASE CreateAccounts1
    BY <2>2 DEF CreateAccounts1, GotFactory, GotBalance
  <2>3. CASE Measure
    BY <2>3 DEF Measure, MakeOps, EstimateHandleOps, GotReceiptOfOps, GotExecEstimate, FillAndSign
  <2>4. CASE \E p \in InitCaller : Collecting(p)
    BY <2>4 DEF Collecting, GotSigner, GotEntryPoint, Awaited
  <2> QED  BY <1>1, <2>1, <2>2, <2>3, <2>4 DEF Running
<1>2. CASE TimesOut \/ Deploys \/ (\E d \in Other : OtherDeploys(d)) \/ UNCHANGED vars
  BY <1>2 DEF TimesOut, Deploys, OtherDeploys
<1>3. CASE Mines
  BY <1>3 DEF Mines
<1> QED  BY <1>1, <1>2, <1>3 DEF Next

\* The accounts keep their type.
LEMMA AccountsTyped ==
    ASSUME FactoryOK, RunTypeOK, [Next]_vars
    PROVE  accounts' \in [Account -> AccountState]
<1>1. accounts \in [Account -> AccountState]
  BY DEF RunTypeOK
<1>2. CASE CreateAccount \/ DepositTo
  <2>1. run.n < Row.count /\ run.pc \notin Over
    BY <1>2 DEF CreateAccount, DepositTo, RunTypeOK, Over
  <2>2. TheAccount(run.n) \in Account
    BY <2>1, TheAccounts
  <2> QED  BY <1>1, <1>2, <2>2, AccountMinedTyped DEF CreateAccount, DepositTo, SubmitFor, AccountKind
<1>3. CASE MineForAccount
  <2>1. PICK tx \in chain.pool : /\ tx.kind \in AccountKind
                                 /\ accounts' = AccountMined(accounts, tx.kind, tx.what)
    BY <1>3 DEF MineForAccount
  <2>2. tx \in Transaction
    BY <2>1 DEF FactoryOK, Chain
  <2>3. tx.what \in Account
    BY <2>1, <2>2 DEF Transaction, AccountKind, FactoryKind
  <2> QED  BY <1>1, <2>1, <2>3, AccountMinedTyped
<1>4. CASE HandleOps
  BY <1>4, BundleCosts
<1>5. CASE UNCHANGED accounts
  BY <1>1, <1>5
<1>6. \/ CreateAccount \/ DepositTo \/ MineForAccount \/ HandleOps \/ UNCHANGED accounts
  BY AccountSteps
<1> QED  BY <1>2, <1>3, <1>4, <1>5, <1>6

-----------------------------------------------------------------------------
(***************************************************************************)
(* What the steps of the program are to the run.                           *)
(***************************************************************************)
RunStep ==
    \/ UNCHANGED <<run, gasEstimatePerExec, lastGasUsed>>
    \/ StartRow \/ RunTest \/ TimesOut \/ DoneTable
    \/ CreateAccounts1 \/ Measure

LEMMA RunSteps ==
    ASSUME [Next]_vars
    PROVE  RunStep
<1>1. CASE Running
  BY <1>1 DEF Running, Construct, measured, Collecting, GotSigner, GotEntryPoint, Awaited, RunStep
<1>2. CASE TimesOut \/ Deploys \/ Mines \/ (\E d \in Other : OtherDeploys(d)) \/ UNCHANGED vars
  BY <1>2 DEF Deploys, Mines, MineForAccount, OtherDeploys, vars, checkerVars, RunStep
<1> QED  BY <1>1, <1>2 DEF Next

\* A run that goes to another place in its row.
LEMMA SameRow ==
    ASSUME RunTypeOK, NEW r \in RunState, run' = r, r.test = run.test, r.row = run.row,
           run.pc \notin Over
    PROVE  /\ Row' = Row /\ Used' = Used
           /\ \A n : TheAccount(n)' = TheAccount(n)
           /\ r.test \in DOMAIN Test /\ r.row \in DOMAIN Test[r.test].rows
BY DEF Row, Used, TheAccount, RunTypeOK

\* A run at its start.
LEMMA NewRunTyped ==
    ASSUME NEW pc \in {"start", "end"}, NEW test \in Nat, NEW row \in Nat
    PROVE  /\ [NewRun EXCEPT !.pc = pc, !.test = test] \in RunState
           /\ [NewRun EXCEPT !.pc = pc, !.test = test, !.row = row] \in RunState
           /\ [NewRun EXCEPT !.pc = pc, !.test = test].row = 1
           /\ [NewRun EXCEPT !.pc = pc, !.test = test].n = 0
           /\ [NewRun EXCEPT !.pc = pc, !.test = test, !.row = row].n = 0
<1>1. NoOps \in [Salt -> {"none", "estimate", "nonce", "signed"}]
  BY DEF NoOps
<1> QED  BY <1>1 DEF NewRun, RunState, RunPc

\* The row that follows.
LEMMA NextRowTyped ==
    ASSUME RunTypeOK, run.pc \notin Over, NextRow
    PROVE  /\ run' \in RunState
           /\ run'.pc \in {"start", "end"}
           /\ run'.n = 0
           /\ run'.pc = "start" =>
                /\ run'.test \in DOMAIN Test /\ run'.row \in DOMAIN Test[run'.test].rows
                /\ run'.row = 1 \/ (run'.test = run.test /\ run'.row = run.row + 1)
<1>1. /\ run.test \in DOMAIN Test /\ run.row \in DOMAIN Test[run.test].rows
      /\ run.test \in Nat /\ run.row \in Nat
  BY DEF RunTypeOK, RunState
<1>2. /\ DOMAIN Test = 1 .. Len(Test) /\ Len(Test) \in Nat
      /\ \A i \in DOMAIN Test : /\ DOMAIN Test[i].rows = 1 .. Len(Test[i].rows)
                                /\ Len(Test[i].rows) \in Nat /\ Len(Test[i].rows) > 0
  BY TestTyped DEF TestSpec
<1>3. CASE AtEnd
  <2>1. run' = [NewRun EXCEPT !.pc = "end", !.test = run.test + 1]
    BY <1>3 DEF NextRow
  <2>2. run.test + 1 \in Nat
    BY <1>1
  <2>3. run' \in RunState
    BY <2>1, <2>2, NewRunTyped
  <2>4. run'.pc = "end" /\ run'.n = 0
    BY <2>1 DEF NewRun
  <2> QED  BY <2>3, <2>4
<1>4. CASE ~AtEnd /\ run.row < Len(Test[run.test].rows)
  <2>1. run' = [NewRun EXCEPT !.pc = "start", !.test = run.test, !.row = run.row + 1]
    BY <1>4 DEF NextRow
  <2>2. run.row + 1 \in Nat
    BY <1>1
  <2>4. run' \in RunState
    BY <1>1, <2>1, <2>2, NewRunTyped
  <2>3. run'.pc = "start" /\ run'.test = run.test /\ run'.row = run.row + 1 /\ run'.n = 0
    BY <2>1 DEF NewRun
  <2> QED  BY <1>1, <1>2, <1>4, <2>3, <2>4
<1>5. CASE ~AtEnd /\ ~(run.row < Len(Test[run.test].rows))
  <2>1. run' = [NewRun EXCEPT !.pc = "start", !.test = run.test + 1]
    BY <1>5 DEF NextRow
  <2>2. run.test + 1 \in Nat
    BY <1>1
  <2>3. run' \in RunState
    BY <2>1, <2>2, NewRunTyped
  <2>4. run'.pc = "start" /\ run'.test = run.test + 1 /\ run'.row = 1 /\ run'.n = 0
    BY <2>1 DEF NewRun
  <2>5. run.test # Len(Test)
    BY <1>1, <1>2, <1>5 DEF AtEnd
  <2> QED  BY <1>1, <1>2, <2>3, <2>4, <2>5
<1> QED  BY <1>3, <1>4, <1>5

\* A step within a row.
LEMMA WithinRow ==
    ASSUME RunTypeOK, LastIsPrevious, run.pc \notin Over, inst # Null => inst' = inst,
           accounts' \in [Account -> AccountState],
           NEW r \in RunState, run' = r, r.test = run.test, r.row = run.row,
           r.pc \in {"load", "start", "init", "factory"} => r.n = 0,
           r.pc \in {"create", "balanceOf", "depositTo"} => r.n <= Row.count,
           r.pc \in {"balanceOf", "depositTo"} => r.n < Row.count,
           r.pc \in {"factory", "create", "balanceOf", "depositTo", "ops", "handleOps", "receipt"} =>
               r.to = inst /\ inst # Null,
           gasEstimatePerExec' \in {"execute", "nothing", Null},
           UNCHANGED lastGasUsed
    PROVE  RunTypeOK' /\ LastIsPrevious'
<1>1. Row' = Row /\ r.test \in DOMAIN Test /\ r.row \in DOMAIN Test[r.test].rows
  BY SameRow
<1>2. lastGasUsed' \in Size \cup {Null}
  BY DEF RunTypeOK
<1>3. RunTypeOK'
  BY <1>1, <1>2 DEF RunTypeOK
<1>4. LastIsPrevious'
  BY DEF LastIsPrevious
<1> QED  BY <1>3, <1>4

\* The run stays in its tests, and remembers the last bundle.
LEMMA RunKept ==
    ASSUME RunTypeOK, LastIsPrevious, RunStep, inst # Null => inst' = inst,
           accounts' \in [Account -> AccountState], CollectorTypeOK, OneCollector
    PROVE  RunTypeOK' /\ LastIsPrevious'
<1>r. run \in RunState
  BY DEF RunTypeOK
<1>g. gasEstimatePerExec \in {"execute", "nothing", Null}
  BY DEF RunTypeOK
<1>1. CASE UNCHANGED <<run, gasEstimatePerExec, lastGasUsed>>
  <2>1. Row' = Row
    BY <1>1 DEF Row
  <2> QED  BY <1>1, <2>1 DEF RunTypeOK, LastIsPrevious
<1>2. CASE StartRow
  <2>1. run' = [run EXCEPT !.pc = "init"] /\ run.pc \in {"load", "start"}
        /\ UNCHANGED <<gasEstimatePerExec, lastGasUsed>>
    BY <1>2 DEF StartRow, measured
  <2>2. run' \in RunState
    BY <1>r, <2>1 DEF RunState, RunPc
  <2>3. run'.pc = "init" /\ run'.test = run.test /\ run'.row = run.row /\ run'.n = 0
    BY <1>r, <2>1 DEF RunState, RunTypeOK
  <2> QED  BY <1>g, <2>1, <2>2, <2>3, WithinRow DEF Over
<1>3. CASE RunTest
  <2>1. run.pc = "init" /\ UNCHANGED <<gasEstimatePerExec, lastGasUsed>>
    BY <1>3 DEF RunTest, measured
  <2>2. CASE waiting[Runner].pc = "done" /\ run' = [run EXCEPT !.pc = "factory", !.to = inst]
    <3>1. inst \in InitCaller /\ inst # Null
      BY <2>2 DEF CollectorTypeOK, OneCollector, InitCaller
    <3>2. run' \in RunState
      BY <1>r, <2>2, <3>1 DEF RunState, RunPc
    <3>3. /\ run'.pc = "factory" /\ run'.test = run.test /\ run'.row = run.row
          /\ run'.to = inst /\ run'.n = 0
      BY <1>r, <2>1, <2>2 DEF RunState, RunTypeOK
    <3> QED  BY <1>g, <2>1, <3>1, <3>2, <3>3, WithinRow DEF Over
  <2>3. CASE Fail
    <3>1. run' = [run EXCEPT !.pc = "bail", !.failed = TRUE]
      BY <2>3 DEF Fail
    <3>2. run' \in RunState
      BY <1>r, <3>1 DEF RunState, RunPc
    <3>3. run'.pc = "bail" /\ run'.test = run.test /\ run'.row = run.row
      BY <1>r, <3>1 DEF RunState
    <3> QED  BY <1>g, <2>1, <3>2, <3>3, WithinRow DEF Over
  <2> QED  BY <1>3, <2>2, <2>3 DEF RunTest
<1>4. CASE TimesOut
  <2>1. run' = [run EXCEPT !.pc = "bail"] /\ run.pc \notin Over
        /\ UNCHANGED <<gasEstimatePerExec, lastGasUsed>>
    BY <1>4 DEF TimesOut, measured, Over
  <2>2. run' \in RunState
    BY <1>r, <2>1 DEF RunState, RunPc
  <2>3. run'.pc = "bail" /\ run'.test = run.test /\ run'.row = run.row
    BY <1>r, <2>1 DEF RunState
  <2> QED  BY <1>g, <2>1, <2>2, <2>3, WithinRow
<1>5. CASE DoneTable
  <2>1. PICK pc \in {"exit", "crashed"} : run' = [run EXCEPT !.pc = pc]
    BY <1>5 DEF DoneTable
  <2>2. run' \in RunState /\ run'.pc \in Over
    BY <1>r, <2>1 DEF RunState, RunPc, Over
  <2>3. UNCHANGED <<gasEstimatePerExec, lastGasUsed>>
    BY <1>5 DEF DoneTable
  <2> QED  BY <2>2, <2>3 DEF RunTypeOK, LastIsPrevious, Over
<1>6. CASE CreateAccounts1
  <2>1. UNCHANGED <<gasEstimatePerExec, lastGasUsed>> /\ run.pc \notin Over
    BY <1>6 DEF CreateAccounts1, GotFactory, CreateAccount, GotBalance, DepositTo, measured, Over
  <2>2. Row.count \in Nat /\ Row.count >= 1
    BY <2>1, TheAccounts
  <2>3. CASE GotFactory
    <3>1. run.pc = "factory"
      BY <2>3 DEF GotFactory
    <3>2. CASE run' = [run EXCEPT !.pc = "create"]
      <4>1. run' \in RunState
        BY <1>r, <3>2 DEF RunState, RunPc
      <4>2. run'.pc = "create" /\ run'.test = run.test /\ run'.row = run.row /\ run'.to = run.to /\ run'.n = run.n
        BY <1>r, <3>2 DEF RunState
      <4>3. run.n = 0
        BY <3>1 DEF RunTypeOK
      <4> QED  BY <1>g, <2>1, <2>2, <3>1, <4>1, <4>2, <4>3, WithinRow DEF RunTypeOK
    <3>3. CASE Fail
      <4>1. run' = [run EXCEPT !.pc = "bail", !.failed = TRUE]
        BY <3>3 DEF Fail
      <4>2. run' \in RunState
        BY <1>r, <4>1 DEF RunState, RunPc
      <4>3. run'.pc = "bail" /\ run'.test = run.test /\ run'.row = run.row
        BY <1>r, <4>1 DEF RunState
      <4> QED  BY <1>g, <2>1, <4>2, <4>3, WithinRow
    <3> QED  BY <2>3, <3>2, <3>3 DEF GotFactory
  <2>4. CASE CreateAccount
    <3>1. run.pc = "create" /\ run.n < Row.count /\ run' = [run EXCEPT !.pc = "balanceOf"]
      BY <2>4 DEF CreateAccount
    <3>2. run' \in RunState
      BY <1>r, <3>1 DEF RunState, RunPc
    <3>3. /\ run'.pc = "balanceOf" /\ run'.test = run.test /\ run'.row = run.row
          /\ run'.to = run.to /\ run'.n = run.n
      BY <1>r, <3>1 DEF RunState
    <3>4. run.to = inst /\ inst # Null /\ run.n <= Row.count
      BY <3>1 DEF RunTypeOK
    <3> QED  BY <1>g, <2>1, <3>1, <3>2, <3>3, <3>4, WithinRow
  <2>5. CASE GotBalance \/ DepositTo
    <3>1. run.pc \in {"balanceOf", "depositTo"}
      BY <2>5 DEF GotBalance, DepositTo
    <3>2. run.to = inst /\ inst # Null /\ run.n < Row.count /\ run.n \in Nat
      BY <3>1 DEF RunTypeOK, RunState
    <3>3. run.n + 1 \in Nat /\ run.n + 1 <= Row.count
      BY <2>2, <3>2
    <3>4. CASE run' = [run EXCEPT !.pc = "depositTo"]
      <4>1. run' \in RunState
        BY <1>r, <3>4 DEF RunState, RunPc
      <4>2. /\ run'.pc = "depositTo" /\ run'.test = run.test /\ run'.row = run.row
            /\ run'.to = run.to /\ run'.n = run.n
        BY <1>r, <3>4 DEF RunState
      <4>3. run.n <= Row.count
        BY <2>2, <3>2
      <4> QED  BY <1>g, <2>1, <3>2, <4>1, <4>2, <4>3, WithinRow
    <3>5. CASE run' = [run EXCEPT !.pc = "create", !.n = @ + 1]
      <4>1. run' \in RunState
        BY <1>r, <3>3, <3>5 DEF RunState, RunPc
      <4>2. /\ run'.pc = "create" /\ run'.test = run.test /\ run'.row = run.row
            /\ run'.to = run.to /\ run'.n = run.n + 1
        BY <1>r, <3>5 DEF RunState
      <4> QED  BY <1>g, <2>1, <3>2, <3>3, <4>1, <4>2, WithinRow
    <3> QED  BY <2>5, <3>4, <3>5 DEF GotBalance, DepositTo
  <2> QED  BY <1>6, <2>3, <2>4, <2>5 DEF CreateAccounts1
<1>7. CASE Measure
  <2>1. run.pc \notin Over
    BY <1>7 DEF Measure, MakeOps, EstimateHandleOps, HandleOps, GotReceiptOfOps, GotExecEstimate,
                FillAndSign, Over
  <2>2. CASE MakeOps
    <3> DEFINE ops == [n \in Salt |-> IF n \notin Used THEN "none"
                                     ELSE IF gasEstimatePerExec = Null THEN "estimate" ELSE "nonce"]
    <3>1. run' = [run EXCEPT !.pc = "ops", !.accountEst = gasEstimatePerExec, !.ops = ops]
          /\ run.pc = "create" /\ UNCHANGED <<gasEstimatePerExec, lastGasUsed>>
      BY <2>2 DEF MakeOps, measured
    <3>2. ops \in [Salt -> {"none", "estimate", "nonce", "signed"}]
      OBVIOUS
    <3> HIDE DEF ops
    <3>3. run' \in RunState
      BY <1>r, <1>g, <3>1, <3>2 DEF RunState, RunPc
    <3>4. /\ run'.pc = "ops" /\ run'.test = run.test /\ run'.row = run.row /\ run'.to = run.to
      BY <1>r, <3>1 DEF RunState
    <3>5. run.to = inst /\ inst # Null
      BY <3>1 DEF RunTypeOK
    <3> QED  BY <1>g, <2>1, <3>1, <3>3, <3>4, <3>5, WithinRow
  <2>3. CASE \E n \in Salt : GotExecEstimate(n) \/ FillAndSign(n)
    <3>1. PICK n \in Salt : GotExecEstimate(n) \/ FillAndSign(n)
      BY <2>3
    <3>2. run.pc = "ops" /\ run.to = inst /\ inst # Null /\ UNCHANGED lastGasUsed
      BY <3>1 DEF GotExecEstimate, FillAndSign, RunTypeOK, measured
    <3>3. CASE GotExecEstimate(n)
      <4>1. PICK est \in {"execute", "nothing"} :
                /\ gasEstimatePerExec' = est
                /\ run' = [run EXCEPT !.ops[n] = "nonce", !.accountEst = est]
        BY <3>3 DEF GotExecEstimate
      <4> DEFINE ops == [run.ops EXCEPT ![n] = "nonce"]
      <4>2. run' = [run EXCEPT !.ops = ops, !.accountEst = est]
        BY <4>1
      <4>3. ops \in [Salt -> {"none", "estimate", "nonce", "signed"}]
        BY <1>r DEF RunState
      <4> HIDE DEF ops
      <4>4. run' \in RunState
        BY <1>r, <4>2, <4>3 DEF RunState
      <4>5. run'.pc = run.pc /\ run'.test = run.test /\ run'.row = run.row /\ run'.to = run.to
        BY <1>r, <4>2 DEF RunState
      <4>6. gasEstimatePerExec' \in {"execute", "nothing", Null}
        BY <4>1
      <4> QED  BY <2>1, <3>2, <4>4, <4>5, <4>6, WithinRow
    <3>4. CASE FillAndSign(n) /\ run' = [run EXCEPT !.ops[n] = "signed"]
      <4> DEFINE ops == [run.ops EXCEPT ![n] = "signed"]
      <4>2. run' = [run EXCEPT !.ops = ops]
        BY <3>4
      <4>3. ops \in [Salt -> {"none", "estimate", "nonce", "signed"}]
        BY <1>r DEF RunState
      <4> HIDE DEF ops
      <4>4. run' \in RunState
        BY <1>r, <4>2, <4>3 DEF RunState
      <4>5. run'.pc = run.pc /\ run'.test = run.test /\ run'.row = run.row /\ run'.to = run.to
        BY <1>r, <4>2 DEF RunState
      <4>6. gasEstimatePerExec' \in {"execute", "nothing", Null}
        BY <1>g, <3>4 DEF FillAndSign, measured
      <4> QED  BY <2>1, <3>2, <4>4, <4>5, <4>6, WithinRow
    <3>5. CASE FillAndSign(n) /\ Fail
      <4>1. run' = [run EXCEPT !.pc = "bail", !.failed = TRUE] /\ UNCHANGED gasEstimatePerExec
        BY <3>5 DEF Fail, FillAndSign, measured
      <4>2. run' \in RunState
        BY <1>r, <4>1 DEF RunState, RunPc
      <4>3. run'.pc = "bail" /\ run'.test = run.test /\ run'.row = run.row
        BY <1>r, <4>1 DEF RunState
      <4> QED  BY <1>g, <2>1, <3>2, <4>1, <4>2, <4>3, WithinRow
    <3> QED  BY <3>1, <3>3, <3>4, <3>5 DEF FillAndSign
  <2>4. CASE EstimateHandleOps \/ HandleOps
    <3>1. /\ run.pc \in {"ops", "handleOps"} /\ run.to = inst /\ inst # Null
          /\ UNCHANGED <<gasEstimatePerExec, lastGasUsed>>
      BY <2>4 DEF EstimateHandleOps, HandleOps, RunTypeOK, measured
    <3>2. CASE Fail
      <4>1. run' = [run EXCEPT !.pc = "bail", !.failed = TRUE]
        BY <3>2 DEF Fail
      <4>2. run' \in RunState
        BY <1>r, <4>1 DEF RunState, RunPc
      <4>3. run'.pc = "bail" /\ run'.test = run.test /\ run'.row = run.row
        BY <1>r, <4>1 DEF RunState
      <4> QED  BY <1>g, <2>1, <3>1, <4>2, <4>3, WithinRow
    <3>3. ASSUME NEW pc \in {"handleOps", "receipt"}, run' = [run EXCEPT !.pc = pc]
          PROVE  RunTypeOK' /\ LastIsPrevious'
      <4>1. run' \in RunState
        BY <1>r, <3>3 DEF RunState, RunPc
      <4>2. run'.pc = pc /\ run'.test = run.test /\ run'.row = run.row /\ run'.to = run.to
        BY <1>r, <3>3 DEF RunState
      <4> QED  BY <1>g, <2>1, <3>1, <4>1, <4>2, WithinRow
    <3> QED  BY <2>4, <3>2, <3>3 DEF EstimateHandleOps, HandleOps
  <2>5. CASE GotReceiptOfOps
    <3>1. lastGasUsed' = GasUsed /\ NextRow /\ UNCHANGED gasEstimatePerExec
      BY <2>5 DEF GotReceiptOfOps
    <3>2. GasUsed \in Size
      BY <2>1, TheAccounts
    <3>3. /\ run' \in RunState
          /\ run'.pc \in {"start", "end"}
          /\ run'.n = 0
          /\ run'.pc = "start" =>
                /\ run'.test \in DOMAIN Test /\ run'.row \in DOMAIN Test[run'.test].rows
                /\ run'.row = 1 \/ (run'.test = run.test /\ run'.row = run.row + 1)
      BY <2>1, <3>1, NextRowTyped
    <3>4. RunTypeOK'
      BY <1>g, <3>1, <3>2, <3>3 DEF RunTypeOK, Over
    <3>5. LastIsPrevious'
      <4>1. SUFFICES ASSUME run'.pc = "start", run'.row > 1
                     PROVE  lastGasUsed' = <<Test[run'.test].file, Test[run'.test].rows[run'.row - 1].count>>
        BY <3>3 DEF LastIsPrevious, Over
      <4>2. run'.test = run.test /\ run'.row - 1 = run.row
        BY <1>r, <3>3, <4>1 DEF RunState
      <4> QED  BY <3>1, <4>2 DEF GasUsed, Row
    <3> QED  BY <3>4, <3>5
  <2> QED  BY <1>7, <2>2, <2>3, <2>4, <2>5 DEF Measure
<1> QED  BY <1>1, <1>2, <1>3, <1>4, <1>5, <1>6, <1>7 DEF RunStep

-----------------------------------------------------------------------------
(***************************************************************************)
(* The accounts of a bundle exist and can pay.                             *)
(***************************************************************************)
LEMMA AccountsReadyKept ==
    ASSUME FactoryOK, RunTypeOK, AccountsReady, RunStep, [Next]_vars, UNCHANGED automine
    PROVE  AccountsReady'
<1> DEFINE At(r, n) == <<Test[r.test].file, n>>
<1>h. \A n : TheAccount(n) = At(run, n)
  BY DEF TheAccount
<1> SUFFICES ASSUME automine
             PROVE  /\ \A a \in Account : accounts'[a].deposit >= 0
                    /\ \A n \in Ready' : /\ accounts'[At(run', n)].code
                                         /\ accounts'[At(run', n)].deposit > 0
                    /\ run'.pc \in {"balanceOf", "depositTo"} => accounts'[At(run', run'.n)].code
  BY DEF AccountsReady, TheAccount
<1>r. run \in RunState
  BY DEF RunTypeOK
<1>a. /\ accounts \in [Account -> AccountState]
      /\ \A a \in Account : accounts[a].deposit \in Int
  BY DEF RunTypeOK, AccountState
<1>b. /\ \A a \in Account : accounts[a].deposit >= 0
      /\ \A n \in Ready : accounts[At(run, n)].code /\ accounts[At(run, n)].deposit > 0
      /\ run.pc \in {"balanceOf", "depositTo"} => accounts[At(run, run.n)].code
  BY <1>h DEF AccountsReady
<1>c. CreateAccount \/ DepositTo \/ HandleOps \/ UNCHANGED accounts
  BY AccountSteps DEF MineForAccount, FactoryOK
<1>d. run.pc \notin Over => Row.count \in Nat /\ \A n \in Used : At(run, n) \in Account
  BY <1>h, TheAccounts
<1>1. CASE CreateAccount
  <2>1. /\ run.pc = "create" /\ run.n < Row.count /\ run' = [run EXCEPT !.pc = "balanceOf"]
        /\ SubmitFor("createAccount", At(run, run.n))
    BY <1>1, <1>h DEF CreateAccount
  <2>2. run'.pc = "balanceOf" /\ run'.n = run.n /\ run.n \in Nat /\ run'.test = run.test /\ run'.row = run.row
    BY <1>r, <2>1 DEF RunState
  <2>3. At(run, run.n) \in Account /\ \A n : At(run', n) = At(run, n)
    BY <1>d, <2>1, <2>2 DEF Used, Over
  <2>4. accounts' = AccountMined(accounts, "createAccount", At(run, run.n))
    BY <2>1 DEF SubmitFor
  <2>5. /\ accounts' \in [Account -> AccountState]
        /\ \A b \in Account : /\ accounts[b].code => accounts'[b].code
                              /\ accounts'[b].deposit >= accounts[b].deposit
        /\ accounts'[At(run, run.n)].code
    BY <1>a, <2>3, <2>4, AccountMinedTyped DEF AccountKind
  <2>6. \A b \in Account : accounts'[b].deposit \in Int
    BY <2>5 DEF AccountState
  <2>7. Ready' = 0 .. run.n - 1 /\ Ready = 0 .. run.n - 1
    BY <2>1, <2>2 DEF Ready
  <2>8. \A n \in Ready : At(run, n) \in Account
    BY <1>d, <2>1, <2>2, <2>7 DEF Used, Over
  <2> QED  BY <1>a, <1>b, <2>2, <2>3, <2>5, <2>6, <2>7, <2>8
<1>2. CASE DepositTo
  <2>1. /\ run.pc = "depositTo" /\ run.n < Row.count /\ run' = [run EXCEPT !.pc = "create", !.n = @ + 1]
        /\ SubmitFor("depositTo", At(run, run.n))
    BY <1>2, <1>h DEF DepositTo, RunTypeOK
  <2>2. run'.pc = "create" /\ run'.n = run.n + 1 /\ run.n \in Nat /\ run'.test = run.test /\ run'.row = run.row
    BY <1>r, <2>1 DEF RunState
  <2>3. At(run, run.n) \in Account /\ \A n : At(run', n) = At(run, n)
    BY <1>d, <2>1, <2>2 DEF Used, Over
  <2>4. accounts' = AccountMined(accounts, "depositTo", At(run, run.n))
    BY <2>1 DEF SubmitFor
  <2>5. /\ accounts' \in [Account -> AccountState]
        /\ \A b \in Account : /\ accounts[b].code => accounts'[b].code
                              /\ accounts'[b].deposit >= accounts[b].deposit
        /\ accounts'[At(run, run.n)].deposit = accounts[At(run, run.n)].deposit + 5
    BY <1>a, <2>3, <2>4, AccountMinedTyped DEF AccountKind
  <2>6. \A b \in Account : accounts'[b].deposit \in Int
    BY <2>5 DEF AccountState
  <2>7. Ready' = 0 .. run.n /\ Ready = 0 .. run.n - 1
    BY <2>1, <2>2 DEF Ready
  <2>8. \A n \in Ready' : n \in Ready \/ n = run.n
    BY <2>2, <2>7
  <2>9. \A n \in Ready : At(run, n) \in Account
    BY <1>d, <2>1, <2>2, <2>7 DEF Used, Over
  <2> QED  BY <1>a, <1>b, <2>1, <2>2, <2>3, <2>5, <2>6, <2>8, <2>9
<1>3. CASE HandleOps
  <2>1. run.pc = "handleOps" /\ run' = [run EXCEPT !.pc = "receipt"] /\ Ready = Used
    BY <1>3 DEF HandleOps, Ready
  <2>2. Ready' = {} /\ run'.pc = "receipt"
    BY <1>r, <2>1 DEF Ready, RunState
  <2>3. /\ \A a \in Account : a \notin {At(run, n) : n \in Used} =>
              accounts'[a].deposit = accounts[a].deposit
        /\ \A a \in Account : accounts'[a].deposit >= accounts[a].deposit - 1
        /\ \A a \in Account : accounts'[a].deposit \in Int
    BY <1>3, <1>h, BundleCosts DEF AccountState
  <2>4. ASSUME NEW a \in Account
        PROVE  accounts'[a].deposit >= 0
    <3>1. CASE a \in {At(run, n) : n \in Used}
      BY <1>a, <1>b, <2>1, <2>3, <3>1
    <3>2. CASE a \notin {At(run, n) : n \in Used}
      BY <1>a, <1>b, <2>3, <3>2
    <3> QED  BY <3>1, <3>2
  <2> QED  BY <2>2, <2>4
<1>4. CASE UNCHANGED accounts
  <2>1. CASE UNCHANGED run
    <3>1. Ready' = Ready /\ \A n : At(run', n) = At(run, n)
      BY <2>1 DEF Ready, Used, Row
    <3> QED  BY <1>4, <1>b, <2>1, <3>1
  <2>2. CASE run'.pc \notin {"create", "balanceOf", "depositTo", "ops", "handleOps"}
    <3>1. Ready' = {}
      BY <2>2 DEF Ready
    <3> QED  BY <1>4, <1>b, <2>2, <3>1
  <2>3. CASE GotFactory /\ run' = [run EXCEPT !.pc = "create"]
    <3>1. run'.pc = "create" /\ run'.n = 0
      BY <1>r, <2>3 DEF GotFactory, RunState, RunTypeOK
    <3>2. Ready' = {}
      BY <3>1 DEF Ready
    <3> QED  BY <1>4, <1>b, <3>1, <3>2
  <2>4. CASE GotBalance
    <3>1. run.pc = "balanceOf" /\ run.n \in Nat /\ run.n < Row.count
      BY <1>r, <2>4 DEF GotBalance, RunState, RunTypeOK
    <3>2. At(run, run.n) \in Account
      BY <1>d, <3>1 DEF Used, Over
    <3>3. CASE run' = [run EXCEPT !.pc = "depositTo"]
      <4>1. run'.pc = "depositTo" /\ run'.n = run.n /\ run'.test = run.test /\ run'.row = run.row
        BY <1>r, <3>3 DEF RunState
      <4>2. Ready' = Ready /\ \A n : At(run', n) = At(run, n)
        BY <3>1, <4>1 DEF Ready
      <4> QED  BY <1>4, <1>b, <3>1, <4>1, <4>2
    <3>4. CASE /\ run' = [run EXCEPT !.pc = "create", !.n = @ + 1]
               /\ ~(accounts[At(run, run.n)].deposit <= MinDepositOrBalance)
      <4>1. run'.pc = "create" /\ run'.n = run.n + 1 /\ run'.test = run.test /\ run'.row = run.row
        BY <1>r, <3>4 DEF RunState
      <4>2. Ready' = 0 .. run.n /\ Ready = 0 .. run.n - 1
        BY <3>1, <4>1 DEF Ready
      <4>3. \A n \in Ready' : n \in Ready \/ n = run.n
        BY <3>1, <4>2
      <4>4. \A n : At(run', n) = At(run, n)
        BY <4>1
      <4>5. accounts[At(run, run.n)].deposit > 0
        BY <1>a, <3>2, <3>4 DEF MinDepositOrBalance
      <4> QED  BY <1>4, <1>b, <3>1, <4>1, <4>3, <4>4, <4>5
    <3> QED  BY <1>h, <2>4, <3>3, <3>4 DEF GotBalance
  <2>5. CASE MakeOps
    <3>1. run.pc = "create" /\ run.n = Row.count
      BY <2>5 DEF MakeOps
    <3>2. run'.pc = "ops" /\ run'.test = run.test /\ run'.row = run.row
      BY <1>r, <2>5 DEF MakeOps, RunState
    <3>3. \A n : At(run', n) = At(run, n)
      BY <3>2
    <3>4. Ready = 0 .. Row.count - 1 /\ Ready' = 0 .. Row.count - 1
      BY <3>1, <3>2 DEF Ready, Used, Row
    <3> QED  BY <1>4, <1>b, <3>2, <3>3, <3>4
  <2>6. CASE /\ run.pc = "ops" /\ run'.pc \in {"ops", "handleOps"}
             /\ run'.test = run.test /\ run'.row = run.row
    <3>1. Ready' = Ready /\ \A n : At(run', n) = At(run, n)
      BY <2>6 DEF Ready, Used, Row
    <3> QED  BY <1>4, <1>b, <2>6, <3>1
  <2>7. CASE StartRow \/ RunTest \/ TimesOut \/ DoneTable \/ (GotFactory /\ Fail)
    <3>1. run'.pc \notin {"create", "balanceOf", "depositTo", "ops", "handleOps"}
      BY <1>r, <2>7, ZenonT(30) DEF StartRow, RunTest, TimesOut, DoneTable, Fail, RunState
    <3> QED  BY <2>2, <3>1
  <2>8. CASE (\E n \in Salt : GotExecEstimate(n) \/ FillAndSign(n)) \/ EstimateHandleOps
    <3>1. CASE Fail
      <4>1. run'.pc = "bail"
        BY <1>r, <3>1 DEF Fail, RunState
      <4> QED  BY <2>2, <4>1
    <3>2. CASE ~Fail
      <4>1. /\ run.pc = "ops" /\ run'.pc \in {"ops", "handleOps"}
            /\ run'.test = run.test /\ run'.row = run.row
        BY <1>r, <2>8, <3>2, ZenonT(30) DEF GotExecEstimate, FillAndSign, EstimateHandleOps, RunState
      <4> QED  BY <2>6, <4>1
    <3> QED  BY <3>1, <3>2
  <2>9. CASE GotReceiptOfOps
    <3>1. run'.pc \in {"start", "end"}
      BY <2>9, NextRowTyped DEF GotReceiptOfOps, Over
    <3> QED  BY <2>2, <3>1
  <2> QED
    <3>1. CASE CreateAccounts1
      BY <1>1, <1>2, <2>3, <2>4, <2>7, <3>1 DEF CreateAccounts1, GotFactory
    <3>2. CASE Measure
      BY <1>3, <2>5, <2>8, <2>9, <3>2 DEF Measure
    <3> QED  BY <2>1, <2>7, <3>1, <3>2 DEF RunStep
<1> QED  BY <1>1, <1>2, <1>3, <1>4, <1>c

-----------------------------------------------------------------------------
(***************************************************************************)
(* The rows.                                                               *)
(***************************************************************************)
\* A row of a collector was there, or is the result of this bundle.
LEMMA RowsAdded ==
    ASSUME CollectorTypeOK, RunTypeOK, CollectorStep,
           NEW p \in InitCaller, NEW i \in DOMAIN collector'[p].tabRows
    PROVE  \/ /\ i \in DOMAIN collector[p].tabRows
              /\ collector'[p].tabRows[i] = collector[p].tabRows[i]
           \/ GotReceiptOfOps /\ Row.added /\ collector'[p].tabRows[i] = Result(lastGasUsed)
<1>t. collector \in [InitCaller -> CollectorState] /\ inst \in InitCaller \cup {Null}
  BY DEF CollectorTypeOK
<1>1. CASE UNCHANGED collector
  BY <1>1
<1>2. ASSUME NEW q \in InitCaller, NEW pc, collector' = [collector EXCEPT ![q].pc = pc]
      PROVE  collector'[p].tabRows = collector[p].tabRows
  BY <1>t, <1>2 DEF CollectorState
<1>3. ASSUME NEW q \in InitCaller, NEW pc,
             collector' = [collector EXCEPT ![q] = [pc |-> pc, tabRows |-> <<>>]]
      PROVE  collector'[p].tabRows = collector[p].tabRows
  BY <1>t, <1>3
<1>4. CASE \E q \in InitCaller : CollectorInit(q)
  BY <1>1, <1>3, <1>4 DEF CollectorInit, NewCollector
<1>5. CASE \E q \in InitCaller : Collecting(q)
  BY <1>1, <1>2, <1>3, <1>5 DEF Collecting, GotSigner, GotEntryPoint, Awaited
<1>6. CASE GotReceiptOfOps /\ Row.added
  <2>1. run.to \in InitCaller
    BY <1>6, <1>t DEF GotReceiptOfOps, RunTypeOK
  <2>2. collector' = [collector EXCEPT ![run.to].tabRows = Append(@, Result(lastGasUsed))]
    BY <1>6 DEF GotReceiptOfOps, AddRow
  <2>3. CASE p # run.to
    BY <1>t, <2>2, <2>3
  <2>4. CASE p = run.to
    <3> DEFINE rows == collector[p].tabRows
    <3>1. rows \in Seq(TableRow) /\ Result(lastGasUsed) \in TableRow
      BY <1>6, <1>t, ResultTyped DEF CollectorState, GotReceiptOfOps, Over
    <3>2. collector'[p].tabRows = Append(rows, Result(lastGasUsed))
      BY <1>t, <2>1, <2>2, <2>4 DEF CollectorState
    <3>3. i \in 1 .. Len(rows) + 1
      BY <3>1, <3>2
    <3> QED  BY <1>6, <3>1, <3>2, <3>3
  <2> QED  BY <2>3, <2>4
<1>7. CASE GotReceiptOfOps /\ ~Row.added
  BY <1>1, <1>7 DEF GotReceiptOfOps, AddRow
<1> QED  BY <1>1, <1>4, <1>5, <1>6, <1>7 DEF CollectorStep, collected

\* Nothing else of a collector changes when a row is added.
LEMMA RowsOnly ==
    ASSUME CollectorTypeOK, RunTypeOK, GotReceiptOfOps, NEW p \in InitCaller
    PROVE  collector'[p].pc = collector[p].pc
<1>1. collector \in [InitCaller -> CollectorState] /\ inst \in InitCaller \cup {Null}
  BY DEF CollectorTypeOK
<1>2. run.to \in InitCaller
  BY <1>1 DEF GotReceiptOfOps, RunTypeOK
<1>3. CASE collector' = [collector EXCEPT ![run.to].tabRows = Append(@, Result(lastGasUsed))]
  <2> DEFINE c == [collector[run.to] EXCEPT !.tabRows = Append(@, Result(lastGasUsed))]
  <2>1. collector' = [collector EXCEPT ![run.to] = c]
    BY <1>3
  <2>2. collector[run.to] \in CollectorState
    BY <1>1, <1>2
  <2>3. c.pc = collector[run.to].pc
    BY <2>2 DEF CollectorState
  <2> HIDE DEF c
  <2> QED  BY <1>1, <1>2, <2>1, <2>3
<1>4. CASE UNCHANGED collector
  BY <1>4
<1> QED  BY <1>3, <1>4 DEF GotReceiptOfOps, AddRow

\* A difference is one of two bundles of a file, of which one has one
\* operation more.
LEMMA DeltaKept ==
    ASSUME CollectorTypeOK, RunTypeOK, LastIsPrevious, CollectorStep, DeltaForOneOp
    PROVE  DeltaForOneOp'
<1> DEFINE ForOne(row) ==
        row.gasDiff # Null => /\ row.gasDiff[2] # Null
                              /\ row.gasDiff[1][1] = row.gasDiff[2][1]
                              /\ row.gasDiff[1][2] = row.gasDiff[2][2] + 1
<1>1. SUFFICES ASSUME NEW p \in InitCaller, NEW i \in DOMAIN collector'[p].tabRows
               PROVE  ForOne(collector'[p].tabRows[i])
  BY DEF DeltaForOneOp
<1>2. CASE /\ i \in DOMAIN collector[p].tabRows
           /\ collector'[p].tabRows[i] = collector[p].tabRows[i]
  BY <1>2 DEF DeltaForOneOp
<1>3. CASE GotReceiptOfOps /\ collector'[p].tabRows[i] = Result(lastGasUsed)
  <2>1. SUFFICES ASSUME Row.diffLastGas PROVE ForOne(Result(lastGasUsed))
    BY <1>3 DEF Result
  <2>2. run.pc \notin Over /\ run.test \in DOMAIN Test /\ run.row \in DOMAIN Test[run.test].rows
    BY <1>3 DEF GotReceiptOfOps, RunTypeOK, Over
  <2>3. run.row > 1 /\ Row.count = Test[run.test].rows[run.row - 1].count + 1
    BY <2>1, <2>2, TestsAsWritten DEF Row
  <2>4. lastGasUsed = <<Test[run.test].file, Test[run.test].rows[run.row - 1].count>>
    BY <2>2, <2>3 DEF LastIsPrevious
  <2>5. lastGasUsed # Null
    <3>1. run.row - 1 \in DOMAIN Test[run.test].rows /\ Test[run.test] \in TestSpec
      BY <2>2, <2>3, TestTyped DEF TestSpec
    <3>2. Test[run.test].rows[run.row - 1] \in RowSpec /\ Test[run.test].file \in File
      BY <3>1 DEF TestSpec
    <3>3. Test[run.test].rows[run.row - 1].count \in 1 .. MaxCount
      BY <3>2 DEF RowSpec
    <3>4. lastGasUsed \in File \X (1 .. MaxCount)
      BY <2>4, <3>2, <3>3
    <3> QED  BY <3>4, CheckerConstants
  <2>6. Result(lastGasUsed).gasDiff = <<GasUsed, lastGasUsed>>
    BY <2>1 DEF Result
  <2>7. GasUsed[1] = Test[run.test].file /\ GasUsed[2] = Row.count
    BY DEF GasUsed
  <2>8. /\ lastGasUsed[1] = Test[run.test].file
        /\ lastGasUsed[2] = Test[run.test].rows[run.row - 1].count
    BY <2>4
  <2>9. /\ Result(lastGasUsed).gasDiff[1] = GasUsed
        /\ Result(lastGasUsed).gasDiff[2] = lastGasUsed
    BY <2>6
  <2> QED  BY <2>3, <2>5, <2>7, <2>8, <2>9
<1> QED  BY <1>2, <1>3, RowsAdded

(***************************************************************************)
(* The estimates.                                                          *)
(***************************************************************************)
\* What holds of the run's estimates.
RunEstimatesOK ==
    /\ gasEstimatePerExec # "nothing"
    /\ run.pc = "ops" =>
        /\ run.accountEst # "nothing"
        /\ \A n \in Salt : IF n \notin Used THEN run.ops[n] = "none"
                           ELSE run.accountEst = Null => run.ops[n] = "estimate"
    /\ run.pc \in {"handleOps", "receipt"} => run.accountEst = "execute"

LEMMA RunEstimatesKept ==
    ASSUME RunTypeOK, AccountsReady, RunStep, automine, RunEstimatesOK
    PROVE  RunEstimatesOK'
<1>r. run \in RunState /\ gasEstimatePerExec \in {"execute", Null}
  BY DEF RunTypeOK, RunEstimatesOK
<1>n. Null # "execute" /\ Null # "nothing"
  BY CheckerConstants
<1>1. CASE UNCHANGED <<run, gasEstimatePerExec, lastGasUsed>>
  BY <1>1 DEF RunEstimatesOK, Used, Row
<1>2. ASSUME run'.pc \notin {"ops", "handleOps", "receipt"}, UNCHANGED gasEstimatePerExec
      PROVE  RunEstimatesOK'
  BY <1>2 DEF RunEstimatesOK
<1>3. CASE Fail /\ UNCHANGED gasEstimatePerExec
  <2>1. run'.pc = "bail"
    BY <1>r, <1>3 DEF Fail, RunState
  <2> QED  BY <1>2, <1>3, <2>1
<1>4. CASE StartRow \/ RunTest \/ TimesOut \/ DoneTable \/ CreateAccounts1
  <2>1. UNCHANGED gasEstimatePerExec
    BY <1>4 DEF StartRow, RunTest, TimesOut, DoneTable, CreateAccounts1, GotFactory, CreateAccount,
                GotBalance, DepositTo, measured
  <2>2. run'.pc \notin {"ops", "handleOps", "receipt"}
    BY <1>r, <1>4 DEF StartRow, RunTest, TimesOut, DoneTable, CreateAccounts1, GotFactory,
                      CreateAccount, GotBalance, DepositTo, Fail, RunState
  <2> QED  BY <1>2, <2>1, <2>2
<1>5. CASE MakeOps
  <2>1. /\ run'.pc = "ops" /\ run'.test = run.test /\ run'.row = run.row
        /\ run'.accountEst = gasEstimatePerExec /\ UNCHANGED gasEstimatePerExec
    BY <1>r, <1>5 DEF MakeOps, RunState, measured
  <2>2. run'.ops = [n \in Salt |-> IF n \notin Used THEN "none"
                                   ELSE IF gasEstimatePerExec = Null THEN "estimate" ELSE "nonce"]
    BY <1>r, <1>5 DEF MakeOps, RunState
  <2>3. Used' = Used
    BY <2>1 DEF Used, Row
  <2> QED  BY <1>r, <1>n, <2>1, <2>2, <2>3 DEF RunEstimatesOK
<1>6. ASSUME NEW n \in Salt, GotExecEstimate(n)
      PROVE  RunEstimatesOK'
  <2>1. run.pc = "ops" /\ run.ops[n] = "estimate"
    BY <1>6 DEF GotExecEstimate
  <2>2. n \in Used
    BY <2>1 DEF RunEstimatesOK
  <2>3. accounts[TheAccount(n)].code
    BY <2>1, <2>2 DEF AccountsReady, Ready
  <2>4. gasEstimatePerExec' = "execute" /\ run' = [run EXCEPT !.ops[n] = "nonce", !.accountEst = "execute"]
    BY <1>6, <2>3 DEF GotExecEstimate
  <2>5. /\ run'.pc = "ops" /\ run'.test = run.test /\ run'.row = run.row
        /\ run'.accountEst = "execute"
        /\ \A m \in Salt \ {n} : run'.ops[m] = run.ops[m]
    BY <1>r, <2>1, <2>4 DEF RunState
  <2>6. Used' = Used
    BY <2>5 DEF Used, Row
  <2> QED  BY <1>n, <2>1, <2>2, <2>4, <2>5, <2>6 DEF RunEstimatesOK
<1>7. ASSUME NEW n \in Salt, FillAndSign(n)
      PROVE  RunEstimatesOK'
  <2>1. run.pc = "ops" /\ run.ops[n] = "nonce" /\ UNCHANGED gasEstimatePerExec
    BY <1>7 DEF FillAndSign, measured
  <2>2. CASE run' = [run EXCEPT !.ops[n] = "signed"]
    <3>1. n \in Used /\ run.accountEst # Null
      BY <2>1 DEF RunEstimatesOK
    <3>2. /\ run'.pc = "ops" /\ run'.test = run.test /\ run'.row = run.row
          /\ run'.accountEst = run.accountEst
          /\ \A m \in Salt \ {n} : run'.ops[m] = run.ops[m]
      BY <1>r, <2>1, <2>2 DEF RunState
    <3>3. Used' = Used
      BY <3>2 DEF Used, Row
    <3> QED  BY <2>1, <3>1, <3>2, <3>3 DEF RunEstimatesOK
  <2> QED  BY <1>3, <1>7, <2>1, <2>2 DEF FillAndSign
<1>8. CASE EstimateHandleOps
  <2>1. run.pc = "ops" /\ (\A n \in Used : run.ops[n] = "signed") /\ UNCHANGED gasEstimatePerExec
    BY <1>8 DEF EstimateHandleOps, measured
  <2>2. CASE run' = [run EXCEPT !.pc = "handleOps"]
    <3>1. 0 \in Used /\ 0 \in Salt
      <4>1. Row.count \in Nat /\ Row.count \in 1 .. MaxCount /\ Used \subseteq Salt
        BY <2>1, TheAccounts DEF Over
      <4>2. 0 \in Used
        BY <4>1 DEF Used
      <4> QED  BY <4>1, <4>2
    <3>2. run.accountEst = "execute"
      BY <1>r, <2>1, <3>1 DEF RunEstimatesOK, RunState
    <3>3. run'.pc = "handleOps" /\ run'.accountEst = "execute"
      BY <1>r, <2>2, <3>2 DEF RunState
    <3> QED  BY <2>1, <3>3 DEF RunEstimatesOK
  <2> QED  BY <1>3, <1>8, <2>1, <2>2 DEF EstimateHandleOps
<1>9. CASE HandleOps
  <2>1. /\ run.accountEst = "execute" /\ UNCHANGED gasEstimatePerExec
        /\ run'.pc = "receipt" /\ run'.accountEst = run.accountEst
    BY <1>r, <1>9 DEF HandleOps, RunEstimatesOK, RunState
  <2> QED  BY <2>1 DEF RunEstimatesOK
<1>10. CASE GotReceiptOfOps
  <2>1. run'.pc \in {"start", "end"} /\ UNCHANGED gasEstimatePerExec
    BY <1>10, NextRowTyped DEF GotReceiptOfOps, Over
  <2> QED  BY <1>2, <2>1
<1> QED  BY <1>1, <1>4, <1>5, <1>6, <1>7, <1>8, <1>9, <1>10 DEF RunStep, Measure

LEMMA EstimatesKept ==
    ASSUME CollectorTypeOK, RunTypeOK, AccountsReady, RunStep, CollectorStep, UNCHANGED automine,
           EstimatesOK
    PROVE  EstimatesOK'
<1> SUFFICES ASSUME automine
             PROVE  /\ RunEstimatesOK'
                    /\ \A p \in InitCaller : \A i \in DOMAIN collector'[p].tabRows :
                          collector'[p].tabRows[i].accountEst = "execute"
  BY DEF EstimatesOK, RunEstimatesOK
<1>1. RunEstimatesOK
  BY DEF EstimatesOK, RunEstimatesOK
<1>2. RunEstimatesOK'
  BY <1>1, RunEstimatesKept
<1>3. ASSUME NEW p \in InitCaller, NEW i \in DOMAIN collector'[p].tabRows
      PROVE  collector'[p].tabRows[i].accountEst = "execute"
  <2>1. CASE /\ i \in DOMAIN collector[p].tabRows
             /\ collector'[p].tabRows[i] = collector[p].tabRows[i]
    BY <2>1 DEF EstimatesOK
  <2>2. CASE GotReceiptOfOps /\ collector'[p].tabRows[i] = Result(lastGasUsed)
    BY <1>1, <2>2 DEF GotReceiptOfOps, RunEstimatesOK, Result
  <2> QED  BY <2>1, <2>2, RowsAdded
<1> QED  BY <1>2, <1>3

-----------------------------------------------------------------------------
(***************************************************************************)
(* The table.                                                              *)
(***************************************************************************)
\* What a row adds.
Added(i, n) == IF Test[i].rows[n].added THEN <<Test[i].rows[n]>> ELSE <<>>

LEMMA AddedRowsStep ==
    ASSUME NEW i \in DOMAIN Test, NEW j \in DOMAIN Test[i].rows
    PROVE  /\ AddedRows(i, j) = AddedRows(i, j - 1) \o Added(i, j)
           /\ AddedRows(i, j - 1) \in Seq(RowSpec)
           /\ Added(i, j) \in Seq(RowSpec)
<1> DEFINE f(k) == [n \in 1 .. k |-> Added(i, n)]
<1>1. Test[i].rows \in Seq(RowSpec)
  BY TestTyped DEF TestSpec
<1>2. j \in 1 .. Len(Test[i].rows) /\ j \in Nat /\ j - 1 \in Nat
  BY <1>1
<1>3. \A n \in 1 .. j : Added(i, n) \in Seq(RowSpec)
  <2> TAKE n \in 1 .. j
  <2>1. Test[i].rows[n] \in RowSpec
    BY <1>1, <1>2
  <2> QED  BY <2>1 DEF Added
<1>4. f(j) \in Seq(Seq(RowSpec)) /\ Len(f(j)) = j /\ f(j)[j] = Added(i, j)
  BY <1>2, <1>3
<1>5. f(j - 1) \in Seq(Seq(RowSpec)) /\ Len(f(j - 1)) = j - 1
  BY <1>2, <1>3
<1>6. \A n \in 1 .. j - 1 : f(j)[n] = f(j - 1)[n]
  BY <1>2
<1>7. AddedRows(i, j) = FlattenSeq(f(j)) /\ AddedRows(i, j - 1) = FlattenSeq(f(j - 1))
  BY DEF AddedRows, Added
<1>8. Added(i, j) \in Seq(RowSpec)
  BY <1>2, <1>3
<1> HIDE DEF f
<1>9. Len(f(j)) = Len(f(j - 1)) + 1 /\ \A n \in 1 .. Len(f(j - 1)) : f(j)[n] = f(j - 1)[n]
  BY <1>2, <1>4, <1>5, <1>6
<1>10. FlattenSeq(f(j)) = FlattenSeq(f(j - 1)) \o f(j)[Len(f(j))]
  BY <1>4, <1>5, <1>9, FlattenSeqStep
<1>11. FlattenSeq(f(j - 1)) \in Seq(RowSpec)
  BY <1>5, FlattenSeqType
<1> QED  BY <1>4, <1>7, <1>8, <1>10, <1>11

LEMMA FlattenNothing == FlattenSeq(<<>>) = <<>>
BY DEF FlattenSeq

LEMMA AddedBeforeFirst == \A i : AddedRows(i, 0) = <<>>
<1> TAKE i
<1>1. [n \in 1 .. 0 |-> IF Test[i].rows[n].added THEN <<Test[i].rows[n]>> ELSE <<>>] = <<>>
  OBVIOUS
<1> QED  BY <1>1, FlattenNothing DEF AddedRows

LEMMA RowsBeforeFirst == RowsOf(0) = <<>>
<1>1. [i \in 1 .. 0 |-> AddedRows(i, Len(Test[i].rows))] = <<>>
  OBVIOUS
<1> QED  BY <1>1, FlattenNothing DEF RowsOf

\* What a test adds.
LEMMA AddedTyped ==
    ASSUME NEW i \in DOMAIN Test
    PROVE  /\ Len(Test[i].rows) \in DOMAIN Test[i].rows
           /\ AddedRows(i, Len(Test[i].rows)) \in Seq(RowSpec)
<1> DEFINE n == Len(Test[i].rows)
<1>1. n \in DOMAIN Test[i].rows
  BY TestTyped DEF TestSpec
<1>2. /\ AddedRows(i, n) = AddedRows(i, n - 1) \o Added(i, n)
      /\ AddedRows(i, n - 1) \in Seq(RowSpec) /\ Added(i, n) \in Seq(RowSpec)
  BY <1>1, AddedRowsStep
<1>3. \A a, b \in Seq(RowSpec) : a \o b \in Seq(RowSpec)
  OBVIOUS
<1> HIDE DEF n
<1>4. AddedRows(i, n) \in Seq(RowSpec)
  BY <1>2, <1>3
<1> QED  BY <1>1, <1>4 DEF n

LEMMA RowsOfStep ==
    ASSUME NEW k \in DOMAIN Test
    PROVE  /\ RowsOf(k) = RowsOf(k - 1) \o AddedRows(k, Len(Test[k].rows))
           /\ RowsOf(k - 1) \in Seq(RowSpec) /\ RowsOf(k) \in Seq(RowSpec)
<1> DEFINE all(i) == AddedRows(i, Len(Test[i].rows))
           f(m) == [i \in 1 .. m |-> all(i)]
<1>1. k \in 1 .. Len(Test) /\ k \in Nat /\ k - 1 \in Nat /\ \A i \in 1 .. k : i \in DOMAIN Test
  BY TestTyped
<1>2. \A i \in 1 .. k : all(i) \in Seq(RowSpec)
  BY <1>1, AddedTyped
<1>3. RowsOf(k) = FlattenSeq(f(k)) /\ RowsOf(k - 1) = FlattenSeq(f(k - 1))
  BY DEF RowsOf
<1> HIDE DEF all
<1>4. f(k) \in Seq(Seq(RowSpec)) /\ Len(f(k)) = k /\ f(k)[k] = all(k)
  BY <1>1, <1>2
<1>5. f(k - 1) \in Seq(Seq(RowSpec)) /\ Len(f(k - 1)) = k - 1
  BY <1>1, <1>2, SMTT(30)
<1>6. \A i \in 1 .. k - 1 : f(k)[i] = f(k - 1)[i]
  BY <1>1
<1> HIDE DEF f
<1>7. Len(f(k)) = Len(f(k - 1)) + 1 /\ \A i \in 1 .. Len(f(k - 1)) : f(k)[i] = f(k - 1)[i]
  BY <1>1, <1>4, <1>5, <1>6
<1>8. FlattenSeq(f(k)) = FlattenSeq(f(k - 1)) \o f(k)[Len(f(k))]
  BY <1>4, <1>5, <1>7, FlattenSeqStep
<1>9. FlattenSeq(f(k - 1)) \in Seq(RowSpec) /\ FlattenSeq(f(k)) \in Seq(RowSpec)
  BY <1>4, <1>5, FlattenSeqType
<1> QED  BY <1>3, <1>4, <1>8, <1>9 DEF all

LEMMA RowsOfTyped ==
    ASSUME NEW k \in 0 .. Len(Test)
    PROVE  RowsOf(k) \in Seq(RowSpec)
<1>1. CASE k = 0
  <2>1. RowsOf(k) = <<>>
    BY <1>1, RowsBeforeFirst
  <2>2. <<>> \in Seq(RowSpec)
    OBVIOUS
  <2> QED  BY <2>1, <2>2
<1>2. CASE k # 0
  <2>1. k \in DOMAIN Test
    BY <1>2, TestTyped
  <2> QED  BY <2>1, RowsOfStep
<1> QED  BY <1>1, <1>2

\* The rows that are expected, and those after the next.
LEMMA ExpectedNext ==
    ASSUME NEW i \in DOMAIN Test, NEW j \in DOMAIN Test[i].rows
    PROVE  /\ Expected(i, j) \in Seq(RowSpec)
           /\ Expected(i, j + 1) = Expected(i, j) \o Added(i, j)
           /\ j = Len(Test[i].rows) => Expected(i + 1, 1) = Expected(i, j) \o Added(i, j)
<1>1. /\ AddedRows(i, j) = AddedRows(i, j - 1) \o Added(i, j)
      /\ AddedRows(i, j - 1) \in Seq(RowSpec) /\ Added(i, j) \in Seq(RowSpec)
  BY AddedRowsStep
<1>2. RowsOf(i - 1) \in Seq(RowSpec)
  BY RowsOfStep
<1>3. i \in Nat /\ j \in Nat
  BY TestTyped DEF TestSpec
<1>4. \A a, b, c \in Seq(RowSpec) : a \o b \in Seq(RowSpec) /\ a \o (b \o c) = (a \o b) \o c
  OBVIOUS
<1>5. Expected(i, j) \in Seq(RowSpec)
  BY <1>1, <1>2, <1>4 DEF Expected
<1>6. RowsOf(i - 1) \o AddedRows(i, j) = Expected(i, j) \o Added(i, j)
  BY <1>1, <1>2, <1>4 DEF Expected
<1>7. Expected(i, j + 1) = RowsOf(i - 1) \o AddedRows(i, j)
  <2>1. (j + 1) - 1 = j
    BY <1>3
  <2> QED  BY <2>1 DEF Expected
<1>8. ASSUME j = Len(Test[i].rows)
      PROVE  Expected(i + 1, 1) = RowsOf(i - 1) \o AddedRows(i, j)
  <2>1. (i + 1) - 1 = i /\ 1 - 1 = 0
    BY <1>3
  <2>2. Expected(i + 1, 1) = RowsOf(i) \o <<>>
    BY <2>1, AddedBeforeFirst DEF Expected
  <2>3. RowsOf(i) \in Seq(RowSpec) /\ RowsOf(i) = RowsOf(i - 1) \o AddedRows(i, j)
    BY <1>8, RowsOfStep
  <2>4. \A a \in Seq(RowSpec) : a \o <<>> = a
    OBVIOUS
  <2> QED  BY <2>2, <2>3, <2>4
<1> QED  BY <1>5, <1>6, <1>7, <1>8

\* Nothing is expected at first.
LEMMA ExpectedFirst == Expected(1, 1) = <<>>
<1>1. Expected(1, 1) = RowsOf(0) \o AddedRows(1, 0)
  BY DEF Expected
<1>2. <<>> \o <<>> = <<>>
  OBVIOUS
<1> QED  BY <1>1, <1>2, RowsBeforeFirst, AddedBeforeFirst

\* A row that is added is the one that is expected.
LEMMA MatchesNext ==
    ASSUME NEW rows \in Seq(TableRow), NEW expected \in Seq(RowSpec), Matches(rows, expected),
           NEW row \in TableRow, NEW r \in RowSpec,
           row.count = r.count, row.gasDiff = Null <=> ~r.diffLastGas
    PROVE  Matches(Append(rows, row), expected \o <<r>>)
<1> DEFINE more == Append(rows, row)
           all == expected \o <<r>>
<1>1. Len(rows) = Len(expected) /\ Len(rows) \in Nat
  BY DEF Matches
<1>2. Len(more) = Len(rows) + 1 /\ Len(all) = Len(expected) + 1
  OBVIOUS
<1>3. \A i \in 1 .. Len(rows) : more[i] = rows[i] /\ all[i] = expected[i]
  BY <1>1
<1>4. more[Len(rows) + 1] = row /\ all[Len(rows) + 1] = r
  BY <1>1
<1>5. DOMAIN more = 1 .. Len(rows) + 1 /\ DOMAIN rows = 1 .. Len(rows)
  OBVIOUS
<1> HIDE DEF more, all
<1>6. ASSUME NEW i \in DOMAIN more
      PROVE  more[i].count = all[i].count /\ (more[i].gasDiff = Null <=> ~all[i].diffLastGas)
  <2>1. CASE i \in 1 .. Len(rows)
    BY <1>3, <1>5, <2>1 DEF Matches
  <2>2. CASE i = Len(rows) + 1
    BY <1>4, <2>2
  <2> QED  BY <1>1, <1>5, <1>6, <2>1, <2>2
<1>7. Matches(more, all)
  BY <1>1, <1>2, <1>6 DEF Matches
<1> QED  BY <1>7 DEF more, all

\* Only the end of a bundle goes on to another row.
LEMMA SamePlace ==
    ASSUME RunTypeOK, RunStep, ~GotReceiptOfOps
    PROVE  /\ run'.test = run.test /\ run'.row = run.row
           /\ run.pc = "exit" => run'.pc = "exit"
<1>r. run \in RunState
  BY DEF RunTypeOK
<1>1. CASE UNCHANGED <<run, gasEstimatePerExec, lastGasUsed>>
  BY <1>1
<1>2. CASE StartRow \/ RunTest \/ TimesOut \/ DoneTable
  BY <1>r, <1>2 DEF StartRow, RunTest, TimesOut, DoneTable, Fail, RunState
<1>3. CASE CreateAccounts1
  BY <1>r, <1>3 DEF CreateAccounts1, GotFactory, CreateAccount, GotBalance, DepositTo, Fail, RunState
<1>4. CASE Measure
  BY <1>r, <1>4, ZenonT(30) DEF Measure, MakeOps, EstimateHandleOps, HandleOps, GotExecEstimate, FillAndSign,
                    Fail, RunState
<1> QED  BY <1>1, <1>2, <1>3, <1>4 DEF RunStep

\* ... and changes the rows of the collector.
LEMMA SameRows ==
    ASSUME CollectorTypeOK, OneCollector, CollectorStep, ~GotReceiptOfOps, NEW p \in InitCaller
    PROVE  \/ collector'[p].tabRows = collector[p].tabRows
           \/ inst = Null /\ collector'[p].tabRows = <<>>
<1>t. collector \in [InitCaller -> CollectorState] /\ inst \in InitCaller \cup {Null}
  BY DEF CollectorTypeOK
<1>1. CASE UNCHANGED collector
  BY <1>1
<1>2. ASSUME NEW q \in InitCaller, NEW pc, collector' = [collector EXCEPT ![q].pc = pc]
      PROVE  collector'[p].tabRows = collector[p].tabRows
  BY <1>t, <1>2 DEF CollectorState
<1>3. ASSUME NEW q \in InitCaller, NEW pc, inst = Null,
             collector' = [collector EXCEPT ![q] = [pc |-> pc, tabRows |-> <<>>]]
      PROVE  \/ collector'[p].tabRows = collector[p].tabRows
             \/ inst = Null /\ collector'[p].tabRows = <<>>
  BY <1>t, <1>3
<1>4. CASE \E q \in InitCaller : CollectorInit(q)
  BY <1>1, <1>3, <1>4 DEF CollectorInit, NewCollector
<1>5. CASE \E q \in InitCaller : Collecting(q)
  <2>1. PICK q \in InitCaller : Collecting(q)
    BY <1>5
  <2>2. CASE GotSigner(q) \/ Awaited(q)
    BY <1>1, <1>2, <2>2 DEF GotSigner, Awaited
  <2>3. CASE GotEntryPoint(q)
    <3>1. inst = Null
      BY <1>t, <2>3 DEF GotEntryPoint, OneCollector
    <3> QED  BY <1>2, <1>3, <2>3, <3>1 DEF GotEntryPoint
  <2> QED  BY <2>1, <2>2, <2>3 DEF Collecting
<1> QED  BY <1>1, <1>4, <1>5 DEF CollectorStep, collected

\* The rows are those of the bundles that were executed.
LEMMA RowsMatchKept ==
    ASSUME CollectorTypeOK, OneCollector, RunTypeOK, CollectorStep, RunStep,
           inst # Null => inst' = inst, RowsMatch
    PROVE  RowsMatch'
<1>n. Null \notin InitCaller
  BY FactoryConstants, CheckerConstants DEF InitCaller
<1>t. collector \in [InitCaller -> CollectorState] /\ inst \in InitCaller \cup {Null}
  BY DEF CollectorTypeOK
<1>1. CASE ~GotReceiptOfOps
  <2>1. run'.test = run.test /\ run'.row = run.row
    BY <1>1, SamePlace
  <2>2. CASE inst # Null
    <3>1. collector'[inst].tabRows = collector[inst].tabRows
      BY <1>1, <1>t, <2>2, SameRows
    <3>2. Matches(collector'[inst].tabRows, Expected(run'.test, run'.row))
      BY <2>1, <2>2, <3>1 DEF RowsMatch
    <3>3. inst' = inst
      BY <2>2
    <3> QED  BY <2>2, <3>2, <3>3 DEF RowsMatch
  <2>3. CASE inst = Null
    <3>1. run.test = 1 /\ run.row = 1 /\ \A p \in InitCaller : collector[p].tabRows = <<>>
      BY <2>3 DEF RowsMatch
    <3>2. \A p \in InitCaller : collector'[p].tabRows = <<>>
      BY <1>1, <3>1, SameRows
    <3>3. CASE inst' = Null
      BY <2>1, <3>1, <3>2, <3>3 DEF RowsMatch
    <3>4. CASE inst' # Null
      <4>1. inst' \in InitCaller
        BY <2>3, <3>4, CollectorKept DEF CollectorTypeOK
      <4>2. collector'[inst'].tabRows = <<>> /\ Expected(run'.test, run'.row) = <<>>
        BY <2>1, <3>1, <3>2, <4>1, ExpectedFirst
      <4>3. Matches(<<>>, <<>>)
        BY DEF Matches
      <4>4. Matches(collector'[inst'].tabRows, Expected(run'.test, run'.row))
        BY <4>2, <4>3
      <4> QED  BY <3>4, <4>4 DEF RowsMatch
    <3> QED  BY <3>3, <3>4
  <2> QED  BY <2>2, <2>3
<1>2. CASE GotReceiptOfOps
  <2> DEFINE rows == collector[inst].tabRows
             expected == Expected(run.test, run.row)
             added == Added(run.test, run.row)
  <2>1. /\ run.pc \notin Over /\ run.to = inst /\ inst # Null /\ inst \in InitCaller /\ inst' = inst
        /\ run.test \in DOMAIN Test /\ run.row \in DOMAIN Test[run.test].rows
    BY <1>2, <1>t DEF GotReceiptOfOps, RunTypeOK, Over
  <2>2. /\ Matches(rows, expected) /\ rows \in Seq(TableRow) /\ expected \in Seq(RowSpec)
    BY <1>t, <2>1, ExpectedNext DEF RowsMatch, CollectorState
  <2>3. Expected(run'.test, run'.row) = expected \o added
    <3>1. run.test \in Nat /\ run.row \in 1 .. Len(Test[run.test].rows)
      BY <2>1, TestTyped DEF TestSpec
    <3>2. \/ run'.test = run.test /\ run'.row = run.row + 1
          \/ run'.test = run.test + 1 /\ run'.row = 1 /\ run.row = Len(Test[run.test].rows)
      <4>1. NextRow
        BY <1>2 DEF GotReceiptOfOps
      <4> QED  BY <3>1, <4>1 DEF NextRow, NewRun, AtEnd
    <3> QED  BY <2>1, <3>2, ExpectedNext
  <2>4. CASE Row.added
    <3>1. collector' = [collector EXCEPT ![inst].tabRows = Append(@, Result(lastGasUsed))]
      BY <1>2, <2>1, <2>4 DEF GotReceiptOfOps, AddRow
    <3>2. collector'[inst].tabRows = Append(rows, Result(lastGasUsed))
      BY <1>t, <2>1, <3>1 DEF CollectorState
    <3>3. added = <<Row>>
      BY <2>4 DEF Added, Row
    <3>4. Result(lastGasUsed) \in TableRow /\ Row \in RowSpec
      BY <2>1, ResultTyped, TheAccounts
    <3>5. Result(lastGasUsed).gasDiff = Null <=> ~Row.diffLastGas
      <4>1. GasUsed \in Size /\ lastGasUsed \in Size \cup {Null}
        BY <2>1, TheAccounts DEF RunTypeOK
      <4>2. <<GasUsed, lastGasUsed>> # Null
        BY <4>1, CheckerConstants DEF Size
      <4> QED  BY <4>2 DEF Result
    <3>6. Result(lastGasUsed).count = Row.count
      BY DEF Result
    <3>7. Matches(Append(rows, Result(lastGasUsed)), expected \o <<Row>>)
      BY <2>2, <3>4, <3>5, <3>6, MatchesNext
    <3>8. Matches(collector'[inst].tabRows, Expected(run'.test, run'.row))
      BY <2>3, <3>2, <3>3, <3>7
    <3> QED  BY <2>1, <3>8 DEF RowsMatch
  <2>5. CASE ~Row.added
    <3>1. collector'[inst].tabRows = rows
      BY <1>2, <2>5 DEF GotReceiptOfOps, AddRow
    <3>2. added = <<>> /\ expected \o <<>> = expected
      BY <2>2, <2>5 DEF Added, Row
    <3>3. Expected(run'.test, run'.row) = expected
      BY <2>3, <3>2
    <3>4. Matches(collector'[inst].tabRows, Expected(run'.test, run'.row))
      BY <2>2, <3>1, <3>3
    <3> QED  BY <2>1, <3>4 DEF RowsMatch
  <2> QED  BY <2>4, <2>5
<1> QED  BY <1>1, <1>2

LEMMA PlaceKept ==
    ASSUME RunTypeOK, RunStep, PlaceOK
    PROVE  PlaceOK'
<1>1. CASE ~GotReceiptOfOps
  BY <1>1, SamePlace DEF PlaceOK
<1>2. CASE GotReceiptOfOps
  <2>1. /\ run.test \in DOMAIN Test /\ run.row \in DOMAIN Test[run.test].rows /\ NextRow
        /\ run.pc \notin Over
    BY <1>2 DEF GotReceiptOfOps, RunTypeOK, Over
  <2>2. CASE run'.pc = "start"
    BY <2>1, <2>2, NextRowTyped DEF PlaceOK
  <2>3. CASE run'.pc # "start"
    <3>1. AtEnd
      BY <2>1, <2>3 DEF NextRow, NewRun
    <3>2. run'.test = run.test + 1 /\ run'.row = 1 /\ run.test = Len(Test)
      BY <2>1, <3>1 DEF NextRow, NewRun, AtEnd
    <3> QED  BY <3>2 DEF PlaceOK
  <2> QED  BY <2>2, <2>3
<1> QED  BY <1>1, <1>2

\* The table is written once, at the end.
LEMMA TableStep ==
    ASSUME [Next]_vars
    PROVE  DoneTable \/ UNCHANGED table
<1>1. CASE Running
  BY <1>1 DEF Running, Construct, StartRow, RunTest, CreateAccounts1, GotFactory, CreateAccount,
              GotBalance, DepositTo, Measure, MakeOps, EstimateHandleOps, HandleOps,
              GotReceiptOfOps, GotExecEstimate, FillAndSign, Collecting, GotSigner, GotEntryPoint,
              Awaited, measured
<1>2. CASE TimesOut \/ Deploys \/ Mines \/ (\E d \in Other : OtherDeploys(d)) \/ UNCHANGED vars
  BY <1>2 DEF TimesOut, Deploys, Mines, MineForAccount, OtherDeploys, vars, checkerVars, measured
<1> QED  BY <1>1, <1>2 DEF Next

LEMMA TableKept ==
    ASSUME CollectorTypeOK, OneCollector, RunTypeOK, CollectorStep, RunStep, [Next]_vars,
           inst # Null => inst' = inst, TableIsCollectors
    PROVE  TableIsCollectors'
<1>t. inst \in InitCaller \cup {Null} /\ run \in RunState
  BY DEF CollectorTypeOK, RunTypeOK
<1>1. CASE DoneTable /\ inst # Null
  BY <1>t, <1>1 DEF DoneTable, collected, TableIsCollectors, RunState
<1>2. CASE UNCHANGED table
  <2> SUFFICES ASSUME table # Null PROVE TableIsCollectors'
    BY <1>2 DEF TableIsCollectors
  <2>1. run.pc = "exit" /\ inst # Null /\ table = collector[inst].tabRows
    BY DEF TableIsCollectors
  <2>2. ~GotReceiptOfOps
    BY <2>1 DEF GotReceiptOfOps
  <2>3. run'.pc = "exit"
    BY <2>1, <2>2, SamePlace
  <2>4. collector'[inst].tabRows = collector[inst].tabRows
    BY <1>t, <2>1, <2>2, SameRows
  <2>5. inst' = inst
    BY <2>1
  <2> QED  BY <1>2, <2>1, <2>3, <2>4, <2>5 DEF TableIsCollectors
<1> QED  BY <1>1, <1>2, TableStep DEF DoneTable

\* What is expected before a row begins with what earlier tests added.
LEMMA ExpectedBegins ==
    ASSUME PlaceOK
    PROVE  \E added \in Seq(RowSpec) :
               /\ Expected(run.test, run.row) = RowsOf(run.test - 1) \o added
               /\ RowsOf(run.test - 1) \in Seq(RowSpec)
<1>1. CASE run.test \in DOMAIN Test /\ run.row \in DOMAIN Test[run.test].rows
  <2>1. AddedRows(run.test, run.row - 1) \in Seq(RowSpec) /\ RowsOf(run.test - 1) \in Seq(RowSpec)
    BY <1>1, AddedRowsStep, RowsOfStep
  <2> QED  BY <2>1 DEF Expected
<1>2. CASE run.test = Len(Test) + 1 /\ run.row = 1
  <2>1. Len(Test) \in Nat
    BY TestTyped
  <2>2. run.test - 1 \in 0 .. Len(Test) /\ run.row - 1 = 0
    BY <1>2, <2>1
  <2>3. RowsOf(run.test - 1) \in Seq(RowSpec) /\ AddedRows(run.test, run.row - 1) = <<>>
    BY <2>2, RowsOfTyped, AddedBeforeFirst
  <2>4. <<>> \in Seq(RowSpec)
    OBVIOUS
  <2> QED  BY <2>3, <2>4 DEF Expected
<1> QED  BY <1>1, <1>2 DEF PlaceOK

LEMMA TableOKIsComplete ==
    ASSUME CollectorTypeOK, TableOK
    PROVE  TableComplete
<1> DEFINE expected == RowsOf(run.test - 1)
           whole == Expected(run.test, run.row)
<1> SUFFICES ASSUME table # Null
             PROVE  /\ Len(table) >= Len(expected)
                    /\ \A i \in DOMAIN expected :
                        /\ table[i].count = expected[i].count
                        /\ table[i].gasDiff = Null <=> ~expected[i].diffLastGas
  BY DEF TableComplete
<1>1. inst # Null /\ table = collector[inst].tabRows
  BY DEF TableOK, TableIsCollectors
<1>2. Matches(table, whole)
  BY <1>1 DEF TableOK, RowsMatch
<1>3. PICK added \in Seq(RowSpec) : whole = expected \o added /\ expected \in Seq(RowSpec)
  BY ExpectedBegins DEF TableOK
<1>4. table \in Seq(TableRow)
  BY <1>1 DEF CollectorTypeOK, CollectorState
<1> HIDE DEF expected, whole
<1>5. /\ Len(whole) = Len(expected) + Len(added) /\ Len(expected) \in Nat /\ Len(added) \in Nat
      /\ \A i \in 1 .. Len(expected) : whole[i] = expected[i]
  BY <1>3
<1>6. Len(table) = Len(whole) /\ DOMAIN table = 1 .. Len(table) /\ DOMAIN expected = 1 .. Len(expected)
  BY <1>2, <1>3, <1>4 DEF Matches
<1>7. \A i \in DOMAIN expected : i \in DOMAIN table /\ whole[i] = expected[i]
  BY <1>5, <1>6
<1> QED  BY <1>2, <1>5, <1>6, <1>7 DEF Matches

-----------------------------------------------------------------------------
(***************************************************************************)
(* The calls of deploy that are in progress.                               *)
(***************************************************************************)
\* A deploy that the program starts is one the collector or the run waits for.
LEMMA OneDeployKept ==
    ASSUME FactoryOK, CollectorTypeOK, OneCollector, RunTypeOK, CollectorStep, [Next]_vars,
           OneDeploy, inst # Null => inst' = inst
    PROVE  OneDeploy'
<1>t. /\ collector \in [InitCaller -> CollectorState] /\ inst \in InitCaller \cup {Null}
      /\ deploy \in [Caller -> DeployCall] /\ InitCaller \subseteq Caller
  BY CheckerConstants DEF CollectorTypeOK, FactoryOK, InitCaller
<1>1. ASSUME UNCHANGED deploy, \A p \in InitCaller : collector[p].pc = "deploy" => collector'[p].pc = "deploy"
      PROVE  OneDeploy'
  BY <1>1 DEF OneDeploy, InProgress
<1>2. ASSUME UNCHANGED deploy, UNCHANGED collected
      PROVE  OneDeploy'
  BY <1>1, <1>2 DEF collected
<1>3. CASE \E f \in File : Construct(f)
  <2>1. PICK p \in InitCaller : CollectorInit(p) /\ UNCHANGED deploy
    BY <1>3 DEF Construct, InitCaller, factoryVars
  <2>2. CASE UNCHANGED collector
    BY <1>1, <2>1, <2>2
  <2>3. CASE initPromise = Null
    <3>1. \A q \in InitCaller : collector[q].pc = "none"
      BY <1>t, <2>3, FactoryConstants, CheckerConstants DEF OneCollector, InitCaller
    <3> QED  BY <1>1, <2>1, <3>1
  <2> QED  BY <2>1, <2>2, <2>3 DEF CollectorInit
<1>4. CASE StartRow
  <2>1. CollectorInit(Runner) /\ UNCHANGED deploy
    BY <1>4 DEF StartRow, factoryVars
  <2>2. CASE UNCHANGED collector
    BY <1>1, <2>1, <2>2
  <2>3. CASE initPromise = Null /\ NewCollector(Runner)
    <3>1. \A p \in InitCaller : collector[p].pc = "none"
      BY <1>t, <2>3, FactoryConstants, CheckerConstants DEF OneCollector, InitCaller
    <3> QED  BY <1>1, <2>1, <3>1
  <2> QED  BY <2>1, <2>2, <2>3 DEF CollectorInit
<1>5. CASE RunTest
  <2>1. CASE UNCHANGED deploy
    BY <1>2, <1>5, <2>1 DEF RunTest
  <2>2. CASE waiting[Runner].pc = "done" /\ deploy' = [deploy EXCEPT ![Runner] = Deploying(AccountFactory)]
    <3>1. inst # Null /\ UNCHANGED collector
      BY <1>5, <2>2 DEF OneCollector, InitCaller, RunTest, collected
    <3>2. \A p \in InitCaller \ {Runner} : deploy'[p] = deploy[p]
      BY <1>t, <2>2
    <3> QED  BY <3>1, <3>2 DEF OneDeploy, InProgress
  <2> QED  BY <1>5, <2>1, <2>2 DEF RunTest
<1>6. CASE DoneTable \/ TimesOut \/ CreateAccounts1
  BY <1>2, <1>6 DEF DoneTable, TimesOut, CreateAccounts1, GotFactory, CreateAccount, GotBalance,
                    DepositTo, factoryVars
<1>7. CASE Measure
  <2>1. CASE GotReceiptOfOps
    <3>1. \A p \in InitCaller : collector'[p].pc = collector[p].pc
      BY <2>1, RowsOnly
    <3> QED  BY <1>1, <2>1, <3>1 DEF GotReceiptOfOps, factoryVars
  <2>2. CASE ~GotReceiptOfOps
    BY <1>2, <1>7, <2>2 DEF Measure, MakeOps, EstimateHandleOps, HandleOps, GotExecEstimate,
                            FillAndSign, factoryVars
  <2> QED  BY <2>1, <2>2
<1>8. CASE \E p \in InitCaller : Collecting(p)
  <2>1. PICK p \in InitCaller : Collecting(p)
    BY <1>8
  <2>2. CASE GotSigner(p)
    <3>1. /\ collector'[p].pc = "deploy"
          /\ \A q \in InitCaller \ {p} : collector'[q] = collector[q] /\ deploy'[q] = deploy[q]
      BY <1>t, <2>2 DEF GotSigner, CollectorState
    <3> QED  BY <2>2, <3>1 DEF OneDeploy, InProgress, GotSigner
  <2>3. CASE GotEntryPoint(p)
    <3>1. /\ deploy[p].pc \in AtRest /\ UNCHANGED <<deploy, inst>>
          /\ \A q \in InitCaller \ {p} : collector'[q] = collector[q]
      BY <1>t, <2>3 DEF GotEntryPoint, AtRest, factoryVars
    <3> QED  BY <3>1 DEF OneDeploy, InProgress
  <2>4. CASE Awaited(p)
    BY <1>1, <2>4 DEF Awaited, factoryVars
  <2> QED  BY <2>1, <2>2, <2>3, <2>4 DEF Collecting
<1>9. CASE Deploys
  <2>1. PICK d \in Caller : Deploy(d) /\ UNCHANGED checkerVars
    BY <1>9 DEF Deploys
  <2>2. deploy[d].pc \notin AtRest /\ \A q \in Caller \ {d} : deploy'[q] = deploy[q]
    BY <1>t, <2>1, DeployMoves DEF Moves
  <2> QED  BY <1>t, <2>1, <2>2 DEF OneDeploy, InProgress, checkerVars
<1>10. CASE Mines
  BY <1>2, <1>10 DEF Mines, Mine, MineForAccount, checkerVars, collected
<1>11. CASE \E d \in Other : OtherDeploys(d)
  <2>1. PICK d \in Other : OtherDeploys(d)
    BY <1>11
  <2>2. d \in Caller /\ d \notin InitCaller
    BY CheckerConstants DEF InitCaller
  <2>3. \A p \in InitCaller : deploy'[p] = deploy[p]
    BY <1>t, <2>1, <2>2 DEF OtherDeploys
  <2> QED  BY <2>1, <2>3 DEF OneDeploy, InProgress, OtherDeploys, checkerVars
<1>12. CASE UNCHANGED vars
  BY <1>2, <1>12 DEF vars, factoryVars, checkerVars, collected
<1> QED  BY <1>3, <1>4, <1>5, <1>6, <1>7, <1>8, <1>9, <1>10, <1>11, <1>12 DEF Next, Running

\* There is one at a time.
LEMMA OneAtATime ==
    ASSUME CollectorTypeOK, OneCollector, OneDeploy,
           NEW p \in InitCaller, InProgress(p), NEW q \in InitCaller, InProgress(q)
    PROVE  p = q
BY DEF OneCollector, OneDeploy

\* A call that is not started is not ended, and one that is is not forgotten.
LEMMA OnceBegun ==
    ASSUME FactoryOK, FactoryStep, NEW d \in Caller, deploy'[d].pc = "idle"
    PROVE  deploy[d].pc = "idle"
<1>t. deploy \in [Caller -> DeployCall]
  BY DEF FactoryOK
<1>1. CASE \E e \in Caller : Deploy(e)
  BY <1>t, <1>1, DeployMoves DEF Moves
<1>2. CASE \E e \in Caller, what \in Contract : Begins(e, what)
  <2>1. PICK e \in Caller, what \in Contract : Begins(e, what)
    BY <1>2
  <2>2. Deploying(what).pc = "factory"
    BY DEF Deploying, NoDeploy
  <2> QED  BY <1>t, <2>1, <2>2 DEF Begins
<1>3. CASE UNCHANGED deploy
  BY <1>3
<1> QED  BY <1>1, <1>2, <1>3 DEF FactoryStep, factoryVars, Mine, ForAccounts

-----------------------------------------------------------------------------
(***************************************************************************)
(* Nobody else deploys.                                                    *)
(***************************************************************************)
\* On a node that mines at once, a transaction that is sent is mined.
LEMMA SubmitMines ==
    ASSUME FactoryOK, automine, NEW d \in Caller, NEW what \in Contract
    PROVE  /\ Submit(Tx("fund", d, Factory)).fees > 0
           /\ Submit(Tx("fund", d, Factory)).code = chain.code
           /\ Submit(FactoryTx).code = chain.code \cup {Factory}
           /\ Factory \in chain.code => what \in Submit(Tx("create", d, what)).code
           /\ Factory \in chain.code /\ what \notin chain.code =>
                Submit(Tx("create", d, what)).receipts[d] = "success"
<1>1. chain \in Chain /\ chain.fees >= 0
  BY DEF FactoryOK
<1>2. Submit(Tx("fund", d, Factory)) = [chain EXCEPT !.fees = @ + 1]
  BY DEF Submit, Mined, Tx, Funded
<1>3. Submit(FactoryTx) = [chain EXCEPT !.fees = @ - 1, !.code = @ \cup {Factory}]
  BY DEF Submit, Mined, FactoryTx, Tx, FactoryCreated
<1>4. Submit(Tx("create", d, what)) = Created(chain, d, what)
  BY DEF Submit, Mined, Tx
<1>5. /\ Submit(Tx("fund", d, Factory)).fees > 0
      /\ Submit(Tx("fund", d, Factory)).code = chain.code
  BY <1>1, <1>2 DEF Chain
<1>6. Submit(FactoryTx).code = chain.code \cup {Factory}
  BY <1>1, <1>3 DEF Chain
<1>7. Factory \in chain.code => what \in Created(chain, d, what).code
  BY <1>1 DEF Created, Chain
<1>8. what \notin chain.code => Created(chain, d, what).receipts[d] = "success"
  BY <1>1 DEF Created, Chain
<1> QED  BY <1>4, <1>5, <1>6, <1>7, <1>8

\* Then a call of deploy goes on, and is not refused.
LEMMA ProgressKept ==
    ASSUME FactoryOK, automine, NEW d \in Caller, Deploy(d), Progress(d)
    PROVE  Progress(d)'
<1>t. /\ deploy \in [Caller -> DeployCall] /\ chain \in Chain /\ chain.pool = {}
      /\ deploy[d].factoryDeployed => Factory \in chain.code
      /\ deploy[d].pc # "idle" => deploy[d].what \in Contract
  BY DEF FactoryOK
<1>g. ASSUME NEW pc, Goto(d, pc)
      PROVE  deploy'[d].pc = pc /\ deploy'[d].what = deploy[d].what
  BY <1>t, <1>g DEF Goto, DeployCall
<1>1. CASE deploy[d].pc = "factory" /\ CheckFactory(d, "fund")
  <2>1. CASE Factory \in chain.code
    BY <1>1, <1>t, <2>1 DEF CheckFactory, IsFactoryDeployed, Progress, DeployCall
  <2>2. CASE Factory \notin chain.code
    BY <1>1, <1>g, <1>t, <2>2 DEF CheckFactory, IsFactoryDeployed, Progress
  <2> QED  BY <2>1, <2>2
<1>2. CASE SendFee(d)
  <2>1. Factory \notin chain.code /\ deploy'[d].pc = "factoryTx" /\ chain' = Submit(Tx("fund", d, Factory))
    BY <1>2, <1>g DEF SendFee, Progress
  <2>2. chain'.fees > 0 /\ chain'.code = chain.code
    BY <1>2, <1>t, <2>1, SubmitMines DEF SendFee
  <2> QED  BY <2>1, <2>2 DEF Progress
<1>3. CASE SendFactoryTx(d)
  <2>1. Acceptable(FactoryTx)
    BY <1>3, <1>t DEF SendFactoryTx, Progress, Acceptable, FactoryTx, Tx
  <2>2. deploy'[d].pc = "recheck" /\ chain' = Submit(FactoryTx)
    BY <1>3, <1>g, <2>1 DEF SendFactoryTx
  <2>3. Factory \in chain'.code
    BY <1>3, <1>t, <2>2, SubmitMines DEF SendFactoryTx
  <2> QED  BY <2>2, <2>3 DEF Progress
<1>4. CASE deploy[d].pc = "recheck" /\ CheckFactory(d, "thrown")
  <2>1. Factory \in chain.code
    BY <1>4 DEF Progress
  <2> QED  BY <1>4, <1>t, <2>1 DEF CheckFactory, IsFactoryDeployed, Progress, DeployCall
<1>5. CASE GotCode(d)
  <2>1. Factory \in chain.code /\ chain' = chain
    BY <1>5 DEF GotCode, Progress
  <2>2. CASE deploy[d].what \in chain.code
    <3>1. deploy'[d].pc = "returned"
      BY <1>5, <1>g, <2>2 DEF GotCode
    <3> QED  BY <3>1 DEF Progress
  <2>3. CASE deploy[d].what \notin chain.code
    <3>1. deploy'[d].pc = "send" /\ deploy'[d].what = deploy[d].what
      BY <1>5, <1>g, <2>3 DEF GotCode
    <3> QED  BY <2>1, <2>3, <3>1 DEF Progress
  <2> QED  BY <2>2, <2>3
<1>6. CASE SendDeployTx(d)
  <2>1. /\ Factory \in chain.code /\ deploy[d].what \notin chain.code /\ deploy[d].what \in Contract
        /\ deploy'[d].pc = "receipt" /\ deploy'[d].what = deploy[d].what
        /\ chain' = Submit(Tx("create", d, deploy[d].what))
    BY <1>6, <1>g, <1>t DEF SendDeployTx, Progress
  <2>2. chain'.receipts[d] = "success" /\ deploy[d].what \in chain'.code
    BY <2>1, SubmitMines
  <2> QED  BY <2>1, <2>2 DEF Progress
<1>7. CASE GotReceipt(d)
  <2>1. chain.receipts[d] = "success" /\ deploy[d].what \in chain.code
    BY <1>7 DEF GotReceipt, Progress
  <2>2. deploy'[d].pc = "verify" /\ deploy'[d].what = deploy[d].what
    BY <1>7, <1>g, <2>1 DEF GotReceipt
  <2>3. chain'.code = chain.code
    BY <1>7, <1>t DEF GotReceipt, Chain
  <2> QED  BY <2>1, <2>2, <2>3 DEF Progress
<1>8. CASE Verify(d)
  <2>1. deploy[d].what \in chain.code
    BY <1>8 DEF Verify, Progress
  <2>2. deploy'[d].pc = "returned"
    BY <1>8, <1>g, <2>1 DEF Verify
  <2> QED  BY <2>2 DEF Progress
<1> QED  BY <1>1, <1>2, <1>3, <1>4, <1>5, <1>6, <1>7, <1>8 DEF Deploy, DeployFactory

\* All calls of the program go on.
LEMMA AllProgressKept ==
    ASSUME FactoryOK, CollectorTypeOK, OneCollector, OneDeploy, FactoryStep, Alone,
           \A d \in Other : deploy'[d].pc = "idle",
           \A p \in InitCaller : Progress(p)
    PROVE  \A p \in InitCaller : Progress(p)'
<1>t. /\ deploy \in [Caller -> DeployCall] /\ automine /\ chain.pool = {} /\ InitCaller \subseteq Caller
      /\ Caller = InitCaller \cup Other
  BY CheckerConstants DEF FactoryOK, Alone, InitCaller
<1>1. CASE UNCHANGED factoryVars
  BY <1>1 DEF factoryVars, Progress
<1>2. CASE \E d \in Caller : Deploy(d)
  <2>1. PICK d \in Caller : Deploy(d)
    BY <1>2
  <2>2. deploy[d].pc \notin AtRest /\ \A e \in Caller \ {d} : deploy'[e] = deploy[e]
    BY <1>t, <2>1, DeployMoves DEF Moves
  <2>3. d \in InitCaller
    BY <1>t, <2>2 DEF Alone, AtRest
  <2>4. Progress(d)'
    BY <1>t, <2>1, <2>3, ProgressKept
  <2>5. ASSUME NEW e \in InitCaller \ {d}
        PROVE  Progress(e)'
    <3>1. deploy[e].pc \in AtRest
      BY <2>2, <2>3, <2>5, OneAtATime DEF InProgress
    <3>2. deploy[e].pc # "thrown"
      BY <2>5 DEF Progress
    <3> QED  BY <1>t, <2>2, <2>5, <3>1, <3>2 DEF Progress, AtRest
  <2> QED  BY <2>4, <2>5
<1>3. CASE Mine
  BY <1>t, <1>3 DEF Mine
<1>4. CASE \E d \in Caller, what \in Contract : Begins(d, what)
  <2>1. PICK d \in Caller, what \in Contract : Begins(d, what)
    BY <1>4
  <2>2. /\ deploy'[d].pc = "factory" /\ UNCHANGED chain
        /\ \A e \in Caller \ {d} : deploy'[e] = deploy[e]
    BY <1>t, <2>1 DEF Begins, Deploying, NoDeploy
  <2>3. Progress(d)'
    BY <2>2 DEF Progress
  <2>4. ASSUME NEW e \in InitCaller \ {d}
        PROVE  Progress(e)'
    BY <1>t, <2>2, <2>4 DEF Progress
  <2> QED  BY <2>3, <2>4
<1>5. CASE ForAccounts
  BY <1>t, <1>5 DEF ForAccounts
<1> QED  BY <1>1, <1>2, <1>3, <1>4, <1>5 DEF FactoryStep

\* The collector is made.
LEMMA NotRejected ==
    ASSUME CollectorTypeOK, RunTypeOK, CollectorStep,
           \A p \in InitCaller : Progress(p) /\ collector[p].pc # "rejected"
    PROVE  \A p \in InitCaller : collector'[p].pc # "rejected"
<1>t. collector \in [InitCaller -> CollectorState]
  BY DEF CollectorTypeOK
<1>1. CASE UNCHANGED collector
  BY <1>1
<1>2. ASSUME NEW p \in InitCaller, NEW c \in CollectorState, c.pc # "rejected",
             collector' = [collector EXCEPT ![p] = c]
      PROVE  \A q \in InitCaller : collector'[q].pc # "rejected"
  BY <1>2, OneChanges
<1>3. CASE \E p \in InitCaller : CollectorInit(p)
  <2>1. PICK p \in InitCaller : CollectorInit(p)
    BY <1>3
  <2>2. [pc |-> "balance", tabRows |-> <<>>] \in CollectorState
    BY DEF CollectorState
  <2> QED  BY <1>1, <1>2, <2>1, <2>2 DEF CollectorInit, NewCollector
<1>4. CASE \E p \in InitCaller : Collecting(p)
  <2>1. PICK p \in InitCaller : Collecting(p)
    BY <1>4
  <2>2. CASE GotSigner(p)
    BY <1>t, <2>2 DEF GotSigner, CollectorState
  <2>3. CASE GotEntryPoint(p)
    <3>1. collector' = [collector EXCEPT ![p] = [pc |-> "ready", tabRows |-> <<>>]]
      BY <2>3 DEF GotEntryPoint, Progress
    <3>2. [pc |-> "ready", tabRows |-> <<>>] \in CollectorState
      BY DEF CollectorState
    <3> QED  BY <1>2, <3>1, <3>2
  <2> QED  BY <1>1, <2>1, <2>2, <2>3 DEF Collecting, Awaited
<1>5. CASE GotReceiptOfOps
  BY <1>5, RowsOnly
<1> QED  BY <1>1, <1>3, <1>4, <1>5 DEF CollectorStep, collected

\* No test fails.
LEMMA NotFailed ==
    ASSUME CollectorTypeOK, OneCollector, RunTypeOK, AccountsReady, EstimatesOK, RunStep, automine,
           \A p \in InitCaller : Progress(p) /\ collector[p].pc # "rejected",
           ~run.failed
    PROVE  ~run'.failed
<1>r. run \in RunState
  BY DEF RunTypeOK
<1>w. \A p \in InitCaller : waiting[p].pc # "thrown"
  BY FactoryConstants, CheckerConstants DEF CollectorTypeOK, OneCollector, InitCaller
<1>1. CASE run'.failed = run.failed
  BY <1>1
<1>2. CASE RunTest
  BY <1>r, <1>w, <1>2 DEF RunTest, RunState, InitCaller
<1>3. CASE GotFactory
  BY <1>r, <1>3 DEF GotFactory, RunState, Progress, InitCaller
<1>4. ASSUME NEW n \in Salt, FillAndSign(n)
      PROVE  ~run'.failed
  <2>1. run.pc = "ops" /\ run.ops[n] = "nonce"
    BY <1>4 DEF FillAndSign
  <2>2. n \in Used
    BY <2>1 DEF EstimatesOK
  <2>3. accounts[TheAccount(n)].code
    BY <2>1, <2>2 DEF AccountsReady, Ready
  <2> QED  BY <1>r, <1>4, <2>3 DEF FillAndSign, RunState
<1>5. CASE EstimateHandleOps
  <2>1. \A n \in Used : accounts[TheAccount(n)].deposit > 0
    BY <1>5 DEF EstimateHandleOps, AccountsReady, Ready
  <2> QED  BY <1>r, <1>5, <2>1 DEF EstimateHandleOps, RunState
<1>6. CASE GotReceiptOfOps
  <2>1. run'.failed = NewRun.failed
    BY <1>6 DEF GotReceiptOfOps, NextRow, NewRun
  <2> QED  BY <2>1 DEF NewRun
<1>7. CASE UNCHANGED <<run, gasEstimatePerExec, lastGasUsed>>
  BY <1>7
<1>8. CASE StartRow \/ TimesOut \/ DoneTable \/ CreateAccount \/ GotBalance \/ DepositTo
  BY <1>r, <1>8 DEF StartRow, TimesOut, DoneTable, CreateAccount, GotBalance, DepositTo, RunState
<1>9. CASE MakeOps \/ HandleOps \/ \E n \in Salt : GotExecEstimate(n)
  BY <1>r, <1>9 DEF MakeOps, HandleOps, GotExecEstimate, RunState
<1> QED  BY <1>2, <1>3, <1>4, <1>5, <1>6, <1>7, <1>8, <1>9 DEF RunStep, CreateAccounts1, Measure

LEMMA AloneKept ==
    ASSUME FactoryOK, CollectorTypeOK, OneCollector, RunTypeOK, AccountsReady, EstimatesOK, OneDeploy,
           FactoryStep, CollectorStep, RunStep, UNCHANGED automine, AloneOK
    PROVE  AloneOK'
<1> SUFFICES ASSUME automine, \A d \in Other : deploy'[d].pc = "idle"
             PROVE  /\ \A p \in InitCaller : Progress(p)' /\ collector'[p].pc # "rejected"
                    /\ ~run'.failed
  BY DEF AloneOK, Alone
<1>1. Alone
  BY OnceBegun, CheckerConstants DEF Alone
<1>2. /\ \A p \in InitCaller : Progress(p) /\ collector[p].pc # "rejected"
      /\ ~run.failed
  BY <1>1 DEF AloneOK
<1>3. \A p \in InitCaller : Progress(p)'
  BY <1>1, <1>2, AllProgressKept
<1>4. \A p \in InitCaller : collector'[p].pc # "rejected"
  BY <1>2, NotRejected
<1>5. ~run'.failed
  BY <1>2, NotFailed
<1> QED  BY <1>3, <1>4, <1>5

-----------------------------------------------------------------------------
(***************************************************************************)
(* The theorems.                                                           *)
(***************************************************************************)
\* All begin as they should.
LEMMA Initially == Init => IInv
<1> SUFFICES ASSUME Init PROVE IInv
  OBVIOUS
<1>n. Null \notin InitCaller
  BY FactoryConstants, CheckerConstants DEF InitCaller
<1>d. NoDeploy \in DeployCall /\ NoDeploy.pc = "idle" /\ ~NoDeploy.factoryDeployed
  BY DEF NoDeploy, DeployCall, DeployPc, AtRest
<1>c. deploy = [d \in Caller |-> NoDeploy] /\ InitCaller \subseteq Caller
  BY CheckerConstants DEF Init, FactoryInit, InitCaller
<1>1. FactoryOK
  <2>1. PICK there \in {{}, {Factory}, Contract \cup {Factory}} :
            chain = [code |-> there, fees |-> 0, pool |-> {}, receipts |-> [d \in Caller |-> "none"]]
    BY DEF Init, FactoryInit
  <2>2. chain \in Chain /\ chain.pool = {} /\ chain.fees = 0
    BY <2>1 DEF Chain
  <2>3. automine \in BOOLEAN
    BY DEF Init, FactoryInit
  <2> QED  BY <1>c, <1>d, <2>2, <2>3 DEF FactoryOK
<1>2. ReturnedIsDeployed
  BY <1>c, <1>d DEF ReturnedIsDeployed
<1>3. /\ inst = Null /\ initPromise = Null /\ run = NewRun
      /\ gasEstimatePerExec = Null /\ lastGasUsed = Null
      /\ waiting = [p \in InitCaller |-> [pc |-> "idle", for |-> Null]]
      /\ collector = [p \in InitCaller |-> [pc |-> "none", tabRows |-> <<>>]]
  BY DEF Init
<1>4. CollectorTypeOK /\ OneCollector
  BY <1>3, <1>n DEF CollectorTypeOK, WaitState, CollectorState, OneCollector
<1>5. /\ run \in RunState /\ run.pc = "load" /\ run.test = 1 /\ run.row = 1 /\ run.n = 0 /\ ~run.failed
  <2>1. NoOps \in [Salt -> {"none", "estimate", "nonce", "signed"}]
    BY DEF NoOps
  <2> QED  BY <1>3, <2>1 DEF NewRun, RunState, RunPc
<1>6. /\ accounts \in [Account -> AccountState]
      /\ \A a \in Account : accounts[a].deposit >= 0
  <2>1. PICK deposit \in 1 .. 2 :
            accounts = IF AccountFactory \in chain.code
                       THEN [a \in Account |-> [code |-> TRUE, deposit |-> deposit]]
                       ELSE [a \in Account |-> [code |-> FALSE, deposit |-> 0]]
    BY DEF Init
  <2> QED  BY <2>1 DEF AccountState
<1>7. RunTypeOK
  <2>1. 1 \in DOMAIN Test
    BY TestTyped, CheckerConstants
  <2>2. 1 \in DOMAIN Test[1].rows
    BY <2>1, TestTyped DEF TestSpec
  <2> QED  BY <1>3, <1>5, <1>6, <2>1, <2>2 DEF RunTypeOK
<1>8. LastIsPrevious
  BY <1>5 DEF LastIsPrevious
<1>9. AccountsReady
  BY <1>5, <1>6 DEF AccountsReady, Ready
<1>10. EstimatesOK
  BY <1>3, <1>5, CheckerConstants DEF EstimatesOK
<1>11. OneDeploy
  BY <1>c, <1>d DEF OneDeploy, InProgress, AtRest
<1>12. AloneOK
  BY <1>3, <1>5, <1>c, <1>d DEF AloneOK, Progress
<1>13. DeltaForOneOp
  BY <1>3 DEF DeltaForOneOp
<1>14. TableOK
  <2>1. run.test = 1 /\ run.row = 1 /\ 1 \in DOMAIN Test /\ 1 \in DOMAIN Test[1].rows
    BY <1>5, TestTyped, CheckerConstants DEF TestSpec
  <2>2. table = Null
    BY DEF Init
  <2>3. RowsMatch
    BY <1>3, <2>1 DEF RowsMatch
  <2> QED  BY <2>1, <2>2, <2>3 DEF TableOK, PlaceOK, TableIsCollectors
<1> QED  BY <1>1, <1>2, <1>4, <1>7, <1>8, <1>9, <1>10, <1>11, <1>12, <1>13, <1>14 DEF IInv

\* Every step keeps them so.
LEMMA Inductive == IInv /\ [Next]_vars => IInv'
<1> SUFFICES ASSUME IInv, [Next]_vars PROVE IInv'
  OBVIOUS
<1>1. FactoryStep /\ CollectorStep /\ RunStep
  BY FactorySteps, CollectorSteps, RunSteps DEF IInv
<1>2. UNCHANGED automine
  BY <1>1, DeployMoves DEF IInv, FactoryStep, factoryVars, Mine, Begins, ForAccounts
<1>3. FactoryOK' /\ ReturnedIsDeployed'
  BY <1>1, FactoryKept DEF IInv
<1>4. CollectorTypeOK' /\ OneCollector' /\ (inst # Null => inst' = inst)
  BY <1>1, CollectorKept DEF IInv
<1>5. accounts' \in [Account -> AccountState]
  BY AccountsTyped DEF IInv
<1>6. RunTypeOK' /\ LastIsPrevious'
  BY <1>1, <1>4, <1>5, RunKept DEF IInv
<1>7. AccountsReady'
  BY <1>1, <1>2, AccountsReadyKept DEF IInv
<1>8. EstimatesOK'
  BY <1>1, <1>2, EstimatesKept DEF IInv
<1>9. DeltaForOneOp'
  BY <1>1, DeltaKept DEF IInv
<1>10. OneDeploy'
  BY <1>1, <1>4, OneDeployKept DEF IInv
<1>11. AloneOK'
  BY <1>1, <1>2, AloneKept DEF IInv
<1>12. TableOK'
  BY <1>1, <1>4, RowsMatchKept, PlaceKept, TableKept DEF IInv, TableOK
<1> QED  BY <1>3, <1>4, <1>6, <1>7, <1>8, <1>9, <1>10, <1>11, <1>12 DEF IInv

LEMMA Invariant == Spec => []IInv
BY Initially, Inductive, PTL DEF Spec

\* Create2Factory.ts: whoever got an address from deploy finds code there, for any
\* number of callers that deploy any of the contracts or the factory at once.
THEOREM DeployedWhenReturned == Spec => []ReturnedIsDeployed
<1>1. IInv => ReturnedIsDeployed
  BY DEF IInv
<1> QED  BY <1>1, Invariant, PTL

\* gascalc/GasChecker.ts:98, 152, 266-273: whatever tests there are, and whichever
\* fails or takes too long, the table that is written has the rows of all tests
\* that ended, in their order.
THEOREM TableIsComplete == Spec => []TableComplete
<1>1. IInv => TableComplete
  BY TableOKIsComplete DEF IInv
<1> QED  BY <1>1, Invariant, PTL

\* gascalc/GasChecker.ts:297: whatever tests there are, if each row that shows a
\* difference follows one with one operation less, the delta is that of one UserOp.
THEOREM DeltaIsForOneOp == Spec => []DeltaForOneOp
<1>1. IInv => DeltaForOneOp
  BY DEF IInv
<1> QED  BY <1>1, Invariant, PTL

\* gascalc/GasChecker.ts:299: the overhead is compared to account.exec().
THEOREM OverheadIsOverExec == Spec => []OverheadOverExec
<1>1. IInv => OverheadOverExec
  BY DEF IInv, EstimatesOK, OverheadOverExec
<1> QED  BY <1>1, Invariant, PTL

\* gascalc/GasChecker.ts: on a node of its own the program's tests do not fail.
THEOREM TestsPassAlone == Spec => []AlonePasses
<1>1. IInv => AlonePasses
  BY DEF IInv, AloneOK, Alone, AlonePasses
<1> QED  BY <1>1, Invariant, PTL

=============================================================================
