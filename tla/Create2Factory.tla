--------------------------- MODULE Create2Factory ---------------------------
(***************************************************************************)
(* class Create2Factory of src/Create2Factory.ts: contracts are deployed   *)
(* by a deterministic factory, which is deployed first when it is not      *)
(* there.  Callers use instances of their own, from one program or from    *)
(* several, on one chain; between two questions to the node the others go  *)
(* on.  The address of a contract follows from its code, so that a         *)
(* contract is one name here.                                              *)
(*                                                                         *)
(* A node mines a transaction when it is sent (Hardhat), or some time      *)
(* after it took it (geth).  Gas limits are taken to suffice.              *)
(***************************************************************************)
EXTENDS Integers, FiniteSets

CONSTANTS
    Caller,    \* who calls deploy
    Contract,  \* what is deployed
    Factory,   \* Create2Factory.contractAddress
    Null

ASSUME FactoryConstants ==
    /\ IsFiniteSet(Caller)
    /\ Factory \notin Contract
    /\ Null \notin Contract \cup Caller

VARIABLES
    automine,  \* transactions are mined when they are sent
    chain,     \* the code, the deployer's fees, the pool, and the receipts
    deploy     \* the calls of deploy

factoryVars == <<automine, chain, deploy>>

-----------------------------------------------------------------------------
(***************************************************************************)
(* The chain.  `fees' is the money of factoryDeployer, in deployment fees. *)
(* The signed factoryTx can be executed once.  A receipt is what `wait' of *)
(* a caller's last create transaction gives.                               *)
(***************************************************************************)
Tx(kind, by, what) == [kind |-> kind, by |-> by, what |-> what]

FactoryTx == Tx("factoryTx", Null, Factory)

Funded(s) == [s EXCEPT !.fees = @ + 1]

FactoryCreated(s) == [s EXCEPT !.fees = @ - 1, !.code = @ \cup {Factory}]

\* A call of the factory's address succeeds without effect when the factory is
\* not there, and reverts when the contract is there already.
Created(s, by, what) ==
    [s EXCEPT !.code = IF Factory \in s.code THEN @ \cup {what} ELSE @,
              !.receipts[by] = IF what \in s.code THEN "reverted" ELSE "success"]

Mined(s, tx) ==
    CASE tx.kind = "fund" -> Funded(s)
      [] tx.kind = "factoryTx" -> FactoryCreated(s)
      [] tx.kind = "create" -> Created(s, tx.by, tx.what)

Submit(tx) == IF automine THEN Mined(chain, tx) ELSE [chain EXCEPT !.pool = @ \cup {tx}]

FactoryKind == {"fund", "factoryTx", "create"}

Mine ==
    /\ \E tx \in chain.pool :
        /\ tx.kind \in FactoryKind
        /\ chain' = Mined([chain EXCEPT !.pool = @ \ {tx}], tx)
    /\ UNCHANGED <<automine, deploy>>

-----------------------------------------------------------------------------
NoDeploy == [pc |-> "idle", what |-> Null, factoryDeployed |-> FALSE]

FactoryInit ==
    /\ automine \in BOOLEAN
    /\ \E there \in {{}, {Factory}, Contract \cup {Factory}} :
        chain = [code |-> there, fees |-> 0, pool |-> {}, receipts |-> [d \in Caller |-> "none"]]
    /\ deploy = [d \in Caller |-> NoDeploy]

\* A new instance is made, and its deploy is called.
Deploying(what) == [NoDeploy EXCEPT !.pc = "factory", !.what = what]

Goto(d, pc) == deploy' = [deploy EXCEPT ![d].pc = pc]

(***************************************************************************)
(* _isFactoryDeployed remembers that it saw the factory.                   *)
(***************************************************************************)
IsFactoryDeployed(d) == deploy[d].factoryDeployed \/ Factory \in chain.code

CheckFactory(d, otherwise) ==
    /\ IF IsFactoryDeployed(d)
       THEN deploy' = [deploy EXCEPT ![d].factoryDeployed = TRUE, ![d].pc = "code"]
       ELSE Goto(d, otherwise)
    /\ UNCHANGED <<automine, chain>>

(***************************************************************************)
(* deployFactory: no transaction is waited for.                            *)
(***************************************************************************)
\* Mutant of SendFee: the fee is left out.
SendNoFee(d) ==
    /\ deploy[d].pc = "fund"
    /\ Goto(d, "factoryTx")
    /\ UNCHANGED <<automine, chain>>

SendFee(d) ==
    /\ deploy[d].pc = "fund"
    /\ chain' = Submit(Tx("fund", d, Factory))
    /\ Goto(d, "factoryTx")
    /\ UNCHANGED automine

\* The node refuses what the sender cannot pay, and what it knows already.
Acceptable(tx) == chain.fees > 0 /\ tx \notin chain.pool /\ tx.what \notin chain.code

SendFactoryTx(d) ==
    /\ deploy[d].pc = "factoryTx"
    /\ IF Acceptable(FactoryTx)
       THEN chain' = Submit(FactoryTx) /\ Goto(d, "recheck")
       ELSE UNCHANGED chain /\ Goto(d, "thrown")
    /\ UNCHANGED automine

DeployFactory(d) ==
    \/ deploy[d].pc = "factory" /\ CheckFactory(d, "fund")
    \/ SendFee(d)
    \/ SendFactoryTx(d)
    \/ deploy[d].pc = "recheck" /\ CheckFactory(d, "thrown")

(***************************************************************************)
(* The rest of deploy.                                                     *)
(***************************************************************************)
\* Mutant of GotCode: it asks for the code of the factory.
GotCodeOfFactory(d) ==
    /\ deploy[d].pc = "code"
    /\ Goto(d, IF Factory \in chain.code THEN "returned" ELSE "send")
    /\ UNCHANGED <<automine, chain>>

GotCode(d) ==
    /\ deploy[d].pc = "code"
    /\ Goto(d, IF deploy[d].what \in chain.code THEN "returned" ELSE "send")
    /\ UNCHANGED <<automine, chain>>

SendDeployTx(d) ==
    /\ deploy[d].pc = "send"
    /\ chain' = Submit(Tx("create", d, deploy[d].what))
    /\ Goto(d, "receipt")
    /\ UNCHANGED automine

GotReceipt(d) ==
    /\ deploy[d].pc = "receipt"
    /\ chain.receipts[d] # "none"
    /\ Goto(d, IF chain.receipts[d] = "success" THEN "verify" ELSE "thrown")
    /\ chain' = [chain EXCEPT !.receipts[d] = "none"]
    /\ UNCHANGED automine

Verify(d) ==
    /\ deploy[d].pc = "verify"
    /\ Goto(d, IF deploy[d].what \in chain.code THEN "returned" ELSE "thrown")
    /\ UNCHANGED <<automine, chain>>

Deploy(d) == DeployFactory(d) \/ GotCode(d) \/ SendDeployTx(d) \/ GotReceipt(d) \/ Verify(d)

-----------------------------------------------------------------------------
\* Whoever got an address from deploy finds code there, also when several
\* deploy the same contract or the factory at once, and although nobody waits
\* for the factory to be mined (lines 37-40, 64-69).
ReturnedIsDeployed == \A d \in Caller : deploy[d].pc = "returned" => deploy[d].what \in chain.code

=============================================================================
