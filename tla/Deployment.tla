----------------------------- MODULE Deployment -----------------------------
(***************************************************************************)
(* The hardhat tasks that deploy, verify and initialise the staking        *)
(* contracts, one process after another, on a chain that outlives them.    *)
(* A task is the list of its awaited steps; between two of them it may be  *)
(* killed.  What it leaves behind is the calldata it exported, the entries *)
(* of deployed-contracts.json and the transactions it sent, which the      *)
(* chain mines in the order of their nonces or, when the node drops its    *)
(* mempool, not at all.                                                    *)
(***************************************************************************)
EXTENDS Verification, UpgradeableProxy, SequencesExt

CONSTANTS NetworkChoices,  \* the networks a run may be on
          Tasks,           \* the tasks somebody may start
          MaxSent,         \* bound: transactions of the deployer
          MaxCrashes,      \* bound: processes killed
          MaxLosses        \* bound: mempools dropped

TaskNames ==
    {"common-deployment", "common-initialization", "verification", "dev-deployment",
     "deploy-StakedTokenV2Rev4", "deploy-StakedTokenV2Rev4 --verify",
     "deploy-StakedTokenV2Rev3", "deploy-staked-plmy-rev3", "initialize-StakedOas",
     "initialize-StakedTokenV2Rev3", "initialize-StakedTokenV2Rev4"}

ASSUME DeploymentAssumption ==
    /\ NetworkChoices \subseteq LiveNetworks
    /\ Tasks \subseteq TaskNames
    /\ MaxSent \in Nat /\ MaxCrashes \in Nat /\ MaxLosses \in Nat

VARIABLES network, etherscanKey,  \* the environment of every process
          calldata,   \* .deployments/calldata/<network>/<id>.calldata
          db,         \* deployed-contracts.json, the entries of the network
          sent,       \* the deployer's transactions, by nonce
          mined,      \* how many of them are mined
          reverted,   \* the nonces of those that reverted
          proxies,    \* the proxies that were called, by address
          factory,    \* the ids the factory of oasys has created
          task,       \* the task that runs or has finished
          todo,       \* its steps to come
          last,       \* the nonce of its last transaction
          outcome,    \* of the task
          crashes, losses

chainVars == <<sent, mined, reverted, proxies, factory>>
fileVars == <<calldata, db>>
processVars == <<task, todo, last, outcome>>
vars == <<network, etherscanKey, chainVars, fileVars, processVars,
          crashes, losses, verificationVars>>

Unregistered == NoContract
NoCalldata == [code |-> "", args |-> <<>>]

\* The contract of each id; the id of the proxy is StakedOas.
CodeOf == [StakedOas |-> PROXY, StakedOasImpl |-> "StakedOas",
           StakedTokenV2Rev3 |-> "StakedTokenV2Rev3",
           StakedTokenV2Rev4 |-> "StakedTokenV2Rev4"]

Ids == DOMAIN CodeOf

Admin == GetAdminPerNetwork(network)

\* The first account of the mnemonic, which initialises and then upgrades:
\* it has to be the admin where there is one.
Signer == IF NotFalsyOrZeroAddress(Admin) THEN Admin ELSE "Deployer"

StakingArgs ==
    <<GetCooldownSecondsPerNetwork(network), GetUnstakeWindowPerNetwork(network),
      Admin, GetDistributionDurationPerNetwork(network)>>

TokenArgs == <<GetTokenPerNetwork(network), GetIncentivesVaultPerNetwork(network)>>

GetDeployArgs(id) ==
    IF id = "StakedOas" THEN <<>>
    ELSE IF id = "StakedTokenV2Rev3" THEN StakingArgs \o TokenArgs
    ELSE StakingArgs

\* What deploy-staked-plmy-rev3 deploys on every network.
FixedArgs ==
    <<864000, 172800, "FixedManager", "100 years", "FixedToken", "FixedVault">>

\* Only StakedToken refuses the zero address for an emission manager.
ConstructorReverts(creation) ==
    creation.code = "StakedOas" /\ creation.args[3] = ZERO_ADDRESS

-----------------------------------------------------------------------------
(* The chain *)

\* A transaction creates at an address its nonce decides, the factory at one
\* the salt, that is the id, decides.
AddressOf(nonce) == [nonce |-> nonce]
PredictedAddress(id) == [salt |-> id]

CreationAt(address) ==
    IF \E id \in factory : address = PredictedAddress(id)
      THEN calldata[CHOOSE id \in factory : address = PredictedAddress(id)]
    ELSE IF \E n \in 1 .. mined : address = AddressOf(n) /\ sent[n].do = "create"
      THEN sent[address.nonce].creation
    ELSE NoCalldata

CodeAt(address) == CreationAt(address).code

ProxyAt(address) == IF address \in DOMAIN proxies THEN proxies[address] ELSE FreshProxy

InitializeData(arity) ==
    [arity |-> arity, token |-> GetTokenPerNetwork(network),
     vault |-> GetIncentivesVaultPerNetwork(network)]

InitializeCall ==
    [do |-> "initialize", to |-> db["StakedOas"], logic |-> db["StakedOasImpl"],
     data |-> InitializeData(InitializerArity("StakedOas"))]

UpgradeCall(id) ==
    [do |-> "upgradeToAndCall", to |-> db["StakedOas"], logic |-> db[id],
     data |-> InitializeData(InitializerArity(id))]

CallOf(id) == IF id = "StakedOas" THEN InitializeCall ELSE UpgradeCall(id)

\* Where there is no code a call succeeds and does nothing.
Succeeds(tx) ==
    \/ CodeAt(tx.to) = ""
    \/ /\ CodeAt(tx.to) = PROXY
       /\ IF tx.do = "initialize"
            THEN CanInitialize(ProxyAt(tx.to), CodeAt(tx.logic), tx.data)
            ELSE CanUpgradeToAndCall(ProxyAt(tx.to), Signer, CodeAt(tx.logic), tx.data)

Called(tx) ==
    LET proxy == ProxyAt(tx.to)
        code == CodeAt(tx.logic)
    IN  IF tx.do = "initialize"
          THEN Initialize(proxy, tx.logic, code, Admin, tx.data)
          ELSE UpgradeToAndCall(proxy, Signer, tx.logic, code, tx.data)

\* The next transaction of the deployer is mined.
Mine ==
    LET tx == sent[mined + 1]
    IN  /\ mined < Len(sent)
        /\ mined' = mined + 1
        /\ IF tx.do = "create"
             THEN UNCHANGED <<reverted, proxies>>
           ELSE IF ~Succeeds(tx)
             THEN reverted' = reverted \cup {mined + 1} /\ UNCHANGED proxies
           ELSE /\ UNCHANGED reverted
                /\ proxies' = IF CodeAt(tx.to) = PROXY
                                THEN [a \in DOMAIN proxies \cup {tx.to} |->
                                        IF a = tx.to THEN Called(tx) ELSE proxies[a]]
                                ELSE proxies
        /\ UNCHANGED <<network, etherscanKey, sent, factory, fileVars, processVars,
                       crashes, losses, verificationVars>>

\* The node loses what it has not mined; the nonces will be used again.
LoseMempool ==
    /\ mined < Len(sent)
    /\ losses < MaxLosses
    /\ losses' = losses + 1
    /\ sent' = SubSeq(sent, 1, mined)
    /\ UNCHANGED <<network, etherscanKey, mined, reverted, proxies, factory, fileVars,
                   processVars, crashes, verificationVars>>

\* On oasys the exported calldata is handed to the permissioned factory.
FactoryDeploys(id) ==
    /\ network = "oasys"
    /\ id \notin factory
    /\ calldata[id] # NoCalldata
    /\ factory' = factory \cup {id}
    /\ UNCHANGED <<network, etherscanKey, sent, mined, reverted, proxies, fileVars,
                   processVars, crashes, losses, verificationVars>>

\* The holders use what the proxy at the address runs.
Use(address) ==
    /\ address \in DOMAIN proxies
    /\ proxies' = [proxies EXCEPT ![address] =
                      UseStorage(@, CodeAt(@.implementation))]
    /\ proxies' # proxies
    /\ UNCHANGED <<network, etherscanKey, sent, mined, reverted, factory, fileVars,
                   processVars, crashes, losses, verificationVars>>

-----------------------------------------------------------------------------
(* The tasks *)

Step(do, id) == [do |-> do, id |-> id]
Check(what) == Step("check", what)
Wait == Step("wait", "")

\* Faulty: the entry is written before the file.
ExportRegisteredFirst(id) == <<Step("predict", id), Step("write", id)>>

\* saveDeploymentCallData: the file, then on oasys the entry.
Export(id) == <<Step("write", id), Step("predict", id)>>

ExportStakedOas == Export("StakedOasImpl") \o Export("StakedOas")

\* Faulty: the entry is written before the receipt is there.
DeployWithoutReceipt(id) == <<Step("send", id), Step("register", id), Wait>>

\* deploy: the entry is written from the receipt.
Deploy(id) == <<Step("send", id), Wait, Step("register", id)>>

DeployStakedOas == Deploy("StakedOas") \o Deploy("StakedOasImpl")

\* deployContract writes the entry with the transaction pending.
CreateRevision(id, verify) ==
    <<Step("create", id), Step("register", id)>>
    \o (IF verify THEN <<Step("verify", id)>> ELSE <<>>)

\* Faulty: the task ends with the transaction pending.
DeployRevisionUnmined(id, verify) ==
    <<Check("chain id"), Check("addresses")>> \o CreateRevision(id, FALSE)

\* The tasks deploy-StakedTokenV2Rev3 and Rev4: once mined, the entry is
\* written again.
DeployRevision(id, verify) ==
    (IF verify THEN <<Check("verification")>> ELSE <<>>)
    \o <<Check("chain id"), Check("addresses")>>
    \o CreateRevision(id, verify)
    \o <<Wait, Step("register", id)>>

InitializeStakedOas == <<Check("chain id"), Step("call", "StakedOas"), Wait>>

\* Faulty: nobody waits for the upgrade.
UpgradeUnmined(id) == <<Check("chain id"), Step("call", id)>>

\* The tasks initialize-StakedTokenV2Rev3 and Rev4.
Upgrade(id) ==
    <<Check("chain id")>>
    \o (IF id = "StakedTokenV2Rev4" THEN <<Check("token and vault")>> ELSE <<>>)
    \o <<Step("call", id), Wait>>

CommonDeployment ==
    <<Check("admin")>> \o ExportStakedOas \o Export("StakedTokenV2Rev4")
    \o <<Step("leave oasys", "")>>
    \o DeployStakedOas \o DeployRevision("StakedTokenV2Rev4", FALSE)

CommonInitialization == InitializeStakedOas \o Upgrade("StakedTokenV2Rev4")

VerificationTask ==
    <<Check("chain id"), Step("verify", "StakedOas"), Step("verify", "StakedOasImpl"),
      Step("verify", "StakedTokenV2Rev4")>>

DeployStakedPlmyRev3 == CreateRevision("StakedTokenV2Rev3", TRUE)

Program(t) ==
    CASE t = "common-deployment" -> CommonDeployment
      [] t = "common-initialization" -> CommonInitialization
      [] t = "verification" -> VerificationTask
      [] t = "dev-deployment" -> DeployStakedOas
      [] t = "deploy-StakedTokenV2Rev4" -> DeployRevision("StakedTokenV2Rev4", FALSE)
      [] t = "deploy-StakedTokenV2Rev4 --verify" -> DeployRevision("StakedTokenV2Rev4", TRUE)
      [] t = "deploy-StakedTokenV2Rev3" -> DeployRevision("StakedTokenV2Rev3", FALSE)
      [] t = "deploy-staked-plmy-rev3" -> DeployStakedPlmyRev3
      [] t = "initialize-StakedOas" -> InitializeStakedOas
      [] t = "initialize-StakedTokenV2Rev3" -> Upgrade("StakedTokenV2Rev3")
      [] t = "initialize-StakedTokenV2Rev4" -> Upgrade("StakedTokenV2Rev4")

Sends(program) ==
    Cardinality({i \in DOMAIN program : program[i].do \in {"send", "create", "call"}})

-----------------------------------------------------------------------------
(* A process *)

Running == outcome = "running"

\* The step the process is at; verifyContract is a step of several rounds.
At(do, id) == Running /\ todo # <<>> /\ Head(todo) = Step(do, id) /\ ~verifying

Passes(what) ==
    CASE what = "admin" -> Admin # ""
      [] what = "verification" -> etherscanKey /\ network \in SUPPORTED_ETHERSCAN_NETWORKS
      [] what = "chain id" -> HasChainId(network)
      [] what = "addresses" ->
            \A a \in {Admin} \cup ToSet(TokenArgs) : NotFalsyOrZeroAddress(a)
      [] what = "token and vault" -> \A a \in ToSet(TokenArgs) : NotFalsyOrZeroAddress(a)

CreationOf(id) ==
    [code |-> CodeOf[id],
     args |-> IF task = "deploy-staked-plmy-rev3" THEN FixedArgs ELSE GetDeployArgs(id)]

\* The receipt of the last transaction is there.
Receipt == last \in 1 .. mined

\* The process waits for a transaction that no longer exists.
Hung == Running /\ todo # <<>> /\ Head(todo) = Wait /\ ~verifying /\ last > Len(sent)

\* The step throws, the estimate of its transaction's gas included.
Throws(step) ==
    CASE step.do = "check" -> ~Passes(step.id)
      [] step.do = "send" ->
            calldata[step.id] = NoCalldata \/ ConstructorReverts(calldata[step.id])
      [] step.do = "call" ->
            \/ Unregistered \in {CallOf(step.id).to, CallOf(step.id).logic}
            \/ ~Succeeds(CallOf(step.id))
      [] step.do = "wait" -> last \in reverted
      [] step.do = "verify" -> db[step.id] = Unregistered \/ ~etherscanKey
      [] OTHER -> FALSE

EndsAs(how) ==
    /\ outcome' = how
    /\ task' = IF how = "finished" THEN task ELSE ""
    /\ todo' = <<>>
    /\ last' = 0
    /\ EndVerification
    /\ UNCHANGED <<network, etherscanKey, chainVars, fileVars, losses>>

Continue == todo' = Tail(todo) /\ UNCHANGED <<task, outcome>>

\* Only a step that does not throw is taken.
Takes(do, id) == At(do, id) /\ ~Throws(Step(do, id)) /\ Continue

Environment == <<network, etherscanKey, crashes, losses>>

\* On oasys contracts are created by its factory: nobody runs these there.
DirectDeployments ==
    {"dev-deployment", "deploy-StakedTokenV2Rev3", "deploy-StakedTokenV2Rev4",
     "deploy-StakedTokenV2Rev4 --verify", "deploy-staked-plmy-rev3"}

Start(t) ==
    /\ ~Running
    /\ network = "oasys" => t \notin DirectDeployments
    /\ Len(sent) + Sends(Program(t)) <= MaxSent
    /\ task' = t
    /\ todo' = Program(t)
    /\ outcome' = "running"
    /\ UNCHANGED <<Environment, chainVars, fileVars, last, verificationVars>>

PassCheck ==
    /\ \E what \in {"admin", "verification", "chain id", "addresses", "token and vault"} :
          Takes("check", what)
    /\ UNCHANGED <<Environment, chainVars, fileVars, last, verificationVars>>

WriteCalldata(id) ==
    /\ Takes("write", id)
    /\ calldata' = [calldata EXCEPT ![id] = CreationOf(id)]
    /\ UNCHANGED <<Environment, chainVars, db, last, verificationVars>>

RegisterPredicted(id) ==
    /\ Takes("predict", id)
    /\ db' = IF network = "oasys" THEN [db EXCEPT ![id] = PredictedAddress(id)] ELSE db
    /\ UNCHANGED <<Environment, chainVars, calldata, last, verificationVars>>

\* On oasys common-deployment ends with the export.
LeaveOasys ==
    /\ At("leave oasys", "")
    /\ todo' = IF network = "oasys" THEN <<>> ELSE Tail(todo)
    /\ UNCHANGED <<Environment, chainVars, fileVars, task, last, outcome, verificationVars>>

SendTransaction(tx) ==
    /\ sent' = Append(sent, tx)
    /\ last' = Len(sent) + 1
    /\ UNCHANGED <<Environment, mined, reverted, proxies, factory, fileVars, verificationVars>>

SendCalldata(id) ==
    Takes("send", id) /\ SendTransaction([do |-> "create", creation |-> calldata[id]])

CreateContract(id) ==
    Takes("create", id) /\ SendTransaction([do |-> "create", creation |-> CreationOf(id)])

CallProxy(id) == Takes("call", id) /\ SendTransaction(CallOf(id))

WaitForReceipt ==
    /\ Receipt
    /\ Takes("wait", "")
    /\ UNCHANGED <<Environment, chainVars, fileVars, last, verificationVars>>

RegisterContract(id) ==
    /\ Takes("register", id)
    /\ db' = [db EXCEPT ![id] = AddressOf(last)]
    /\ UNCHANGED <<Environment, chainVars, calldata, last, verificationVars>>

\* verifyContract; it does nothing on a network the explorer does not know.
Verify(id) ==
    /\ At("verify", id)
    /\ ~Throws(Step("verify", id))
    /\ IF network \in SUPPORTED_ETHERSCAN_NETWORKS
         THEN StartVerification /\ UNCHANGED <<task, todo, outcome>>
         ELSE Continue /\ UNCHANGED verificationVars
    /\ UNCHANGED <<Environment, chainVars, fileVars, last>>

\* Once verifyContract returns, so does the step.
VerificationRound ==
    /\ verifying
    /\ \/ \E answer \in (IF CodeAt(db[Head(todo).id]) = "" THEN AnswersToNothing ELSE Answers) :
             Attempt(answer)
       \/ GiveUp
    /\ todo' = IF verifying' THEN todo ELSE Tail(todo)
    /\ UNCHANGED <<Environment, chainVars, fileVars, task, last, outcome>>

Finish == Running /\ todo = <<>> /\ EndsAs("finished") /\ UNCHANGED crashes

Fail ==
    /\ Running /\ todo # <<>> /\ ~verifying
    /\ Throws(Head(todo))
    /\ EndsAs("failed")
    /\ UNCHANGED crashes

ProcessStep ==
    \/ PassCheck \/ LeaveOasys \/ WaitForReceipt \/ VerificationRound \/ Finish \/ Fail
    \/ \E id \in Ids : \/ WriteCalldata(id) \/ RegisterPredicted(id) \/ SendCalldata(id)
                       \/ CreateContract(id) \/ CallProxy(id) \/ RegisterContract(id)
                       \/ Verify(id)

\* A process may be killed between any two steps; one that hangs will be.
Kill ==
    /\ Running
    /\ IF Hung THEN UNCHANGED crashes ELSE crashes < MaxCrashes /\ crashes' = crashes + 1
    /\ EndsAs("killed")

-----------------------------------------------------------------------------
Init ==
    /\ network \in NetworkChoices
    /\ etherscanKey \in BOOLEAN
    /\ calldata = [id \in Ids |-> NoCalldata]
    /\ db = [id \in Ids |-> Unregistered]
    /\ sent = <<>> /\ mined = 0 /\ reverted = {} /\ proxies = <<>> /\ factory = {}
    /\ task = "" /\ todo = <<>> /\ last = 0 /\ outcome = "idle"
    /\ crashes = 0 /\ losses = 0
    /\ VerificationInit

Next ==
    \/ \E t \in Tasks : Start(t)
    \/ ProcessStep
    \/ Kill
    \/ Mine
    \/ LoseMempool
    \/ \E id \in Ids : FactoryDeploys(id)
    \/ \E address \in DOMAIN proxies : Use(address)

Spec == Init /\ [][Next]_vars

\* The event loop goes on while there is something to do, and the chain mines.
FairSpec == Spec /\ WF_vars(ProcessStep) /\ WF_vars(Mine)

-----------------------------------------------------------------------------
(***************************************************************************)
(* The types of the files, of the chain and of the process.                *)
(***************************************************************************)
TypeOK ==
    /\ network \in NetworkChoices
    /\ etherscanKey \in BOOLEAN
    /\ \A id \in Ids : calldata[id] \in {NoCalldata, [code |-> CodeOf[id], args |-> GetDeployArgs(id)]}
    /\ db \in [Ids -> {AddressOf(n) : n \in 0 .. MaxSent} \cup {PredictedAddress(id) : id \in Ids}]
    /\ Len(sent) <= MaxSent /\ mined \in 0 .. Len(sent)
    /\ reverted \subseteq 1 .. mined
    /\ \A a \in DOMAIN proxies : CodeAt(a) = PROXY
    /\ factory \subseteq Ids
    /\ task \in Tasks \cup {""}
    /\ last \in 0 .. MaxSent
    /\ outcome \in {"idle", "running", "finished", "failed", "killed"}
    /\ crashes \in 0 .. MaxCrashes /\ losses \in 0 .. MaxLosses
    /\ VerificationTypeOK

Ready(id) ==
    CreationAt(db[id]) = [code |-> CodeOf[id], args |-> GetDeployArgs(id)]

\* On oasys the factory has created the right contract there, or is still to
\* create it and has the right calldata.
Promised(id) ==
    /\ network = "oasys"
    /\ db[id] = PredictedAddress(id)
    /\ calldata[id] = [code |-> CodeOf[id], args |-> GetDeployArgs(id)]

(***************************************************************************)
(* An entry of the proxy or of the first implementation stands for a       *)
(* contract that is there and is the right one, whatever was killed or     *)
(* lost since (deploy registers from the receipt).  On oasys every entry   *)
(* stands for an address at which the factory creates the right one: it is *)
(* written after the calldata.                                             *)
(***************************************************************************)
RegisteredExists ==
    \A id \in (IF network = "oasys" THEN Ids ELSE {"StakedOas", "StakedOasImpl"}) :
        db[id] = Unregistered \/ Ready(id) \/ Promised(id)

(***************************************************************************)
(* When common-deployment says it has finished, every contract the         *)
(* initialisation needs is deployed, configured and registered; on oasys   *)
(* at least exported and registered where the factory will create it.      *)
(***************************************************************************)
FinishedDeploymentComplete ==
    outcome = "finished" /\ task = "common-deployment"
      => \A id \in {"StakedOas", "StakedOasImpl", "StakedTokenV2Rev4"} :
            Ready(id) \/ Promised(id)

RunsRevision4 ==
    LET proxy == ProxyAt(db["StakedOas"])
    IN  /\ proxy.implementation = db["StakedTokenV2Rev4"]
        /\ CodeAt(proxy.implementation) = "StakedTokenV2Rev4"
        /\ proxy.lastInitializedRevision = 4

(***************************************************************************)
(* When common-initialization says it has finished, the proxy runs         *)
(* revision 4 with the configured admin, token and vault, also when an     *)
(* initialisation before it was killed or lost.  On oasys it says so, too, *)
(* when the factory had not created the proxy it called; then it has done  *)
(* nothing at all, and the proxy is still to be initialised: there is no   *)
(* success with the first implementation, without an admin or half done.   *)
(***************************************************************************)
FinishedInitializationReal ==
    outcome = "finished" /\ task = "common-initialization"
      => LET proxy == ProxyAt(db["StakedOas"])
         IN  \/ /\ RunsRevision4
                /\ proxy.admin = Admin
                /\ SubSeq(proxy.slots, 1, 3) = <<GetTokenPerNetwork(network)>> \o TokenArgs
             \/ network = "oasys" /\ proxy = FreshProxy

(***************************************************************************)
(* "Finished StakedTokenV2Rev3 and Transparent Proxy initialization": when *)
(* the task initialize-StakedTokenV2Rev4 prints it, revision 4 runs.       *)
(***************************************************************************)
FinishedUpgradeReal ==
    outcome = "finished" /\ task = "initialize-StakedTokenV2Rev4" => RunsRevision4

(***************************************************************************)
(* However often tasks were killed and transactions lost: once everything  *)
(* is deployed, an initialisation that is not done can be continued.       *)
(***************************************************************************)
NeverStuck ==
    (/\ ~Running /\ mined = Len(sent)
     /\ \A id \in {"StakedOas", "StakedOasImpl", "StakedTokenV2Rev4"} : Ready(id))
      => \/ ProxyAt(db["StakedOas"]).lastInitializedRevision = 4
         \/ /\ ProxyAt(db["StakedOas"]).implementation = NoContract
            /\ Succeeds(InitializeCall)
         \/ /\ ProxyAt(db["StakedOas"]).implementation # NoContract
            /\ Succeeds(UpgradeCall("StakedTokenV2Rev4"))

Code(proxy) == CodeAt(proxy.implementation)

Mappings == ToSet(StakingVariables \o PowerVariables)

\* What the code finds in its mapping: what a scalar left in the slot is not seen.
ValuesOf(proxy, code, mapping) ==
    {IF proxy.slots[i] \in Mappings THEN proxy.slots[i] ELSE "empty" :
        i \in SlotsOf(code, mapping)}

(***************************************************************************)
(* An upgrade keeps what the holders have accrued, cooled down, delegated  *)
(* and signed: a mapping both implementations know keeps its contents, one *)
(* only the new one knows starts empty ("Start of Storage layout from      *)
(* StakedToken v1").                                                       *)
(***************************************************************************)
KeepsState(proxy, before, after, upgraded) ==
    \A v \in Mappings :
       SlotsOf(after, v) # {} =>
          ValuesOf(upgraded, after, v) =
             IF SlotsOf(before, v) # {} THEN ValuesOf(proxy, before, v) ELSE {"empty"}

UpgradeKeepsState ==
    [][\A a \in DOMAIN proxies :
          LET before == Code(proxies[a])
              after == Code(proxies[a])'
          IN  before # after => KeepsState(proxies[a], before, after, proxies'[a])]_vars

(***************************************************************************)
(* Every task ends, unless it waits for a transaction the node has lost:   *)
(* the retries of the verification end whatever the explorer answers.      *)
(***************************************************************************)
TaskEnds == Running ~> (~Running \/ Hung)

=============================================================================
