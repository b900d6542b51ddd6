-------------------------- MODULE DeploymentProofs --------------------------
(***************************************************************************)
(* Theorems about Deployment, for any tasks and networks and any number of *)
(* transactions, killed processes and lost mempools.  DeploymentInv says   *)
(* what is true whatever task runs; CompleteInv and InitializationInv what *)
(* common-deployment and common-initialization have done by each step.     *)
(***************************************************************************)
EXTENDS Deployment, FiniteSetTheorems, TLAPS

-----------------------------------------------------------------------------
(* Verification *)

(* While it goes on, the rounds done and to come are four, and the last of   *)
(* them has all sources.                                                     *)
RoundsCounted ==
    verifying => /\ paramsFile
                 /\ attempts + times = MaxTimes
                 /\ times = 0 => ~relatedSources

VerificationInv == VerificationTypeOK /\ RoundsCounted

LEMMA AttemptKeeps ==
    ASSUME VerificationInv, NEW answer \in Answers, Attempt(answer)
    PROVE  VerificationInv'
<1>1. /\ times \in 0 .. 4 /\ attempts \in 0 .. 4 /\ attempts + times = 4
      /\ times > 0 /\ paramsFile = TRUE
  BY DEF VerificationInv, VerificationTypeOK, RoundsCounted, Attempt, MaxTimes
<1>2. attempts' = attempts + 1 /\ attempts' \in 0 .. 4
  BY <1>1 DEF Attempt
<1>3. verifying' \in BOOLEAN /\ relatedSources' \in BOOLEAN
  BY DEF Attempt, AskExplorer
<1>4. CASE verifying'
  <2>1. times' = times - 1
    BY <1>4 DEF Attempt
  <2>2. answer # "verified" /\ paramsFile' = TRUE
    BY <1>1, <1>4 DEF Attempt, AskExplorer
  <2>3. times' \in 0 .. 4 /\ attempts' + times' = 4
    BY <1>1, <1>2, <2>1
  <2>4. times' = 0 => times = 1
    BY <1>1, <2>1
  <2>5. times' = 0 => ~relatedSources'
    BY <2>4 DEF Attempt, AskExplorer, UploadsAllSources
  <2> QED BY <1>2, <1>3, <2>2, <2>3, <2>5
          DEF VerificationInv, VerificationTypeOK, RoundsCounted, MaxTimes
<1>5. CASE ~verifying'
  <2>1. times' = times
    BY <1>5 DEF Attempt
  <2>2. paramsFile' \in BOOLEAN
    BY DEF Attempt
  <2> QED BY <1>1, <1>2, <1>3, <1>5, <2>1, <2>2
          DEF VerificationInv, VerificationTypeOK, RoundsCounted, MaxTimes
<1> QED BY <1>4, <1>5

LEMMA GiveUpKeeps == VerificationInv /\ GiveUp => VerificationInv'
  BY DEF VerificationInv, VerificationTypeOK, RoundsCounted, GiveUp

LEMMA StartKeeps == StartVerification => VerificationInv'
  BY DEF VerificationInv, VerificationTypeOK, RoundsCounted, StartVerification, MaxTimes

LEMMA EndKeeps == EndVerification => VerificationInv'
<1>1. 0 \in 0 .. 4
  OBVIOUS
<1>2. EndVerification => ~verifying'
  BY DEF EndVerification
<1> QED BY <1>1, <1>2, Zenon
        DEF VerificationInv, VerificationTypeOK, RoundsCounted, EndVerification, MaxTimes

LEMMA VerificationUnchanged == VerificationInv /\ UNCHANGED verificationVars => VerificationInv'
  BY DEF VerificationInv, VerificationTypeOK, RoundsCounted, verificationVars

(* Every step of a task starts a verification, does a round of it, ends it   *)
(* or leaves it alone.                                                       *)
LEMMA VerificationStep == VerificationInv /\ [Next]_vars => VerificationInv'
<1> SUFFICES ASSUME VerificationInv, [Next]_vars PROVE VerificationInv'
  OBVIOUS
<1> USE VerificationUnchanged
<1>1. CASE UNCHANGED vars
  BY <1>1 DEF vars
<1>2. ASSUME NEW t \in Tasks, Start(t) PROVE VerificationInv'
  BY <1>2 DEF Start
<1>3. CASE PassCheck \/ LeaveOasys \/ WaitForReceipt
  BY <1>3 DEF PassCheck, LeaveOasys, WaitForReceipt
<1>4. CASE VerificationRound
  <2>1. CASE GiveUp
    BY <2>1, GiveUpKeeps
  <2>2. CASE ~GiveUp
    <3>1. PICK answer \in Answers : Attempt(answer)
      BY <1>4, <2>2 DEF VerificationRound, Answers, AnswersToNothing
    <3> QED BY <3>1, AttemptKeeps
  <2> QED BY <2>1, <2>2
<1>5. CASE Finish \/ Fail \/ Kill
  BY <1>5, EndKeeps DEF Finish, Fail, Kill, EndsAs
<1>6. ASSUME NEW id \in Ids,
             \/ WriteCalldata(id) \/ RegisterPredicted(id) \/ SendCalldata(id)
             \/ CreateContract(id) \/ CallProxy(id) \/ RegisterContract(id)
      PROVE  VerificationInv'
  BY <1>6 DEF WriteCalldata, RegisterPredicted, SendCalldata, CreateContract, CallProxy,
              RegisterContract, SendTransaction
<1>7. ASSUME NEW id \in Ids, Verify(id) PROVE VerificationInv'
  BY <1>7, StartKeeps DEF Verify
<1>8. CASE Mine \/ LoseMempool
  BY <1>8 DEF Mine, LoseMempool, verificationVars
<1>9. ASSUME NEW id \in Ids, FactoryDeploys(id) PROVE VerificationInv'
  BY <1>9 DEF FactoryDeploys
<1>10. ASSUME NEW a \in DOMAIN proxies, Use(a) PROVE VerificationInv'
  BY <1>10 DEF Use
<1> QED BY <1>1, <1>2, <1>3, <1>4, <1>5, <1>6, <1>7, <1>8, <1>9, <1>10
        DEF Next, ProcessStep

(* runTaskWithRetry: in every task, whatever the explorer answers, no round  *)
(* lacks its constructor arguments, and it gives up only after four rounds,  *)
(* the last with all sources.                                                *)
THEOREM VerificationIsThorough == Spec => []VerificationThorough
<1>1. Init => VerificationInv
  <2>1. 0 \in 0 .. 4
    OBVIOUS
  <2>2. Init => VerificationInit /\ ~verifying
    BY DEF Init, VerificationInit
  <2> QED BY <2>1, <2>2, Zenon
          DEF VerificationInit, VerificationInv, VerificationTypeOK, RoundsCounted, MaxTimes
<1>2. VerificationInv => VerificationThorough
  BY DEF VerificationInv, VerificationTypeOK, RoundsCounted, VerificationThorough, MaxTimes
<1> QED BY <1>1, <1>2, VerificationStep, PTL DEF Spec

-----------------------------------------------------------------------------
(* The programs of the tasks *)

\* The contracts that deploy creates from their exported calldata.
Direct == {"StakedOas", "StakedOasImpl"}

Kinds == {"check", "write", "predict", "leave oasys", "send", "create", "call", "wait",
          "register", "verify"}
Names == {"", "StakedOas", "StakedOasImpl", "StakedTokenV2Rev3", "StakedTokenV2Rev4",
          "admin", "verification", "chain id", "addresses", "token and vault"}
Steps == [do : Kinds, id : Names]

(* Such a contract is registered two steps after its transaction was sent,   *)
(* right after the wait for the receipt.                                     *)
FromReceipt(s) ==
    /\ s \in Seq(Steps)
    /\ \A i \in 1 .. Len(s), id \in Direct :
          s[i] = Step("register", id) =>
             i > 2 /\ s[i - 1] = Wait /\ s[i - 2] = Step("send", id)

(* The same of what is left of a program: as far as the steps are there.     *)
Remaining(s) ==
    /\ s \in Seq(Steps)
    /\ \A i \in 1 .. Len(s), id \in Direct :
          s[i] = Step("register", id) =>
             /\ i > 1 => s[i - 1] = Wait
             /\ i > 2 => s[i - 2] = Step("send", id)

WritesNothing(s) == \A i \in 1 .. Len(s) : s[i].do # "write"

LEMMA StepFields ==
    \A a, b, c, d : (Step(a, b) = Step(c, d)) <=> (a = c /\ b = d)
  BY DEF Step

LEMMA OtherStep == \A a, b, c, d : a # c => Step(a, b) # Step(c, d)
  BY StepFields

LEMMA OtherKind ==
    \A a, c, d : a # "register" => Step(a, c) # Step("register", d)
  BY OtherStep

LEMMA WaitIsNoSend == \A x : Wait # Step("send", x)
  BY OtherStep, Zenon DEF Wait

LEMMA StepIsStep ==
    \A a \in Kinds, b \in Names : Step(a, b) \in Steps
  BY DEF Step, Steps

LEMMA ConcatFacts ==
    ASSUME NEW s \in Seq(Steps), NEW t \in Seq(Steps)
    PROVE  /\ s \o t \in Seq(Steps)
           /\ Len(s) \in Nat /\ Len(t) \in Nat
           /\ Len(s \o t) = Len(s) + Len(t)
           /\ \A i \in 1 .. Len(s) : (s \o t)[i] = s[i]
           /\ \A i \in 1 .. Len(t) : (s \o t)[Len(s) + i] = t[i]
  OBVIOUS

LEMMA FromReceiptConcat ==
    ASSUME NEW s, NEW t, FromReceipt(s), FromReceipt(t)
    PROVE  FromReceipt(s \o t)
<1> DEFINE u == s \o t
<1>1. s \in Seq(Steps) /\ t \in Seq(Steps)
  BY DEF FromReceipt
<1>2. /\ u \in Seq(Steps) /\ Len(s) \in Nat /\ Len(t) \in Nat
      /\ Len(u) = Len(s) + Len(t)
      /\ \A i \in 1 .. Len(s) : u[i] = s[i]
      /\ \A i \in 1 .. Len(t) : u[Len(s) + i] = t[i]
  BY <1>1, ConcatFacts
<1> HIDE DEF u
<1>3. ASSUME NEW i \in 1 .. Len(u), NEW id \in Direct, u[i] = Step("register", id)
      PROVE  i > 2 /\ u[i - 1] = Wait /\ u[i - 2] = Step("send", id)
  <2>1. CASE i <= Len(s)
    <3>1. i \in 1 .. Len(s) /\ s[i] = Step("register", id)
      BY <1>2, <1>3, <2>1
    <3>2. i > 2 /\ s[i - 1] = Wait /\ s[i - 2] = Step("send", id)
      BY <3>1 DEF FromReceipt
    <3>3. i - 1 \in 1 .. Len(s) /\ i - 2 \in 1 .. Len(s)
      BY <1>2, <3>1, <3>2
    <3> QED BY <1>2, <3>2, <3>3
  <2>2. CASE ~(i <= Len(s))
    <3> DEFINE j == i - Len(s)
    <3>1. j \in 1 .. Len(t) /\ i = Len(s) + j
      BY <1>2, <2>2
    <3>2. t[j] = Step("register", id)
      BY <1>2, <1>3, <3>1
    <3>3. j > 2 /\ t[j - 1] = Wait /\ t[j - 2] = Step("send", id)
      BY <3>1, <3>2 DEF FromReceipt
    <3>4. /\ j - 1 \in 1 .. Len(t) /\ j - 2 \in 1 .. Len(t)
          /\ i - 1 = Len(s) + (j - 1) /\ i - 2 = Len(s) + (j - 2)
      BY <1>2, <3>1, <3>3
    <3>5. u[i - 1] = t[j - 1] /\ u[i - 2] = t[j - 2]
      BY <1>2, <3>4
    <3> QED BY <1>2, <3>1, <3>3, <3>5
  <2> QED BY <2>1, <2>2
<1> QED BY <1>2, <1>3 DEF FromReceipt, u

(* A program that registers none of them is one of these.                    *)
LEMMA RegistersOthers ==
    ASSUME NEW s \in Seq(Steps),
           \A i \in 1 .. Len(s), id \in Direct : s[i] # Step("register", id)
    PROVE  FromReceipt(s)
  BY DEF FromReceipt

LEMMA DeployFromReceipt == \A id \in Direct : FromReceipt(Deploy(id))
<1> SUFFICES ASSUME NEW id \in Direct PROVE FromReceipt(Deploy(id))
  OBVIOUS
<1> DEFINE s == Deploy(id)
<1>1. id \in Names /\ "" \in Names /\ {"send", "wait", "register"} \subseteq Kinds
  BY DEF Direct, Names, Kinds
<1>2. s = <<Step("send", id), Wait, Step("register", id)>>
  BY DEF Deploy
<1>3. Step("send", id) \in Steps /\ Wait \in Steps /\ Step("register", id) \in Steps
  BY <1>1, StepIsStep DEF Wait
<1>4. /\ s \in Seq(Steps) /\ Len(s) = 3
      /\ s[1] = Step("send", id) /\ s[2] = Wait /\ s[3] = Step("register", id)
  BY <1>2, <1>3
<1> HIDE DEF s
<1>5. ASSUME NEW i \in 1 .. Len(s), NEW d \in Direct, s[i] = Step("register", d)
      PROVE  i > 2 /\ s[i - 1] = Wait /\ s[i - 2] = Step("send", d)
  <2>1. i = 1 \/ i = 2 \/ i = 3
    BY <1>4
  <2>2. s[1] # Step("register", d) /\ s[2] # Step("register", d)
    BY <1>4, OtherKind DEF Wait
  <2>3. i = 3
    BY <1>5, <2>1, <2>2
  <2>4. d = id
    BY <1>4, <1>5, <2>3, StepFields
  <2> QED BY <1>4, <2>3, <2>4
<1> QED BY <1>4, <1>5 DEF FromReceipt, s

\* The steps that register none of them.
Harmless == Steps \ {Step("register", id) : id \in Direct}

Revisions == {"StakedTokenV2Rev3", "StakedTokenV2Rev4"}

LEMMA HarmlessProgram == \A s \in Seq(Harmless) : FromReceipt(s)
<1> SUFFICES ASSUME NEW s \in Seq(Harmless) PROVE FromReceipt(s)
  OBVIOUS
<1>1. \A i \in 1 .. Len(s) : s[i] \in Harmless
  OBVIOUS
<1>2. s \in Seq(Steps)
  BY DEF Harmless
<1>3. \A i \in 1 .. Len(s), id \in Direct : s[i] # Step("register", id)
  BY <1>1 DEF Harmless
<1> QED BY <1>2, <1>3, RegistersOthers

LEMMA HarmlessSteps ==
    /\ \A a \in Kinds, b \in Names : a # "register" => Step(a, b) \in Harmless
    /\ \A id \in Revisions : Step("register", id) \in Harmless
<1>1. ASSUME NEW a \in Kinds, NEW b \in Names, a # "register"
      PROVE  Step(a, b) \in Harmless
  BY <1>1, StepIsStep, OtherKind DEF Harmless
<1>2. ASSUME NEW id \in Revisions
      PROVE  Step("register", id) \in Harmless
  <2>1. "register" \in Kinds /\ id \in Names /\ id \notin Direct
    BY DEF Kinds, Names, Revisions, Direct
  <2>2. \A d \in Direct : Step("register", id) # Step("register", d)
    BY <2>1, StepFields
  <2> QED BY <2>1, <2>2, StepIsStep DEF Harmless
<1> QED BY <1>1, <1>2

LEMMA HarmlessKinds ==
    /\ Wait \in Harmless
    /\ \A what \in {"admin", "verification", "chain id", "addresses", "token and vault"} :
          Check(what) \in Harmless
    /\ \A id \in Ids : /\ Step("write", id) \in Harmless
                       /\ Step("predict", id) \in Harmless
                       /\ Step("create", id) \in Harmless
                       /\ Step("call", id) \in Harmless
                       /\ Step("verify", id) \in Harmless
    /\ Step("leave oasys", "") \in Harmless
<1>1. Ids \subseteq Names
  BY DEF Ids, CodeOf, Names
<1>2. /\ {"check", "write", "predict", "leave oasys", "create", "call", "wait", "verify"}
           \subseteq Kinds \ {"register"}
      /\ {"", "admin", "verification", "chain id", "addresses", "token and vault"}
           \subseteq Names
  BY DEF Kinds, Names
<1> QED BY <1>1, <1>2, HarmlessSteps DEF Wait, Check

\* Stated for any set, since SMT cannot read names with a space in them.
LEMMA Tuples ==
    ASSUME NEW S, NEW a \in S, NEW b \in S, NEW c \in S, NEW d \in S
    PROVE  /\ <<>> \in Seq(S) /\ <<a>> \in Seq(S) /\ <<a, b>> \in Seq(S)
           /\ <<a, b, c>> \in Seq(S) /\ <<a, b, c, d>> \in Seq(S)
  OBVIOUS

LEMMA Concatenations ==
    ASSUME NEW S, NEW s \in Seq(S), NEW t \in Seq(S)
    PROVE  s \o t \in Seq(S)
  OBVIOUS

LEMMA ProgramParts ==
    /\ ExportStakedOas \in Seq(Harmless)
    /\ Export("StakedTokenV2Rev4") \in Seq(Harmless)
    /\ <<Check("admin")>> \in Seq(Harmless)
    /\ <<Step("leave oasys", "")>> \in Seq(Harmless)
    /\ \A id \in Revisions, verify \in BOOLEAN : DeployRevision(id, verify) \in Seq(Harmless)
    /\ \A id \in Revisions : Upgrade(id) \in Seq(Harmless)
    /\ InitializeStakedOas \in Seq(Harmless)
    /\ VerificationTask \in Seq(Harmless)
    /\ DeployStakedPlmyRev3 \in Seq(Harmless)
<1>0. /\ "StakedOas" \in Ids /\ "StakedOasImpl" \in Ids
      /\ "StakedTokenV2Rev3" \in Ids /\ "StakedTokenV2Rev4" \in Ids
      /\ \A id \in Revisions : id \in Ids
      /\ "StakedTokenV2Rev3" \in Revisions
  BY DEF Ids, CodeOf, Revisions
<1>1. ASSUME NEW id \in Ids PROVE Export(id) \in Seq(Harmless)
  <2>1. Step("write", id) \in Harmless /\ Step("predict", id) \in Harmless
    BY HarmlessKinds
  <2> QED BY <2>1 DEF Export
<1>2. ExportStakedOas \in Seq(Harmless) /\ Export("StakedTokenV2Rev4") \in Seq(Harmless)
  <2>1. /\ Export("StakedOasImpl") \in Seq(Harmless) /\ Export("StakedOas") \in Seq(Harmless)
        /\ Export("StakedTokenV2Rev4") \in Seq(Harmless)
    BY <1>0, <1>1
  <2> QED BY <2>1 DEF ExportStakedOas
<1>3. /\ Wait \in Harmless /\ Check("admin") \in Harmless /\ Check("verification") \in Harmless
      /\ Check("chain id") \in Harmless /\ Check("addresses") \in Harmless
      /\ Check("token and vault") \in Harmless /\ Step("leave oasys", "") \in Harmless
  BY HarmlessKinds
<1>4. <<Check("admin")>> \in Seq(Harmless) /\ <<Step("leave oasys", "")>> \in Seq(Harmless)
  BY <1>3, Tuples, Zenon
<1>c. ASSUME NEW id \in Revisions, NEW verify \in BOOLEAN
      PROVE  CreateRevision(id, verify) \in Seq(Harmless)
  <2>1. /\ Step("create", id) \in Harmless /\ Step("verify", id) \in Harmless
        /\ Step("register", id) \in Harmless
    BY <1>0, HarmlessKinds, HarmlessSteps
  <2>2. /\ <<Step("create", id), Step("register", id)>> \in Seq(Harmless)
        /\ <<Step("verify", id)>> \in Seq(Harmless) /\ <<>> \in Seq(Harmless)
    BY <2>1, Tuples, Zenon
  <2>3. CASE verify
    BY <2>2, <2>3, Concatenations, Zenon DEF CreateRevision
  <2>4. CASE ~verify
    BY <2>2, <2>4, Concatenations, Zenon DEF CreateRevision
  <2> QED BY <2>3, <2>4
<1>5. ASSUME NEW id \in Revisions, NEW verify \in BOOLEAN
      PROVE  DeployRevision(id, verify) \in Seq(Harmless)
  <2>1. Step("register", id) \in Harmless
    BY <1>0, HarmlessSteps
  <2>2. /\ <<Check("verification")>> \in Seq(Harmless) /\ <<>> \in Seq(Harmless)
        /\ <<Check("chain id"), Check("addresses")>> \in Seq(Harmless)
        /\ <<Wait, Step("register", id)>> \in Seq(Harmless)
        /\ CreateRevision(id, verify) \in Seq(Harmless)
    BY <1>3, <1>c, <2>1, Tuples, Zenon
  <2>3. CASE verify
    BY <2>2, <2>3, Concatenations, Zenon DEF DeployRevision
  <2>4. CASE ~verify
    BY <2>2, <2>4, Concatenations, Zenon DEF DeployRevision
  <2> QED BY <2>3, <2>4
<1>6. ASSUME NEW id \in Revisions PROVE Upgrade(id) \in Seq(Harmless)
  <2>1. Step("call", id) \in Harmless
    BY <1>0, HarmlessKinds
  <2>2. /\ <<Check("chain id")>> \in Seq(Harmless) /\ <<Check("token and vault")>> \in Seq(Harmless)
        /\ <<>> \in Seq(Harmless) /\ <<Step("call", id), Wait>> \in Seq(Harmless)
    BY <1>3, <2>1, Tuples, Zenon
  <2> QED BY <2>2, Concatenations, Zenon DEF Upgrade
<1>7. InitializeStakedOas \in Seq(Harmless)
  <2>1. Step("call", "StakedOas") \in Harmless
    BY <1>0, HarmlessKinds
  <2> QED BY <1>3, <2>1, Tuples, Zenon DEF InitializeStakedOas
<1>8. VerificationTask \in Seq(Harmless)
  <2>1. /\ Step("verify", "StakedOas") \in Harmless /\ Step("verify", "StakedOasImpl") \in Harmless
        /\ Step("verify", "StakedTokenV2Rev4") \in Harmless
    BY <1>0, HarmlessKinds
  <2> QED BY <1>3, <2>1, Tuples, Zenon DEF VerificationTask
<1>9. DeployStakedPlmyRev3 \in Seq(Harmless)
  BY <1>0, <1>c DEF DeployStakedPlmyRev3
<1> QED BY <1>2, <1>4, <1>5, <1>6, <1>7, <1>8, <1>9

LEMMA ProgramFromReceipt == \A t \in TaskNames : FromReceipt(Program(t))
<1>1. FromReceipt(DeployStakedOas)
  BY DeployFromReceipt, FromReceiptConcat DEF DeployStakedOas, Direct
<1>2. /\ {"StakedTokenV2Rev3", "StakedTokenV2Rev4"} \subseteq Revisions
      /\ {TRUE, FALSE} \subseteq BOOLEAN
  BY DEF Revisions
<1>3. FromReceipt(CommonDeployment)
  BY <1>1, <1>2, ProgramParts, HarmlessProgram, FromReceiptConcat DEF CommonDeployment
<1>4. FromReceipt(CommonInitialization)
  BY <1>2, ProgramParts, HarmlessProgram, FromReceiptConcat DEF CommonInitialization
<1>5. FromReceipt(VerificationTask) /\ FromReceipt(DeployStakedPlmyRev3)
      /\ FromReceipt(InitializeStakedOas)
  BY ProgramParts, HarmlessProgram
<1>6. /\ \A id \in Revisions, verify \in BOOLEAN : FromReceipt(DeployRevision(id, verify))
      /\ \A id \in Revisions : FromReceipt(Upgrade(id))
  BY ProgramParts, HarmlessProgram
<1>7. /\ FromReceipt(DeployRevision("StakedTokenV2Rev4", FALSE))
      /\ FromReceipt(DeployRevision("StakedTokenV2Rev4", TRUE))
      /\ FromReceipt(DeployRevision("StakedTokenV2Rev3", FALSE))
      /\ FromReceipt(Upgrade("StakedTokenV2Rev3")) /\ FromReceipt(Upgrade("StakedTokenV2Rev4"))
  BY <1>2, <1>6
<1> QED BY <1>1, <1>3, <1>4, <1>5, <1>7 DEF Program, TaskNames

LEMMA RevisionWritesNothing == WritesNothing(Program("deploy-staked-plmy-rev3"))
<1> DEFINE s == DeployStakedPlmyRev3
<1>1. Program("deploy-staked-plmy-rev3") = s
  BY DEF Program
<1>2. Len(s) = 3 /\ s[1].do = "create" /\ s[2].do = "register" /\ s[3].do = "verify"
  BY DEF DeployStakedPlmyRev3, CreateRevision, Step
<1> QED BY <1>1, <1>2 DEF WritesNothing

-----------------------------------------------------------------------------
(* The entries of the proxy and of the first implementation *)

Sequence(s) == \E S : s \in Seq(S)

\* What the exported calldata of a contract, and then its transaction, are.
Right(id) == [code |-> CodeOf[id], args |-> GetDeployArgs(id)]
Creates(n, id) == sent[n] = [do |-> "create", creation |-> Right(id)]

ChainInv ==
    /\ Sequence(sent)
    /\ mined \in 0 .. Len(sent)
    /\ last \in Nat
    /\ network # "oasys" => factory = {}

FilesInv ==
    /\ calldata = [id \in Ids |-> calldata[id]]
    /\ \A id \in Ids : calldata[id] \in {NoCalldata, Right(id)}
    /\ db = [id \in Ids |-> db[id]]

ProcessInv ==
    /\ Remaining(todo)
    /\ task = "deploy-staked-plmy-rev3" => WritesNothing(todo)
    /\ verifying => Running /\ todo # <<>> /\ Head(todo).do = "verify"

(* A process that waits to register such a contract has sent its creation,   *)
(* and one that is about to register it has seen it mined.                   *)
SentInv ==
    \A id \in Direct :
        Len(todo) >= 2 /\ todo[1] = Wait /\ todo[2] = Step("register", id) =>
            last # 0 /\ (last <= Len(sent) => Creates(last, id))

MinedInv ==
    \A id \in Direct :
        todo # <<>> /\ todo[1] = Step("register", id) =>
            last \in 1 .. mined /\ Creates(last, id)

EntryInv ==
    network # "oasys" =>
       \A id \in Direct :
          \/ db[id] = Unregistered
          \/ \E n \in 1 .. mined : db[id] = AddressOf(n) /\ Creates(n, id)

EntriesInv ==
    ChainInv /\ FilesInv /\ ProcessInv /\ SentInv /\ MinedInv /\ EntryInv

LEMMA DirectIds == Direct \subseteq Ids
  BY DEF Direct, Ids, CodeOf

LEMMA EntriesInit == Init => EntriesInv
<1> SUFFICES ASSUME Init PROVE EntriesInv
  OBVIOUS
<1>1. /\ calldata = [id \in Ids |-> NoCalldata] /\ db = [id \in Ids |-> Unregistered]
      /\ sent = <<>> /\ mined = 0 /\ factory = {} /\ todo = <<>> /\ last = 0
  BY DEF Init
<1>2. ChainInv
  <2>1. <<>> \in Seq({})
    OBVIOUS
  <2>2. Sequence(sent)
    BY <1>1, <2>1 DEF Sequence
  <2> QED BY <1>1, <2>2 DEF ChainInv
<1>3. FilesInv
  <2>1. \A id \in Ids : calldata[id] = NoCalldata /\ db[id] = Unregistered
    BY <1>1
  <2>2. /\ calldata = [id \in Ids |-> calldata[id]] /\ db = [id \in Ids |-> db[id]]
    BY <1>1, <2>1
  <2> QED BY <2>1, <2>2 DEF FilesInv
<1>4. ProcessInv
  <2>1. ~verifying
    BY DEF Init, VerificationInit
  <2>2. Remaining(<<>>) /\ WritesNothing(<<>>)
    BY DEF Remaining, WritesNothing
  <2> QED BY <1>1, <2>1, <2>2, Zenon DEF ProcessInv
<1>5. SentInv /\ MinedInv /\ EntryInv
  BY <1>1, DirectIds DEF SentInv, MinedInv, EntryInv
<1> QED BY <1>2, <1>3, <1>4, <1>5 DEF EntriesInv

-----------------------------------------------------------------------------
(* What is left of a program *)

LEMMA TailFacts ==
    ASSUME NEW s, Remaining(s), s # <<>>
    PROVE  /\ Remaining(Tail(s))
           /\ Len(s) \in Nat \ {0}
           /\ Len(Tail(s)) = Len(s) - 1
           /\ \A i \in 1 .. Len(s) - 1 : Tail(s)[i] = s[i + 1]
           /\ Head(s) = s[1]
<1>1. s \in Seq(Steps)
  BY DEF Remaining
<1>2. /\ Tail(s) \in Seq(Steps) /\ Len(s) \in Nat \ {0} /\ Len(Tail(s)) = Len(s) - 1
      /\ \A i \in 1 .. Len(s) - 1 : Tail(s)[i] = s[i + 1]
      /\ Head(s) = s[1]
  BY <1>1
<1> DEFINE t == Tail(s)
<1> HIDE DEF t
<1>3. ASSUME NEW i \in 1 .. Len(t), NEW id \in Direct, t[i] = Step("register", id)
      PROVE  /\ i > 1 => t[i - 1] = Wait
             /\ i > 2 => t[i - 2] = Step("send", id)
  <2>1. i + 1 \in 1 .. Len(s) /\ s[i + 1] = Step("register", id)
    BY <1>2, <1>3 DEF t
  <2>2. s[i] = Wait
    BY <2>1 DEF Remaining
  <2>3. i > 1 => s[i - 1] = Step("send", id)
    BY <2>1 DEF Remaining
  <2>4. i > 1 => i - 1 \in 1 .. Len(s) - 1 /\ t[i - 1] = s[i]
    BY <1>2, <1>3 DEF t
  <2>5. i > 2 => i - 2 \in 1 .. Len(s) - 1 /\ t[i - 2] = s[i - 1]
    BY <1>2, <1>3 DEF t
  <2> QED BY <2>2, <2>3, <2>4, <2>5
<1>4. Remaining(t)
  BY <1>2, <1>3 DEF Remaining, t
<1> QED BY <1>2, <1>4 DEF t

(* After another step than a send or a wait comes neither the wait for such  *)
(* a contract nor its registration.                                          *)
LEMMA NotNext ==
    ASSUME NEW s, Remaining(s), s # <<>>, NEW do, NEW x, Head(s) = Step(do, x),
           do # "send", do # "wait", NEW id \in Direct
    PROVE  /\ ~(/\ Len(Tail(s)) >= 2 /\ Tail(s)[1] = Wait
                /\ Tail(s)[2] = Step("register", id))
           /\ ~(Tail(s) # <<>> /\ Tail(s)[1] = Step("register", id))
<1>1. /\ Len(s) \in Nat \ {0} /\ Len(Tail(s)) = Len(s) - 1
      /\ \A i \in 1 .. Len(s) - 1 : Tail(s)[i] = s[i + 1]
      /\ s[1] = Step(do, x)
  BY TailFacts
<1>2. s[1] # Wait /\ \A y : s[1] # Step("send", y)
  <2>1. s[1] # Wait
    BY <1>1, OtherStep, Zenon DEF Wait
  <2>2. \A y : s[1] # Step("send", y)
    BY <1>1, OtherStep
  <2> QED BY <2>1, <2>2
<1>3. ASSUME Len(Tail(s)) >= 2, Tail(s)[2] = Step("register", id)
      PROVE  FALSE
  <2>1. 3 \in 1 .. Len(s) /\ s[3] = Step("register", id)
    BY <1>1, <1>3
  <2>2. s[3 - 2] = Step("send", id)
    BY <2>1 DEF Remaining
  <2> QED BY <1>2, <2>2
<1>4. ASSUME Tail(s) # <<>>, Tail(s)[1] = Step("register", id)
      PROVE  FALSE
  <2>1. Tail(s) \in Seq(Steps)
    BY TailFacts DEF Remaining
  <2>2. 2 \in 1 .. Len(s) /\ s[2] = Step("register", id)
    BY <1>1, <1>4, <2>1
  <2>3. s[2 - 1] = Wait
    BY <2>2 DEF Remaining
  <2> QED BY <1>2, <2>3
<1> QED BY <1>3, <1>4

-----------------------------------------------------------------------------
(* The steps *)

(* The network never changes, nor what is right on it.                       *)
LEMMA RightFixed ==
    [Next]_vars => network' = network /\ \A id : Right(id)' = Right(id)
<1> SUFFICES ASSUME [Next]_vars
             PROVE  network' = network /\ \A id : Right(id)' = Right(id)
  OBVIOUS
<1>1. ASSUME UNCHANGED vars PROVE network' = network
  BY <1>1 DEF vars
<1>2. ASSUME NEW t \in Tasks, Start(t) PROVE network' = network
  BY <1>2 DEF Start, Environment
<1>3. ASSUME ProcessStep PROVE network' = network
  BY <1>3 DEF ProcessStep, PassCheck, LeaveOasys, WaitForReceipt, VerificationRound, Finish,
       Fail, EndsAs, WriteCalldata, RegisterPredicted, SendCalldata, CreateContract, CallProxy,
       SendTransaction, RegisterContract, Verify, Environment
<1>4. ASSUME Kill \/ Mine \/ LoseMempool PROVE network' = network
  BY <1>4 DEF Kill, EndsAs, Mine, LoseMempool
<1>5. ASSUME NEW id \in Ids, FactoryDeploys(id) PROVE network' = network
  BY <1>5 DEF FactoryDeploys
<1>6. ASSUME NEW a \in DOMAIN proxies, Use(a) PROVE network' = network
  BY <1>6 DEF Use
<1>7. network' = network
  BY <1>1, <1>2, <1>3, <1>4, <1>5, <1>6 DEF Next, vars
<1>8. \A id : Right(id)' = Right(id)
  BY <1>7 DEF Right, GetDeployArgs, StakingArgs, TokenArgs, Admin
<1> QED BY <1>7, <1>8

\* What the chain's steps keep: what is mined stays, and no nonce is reused
\* unless its transaction was lost.
Grows ==
    /\ ChainInv'
    /\ mined \in Nat /\ mined' \in Nat /\ mined <= mined'
    /\ \A n \in 1 .. mined : sent'[n] = sent[n]

LEMMA EntryGrows ==
    ASSUME EntryInv, Grows, UNCHANGED <<network, db>>, \A id : Right(id)' = Right(id)
    PROVE  EntryInv'
<1> SUFFICES ASSUME network # "oasys", NEW id \in Direct, db[id] # Unregistered
             PROVE  \E n \in 1 .. mined' : db[id] = AddressOf(n) /\ Creates(n, id)'
  BY DEF EntryInv, AddressOf, Unregistered, NoContract
<1>1. PICK n \in 1 .. mined : db[id] = AddressOf(n) /\ Creates(n, id)
  BY DEF EntryInv
<1>2. n \in 1 .. mined' /\ sent'[n] = sent[n]
  BY <1>1 DEF Grows
<1>3. Creates(n, id)'
  BY <1>1, <1>2 DEF Creates
<1> QED BY <1>1, <1>2, <1>3

(* A step of the chain or of its users, with the process where it is.        *)
LEMMA ChainKeeps ==
    ASSUME EntriesInv, Grows, UNCHANGED <<network, fileVars, processVars, verifying>>,
           \A id : Right(id)' = Right(id),
           \A n \in Nat \ {0} : n <= Len(sent') => n <= Len(sent) /\ sent'[n] = sent[n]
    PROVE  EntriesInv'
<1> USE DEF EntriesInv
<1>1. /\ network' = network /\ calldata' = calldata /\ db' = db /\ task' = task
      /\ todo' = todo /\ last' = last /\ outcome' = outcome /\ verifying' = verifying
  BY DEF fileVars, processVars
<1>2. FilesInv'
  BY <1>1 DEF FilesInv
<1>3. ProcessInv'
  <2>1. Remaining(todo') /\ (task' = "deploy-staked-plmy-rev3" => WritesNothing(todo'))
    BY <1>1 DEF ProcessInv
  <2>2. verifying' => Running' /\ todo' # <<>> /\ Head(todo').do = "verify"
    BY <1>1 DEF ProcessInv, Running
  <2> QED BY <2>1, <2>2 DEF ProcessInv
<1>4. SentInv'
  <2> SUFFICES ASSUME NEW id \in Direct, Len(todo) >= 2, todo[1] = Wait,
                      todo[2] = Step("register", id), last <= Len(sent')
               PROVE  last # 0 /\ Creates(last, id)'
    BY <1>1 DEF SentInv
  <2>1. last # 0 /\ (last <= Len(sent) => Creates(last, id))
    BY DEF SentInv
  <2>2. last \in Nat \ {0}
    BY <2>1 DEF ChainInv
  <2>3. last <= Len(sent) /\ sent'[last] = sent[last]
    BY <2>2
  <2> QED BY <1>1, <2>1, <2>3 DEF Creates
<1>5. MinedInv'
  <2> SUFFICES ASSUME NEW id \in Direct, todo # <<>>, todo[1] = Step("register", id)
               PROVE  last \in 1 .. mined' /\ Creates(last, id)'
    BY <1>1 DEF MinedInv
  <2>1. last \in 1 .. mined /\ Creates(last, id)
    BY DEF MinedInv
  <2>2. last \in 1 .. mined' /\ sent'[last] = sent[last]
    BY <2>1 DEF Grows
  <2> QED BY <1>1, <2>1, <2>2 DEF Creates
<1>6. EntryInv'
  BY <1>1, EntryGrows
<1> QED BY <1>2, <1>3, <1>4, <1>5, <1>6 DEF Grows

(* A step of the process that leaves the chain alone leaves it in order.     *)
LEMMA ChainUnchanged ==
    ASSUME ChainInv, UNCHANGED <<network, sent, mined, factory>>, last' \in Nat
    PROVE  Grows
<1>1. ChainInv'
  BY DEF ChainInv
<1>2. Sequence(sent) /\ mined \in Nat
  <2>1. PICK S : sent \in Seq(S)
    BY DEF ChainInv, Sequence
  <2>2. Len(sent) \in Nat
    BY <2>1
  <2> QED BY <2>2 DEF ChainInv
<1> QED BY <1>1, <1>2 DEF Grows

(* The process leaves a step that is neither a send nor a wait behind.       *)
LEMMA AdvanceKeeps ==
    ASSUME ProcessInv, todo # <<>>, NEW do, NEW x, Head(todo) = Step(do, x),
           do # "send", do # "wait", todo' = Tail(todo), task' = task, ~verifying'
    PROVE  ProcessInv' /\ SentInv' /\ MinedInv'
<1>1. Remaining(todo)
  BY DEF ProcessInv
<1>2. /\ Remaining(todo') /\ Len(todo) \in Nat \ {0} /\ Len(todo') = Len(todo) - 1
      /\ \A i \in 1 .. Len(todo) - 1 : todo'[i] = todo[i + 1]
  BY <1>1, TailFacts
<1>3. task = "deploy-staked-plmy-rev3" => WritesNothing(todo')
  <2> SUFFICES ASSUME task = "deploy-staked-plmy-rev3", NEW i \in 1 .. Len(todo')
               PROVE  todo'[i].do # "write"
    BY DEF WritesNothing
  <2>1. i + 1 \in 1 .. Len(todo) /\ todo'[i] = todo[i + 1]
    BY <1>2
  <2> QED BY <2>1 DEF ProcessInv, WritesNothing
<1>4. ProcessInv'
  BY <1>2, <1>3, Zenon DEF ProcessInv
<1>5. SentInv' /\ MinedInv'
  BY <1>1, NotNext DEF SentInv, MinedInv
<1> QED BY <1>4, <1>5

(* The process has ended, or starts a program.                               *)
LEMMA EndKeepsEntries ==
    ASSUME EntriesInv, EndsAs("finished") \/ EndsAs("failed") \/ EndsAs("killed"),
           \A id : Right(id)' = Right(id)
    PROVE  EntriesInv'
<1> USE DEF EntriesInv
<1>1. /\ network' = network /\ calldata' = calldata /\ db' = db /\ sent' = sent
      /\ mined' = mined /\ factory' = factory /\ todo' = <<>> /\ last' = 0
  BY DEF EndsAs, chainVars, fileVars
<1>2. ~verifying'
  BY DEF EndsAs, EndVerification
<1>3. Grows
  BY <1>1, ChainUnchanged
<1>4. FilesInv'
  BY <1>1 DEF FilesInv
<1>5. Remaining(<<>>) /\ WritesNothing(<<>>)
  BY DEF Remaining, WritesNothing
<1>6. ProcessInv'
  BY <1>1, <1>2, <1>5, Zenon DEF ProcessInv
<1>7. SentInv' /\ MinedInv'
  BY <1>1 DEF SentInv, MinedInv
<1> QED BY <1>1, <1>3, <1>4, <1>6, <1>7, EntryGrows DEF Grows

LEMMA StepFacts ==
    ASSUME EntriesInv, NEW do, NEW x, Takes(do, x)
    PROVE  /\ todo # <<>> /\ Head(todo) = Step(do, x) /\ ~verifying
           /\ ~Throws(Step(do, x))
           /\ todo' = Tail(todo) /\ task' = task
  BY DEF Takes, At, Continue

(* A step that is neither a send nor a wait, and leaves the files alone.     *)
LEMMA QuietKeeps ==
    ASSUME EntriesInv, \A id : Right(id)' = Right(id), todo # <<>>,
           NEW do, NEW x, Head(todo) = Step(do, x), do # "send", do # "wait",
           todo' = Tail(todo), task' = task, ~verifying',
           UNCHANGED <<network, chainVars, last, fileVars>>
    PROVE  EntriesInv'
<1> USE DEF EntriesInv
<1>1. /\ network' = network /\ calldata' = calldata /\ db' = db /\ sent' = sent
      /\ mined' = mined /\ factory' = factory /\ last' = last
  BY DEF chainVars, fileVars
<1>2. Grows
  BY <1>1, ChainUnchanged DEF ChainInv
<1>3. ProcessInv' /\ SentInv' /\ MinedInv'
  BY AdvanceKeeps
<1>4. FilesInv'
  BY <1>1 DEF FilesInv
<1> QED BY <1>1, <1>2, <1>3, <1>4, EntryGrows DEF Grows

LEMMA CheckKeeps ==
    ASSUME EntriesInv, \A id : Right(id)' = Right(id), PassCheck
    PROVE  EntriesInv'
<1>1. PICK what : Takes("check", what)
  BY Zenon DEF PassCheck
<1>2. UNCHANGED <<network, chainVars, last, fileVars>> /\ verifying' = verifying
  BY DEF PassCheck, Environment, verificationVars
<1> QED BY <1>1, <1>2, StepFacts, QuietKeeps

LEMMA LeaveKeeps ==
    ASSUME EntriesInv, \A id : Right(id)' = Right(id), LeaveOasys
    PROVE  EntriesInv'
<1>1. /\ network' = network /\ calldata' = calldata /\ db' = db /\ sent' = sent
      /\ mined' = mined /\ factory' = factory /\ last' = last /\ task' = task
      /\ verifying' = verifying /\ UNCHANGED <<network, chainVars, last, fileVars>>
  BY DEF LeaveOasys, Environment, chainVars, fileVars, verificationVars
<1>2. todo # <<>> /\ ~verifying /\ \E x : Head(todo) = Step("leave oasys", x)
  BY Zenon DEF LeaveOasys, At
<1>3. CASE todo' = Tail(todo)
  <2> DEFINE do == "leave oasys"
  <2>1. do # "send" /\ do # "wait" /\ \E x : Head(todo) = Step(do, x)
    BY <1>2, Zenon
  <2> HIDE DEF do
  <2> QED BY <1>1, <1>2, <1>3, <2>1, QuietKeeps
<1>4. CASE todo' = <<>>
  <2> USE DEF EntriesInv
  <2>1. Grows
    BY <1>1, ChainUnchanged DEF ChainInv
  <2>2. FilesInv'
    BY <1>1 DEF FilesInv
  <2>3. Remaining(<<>>) /\ WritesNothing(<<>>)
    BY DEF Remaining, WritesNothing
  <2>4. ProcessInv'
    BY <1>1, <1>2, <1>4, <2>3, Zenon DEF ProcessInv
  <2>5. SentInv' /\ MinedInv'
    BY <1>4 DEF SentInv, MinedInv
  <2> QED BY <1>1, <2>1, <2>2, <2>4, <2>5, EntryGrows DEF Grows
<1>5. todo' = Tail(todo) \/ todo' = <<>>
  BY Zenon DEF LeaveOasys
<1> QED BY <1>3, <1>4, <1>5

(* The receipt is there: what was sent is mined.                             *)
LEMMA WaitKeeps ==
    ASSUME EntriesInv, \A id : Right(id)' = Right(id), WaitForReceipt
    PROVE  EntriesInv'
<1> USE DEF EntriesInv
<1>1. /\ network' = network /\ calldata' = calldata /\ db' = db /\ sent' = sent
      /\ mined' = mined /\ factory' = factory /\ last' = last /\ verifying' = verifying
  BY DEF WaitForReceipt, Environment, chainVars, fileVars, verificationVars
<1>2. last \in 1 .. mined
  BY DEF WaitForReceipt, Receipt
<1>3. /\ todo # <<>> /\ Head(todo) = Wait /\ ~verifying
      /\ todo' = Tail(todo) /\ task' = task
  BY StepFacts, Zenon DEF WaitForReceipt, Wait
<1>4. Remaining(todo)
  BY DEF ProcessInv
<1>5. /\ Remaining(todo') /\ Len(todo) \in Nat \ {0} /\ Len(todo') = Len(todo) - 1
      /\ todo' \in Seq(Steps)
      /\ \A i \in 1 .. Len(todo) - 1 : todo'[i] = todo[i + 1]
      /\ todo[1] = Wait
  BY <1>3, <1>4, TailFacts DEF Remaining
<1>6. task = "deploy-staked-plmy-rev3" => WritesNothing(todo')
  <2> SUFFICES ASSUME task = "deploy-staked-plmy-rev3", NEW i \in 1 .. Len(todo')
               PROVE  todo'[i].do # "write"
    BY DEF WritesNothing
  <2>1. i + 1 \in 1 .. Len(todo) /\ todo'[i] = todo[i + 1]
    BY <1>5
  <2> QED BY <2>1 DEF ProcessInv, WritesNothing
<1>7. ProcessInv'
  BY <1>1, <1>3, <1>5, <1>6, Zenon DEF ProcessInv
<1>8. SentInv'
  <2> SUFFICES ASSUME NEW id \in Direct, Len(todo') >= 2, todo'[1] = Wait,
                      todo'[2] = Step("register", id)
               PROVE  FALSE
    BY DEF SentInv
  <2>1. 3 \in 1 .. Len(todo) /\ todo[3] = Step("register", id)
    BY <1>5
  <2>2. todo[3 - 2] = Step("send", id)
    BY <1>4, <2>1 DEF Remaining
  <2> QED BY <1>5, <2>2, WaitIsNoSend
<1>9. MinedInv'
  <2> SUFFICES ASSUME NEW id \in Direct, todo' # <<>>, todo'[1] = Step("register", id)
               PROVE  last \in 1 .. mined /\ Creates(last, id)
    BY <1>1 DEF MinedInv, Creates
  <2>1. Len(todo) >= 2 /\ todo[2] = Step("register", id)
    BY <1>5
  <2>2. last <= Len(sent) => Creates(last, id)
    BY <1>5, <2>1 DEF SentInv
  <2>3. last <= Len(sent)
    <3>1. PICK S : sent \in Seq(S)
      BY DEF ChainInv, Sequence
    <3>2. Len(sent) \in Nat
      BY <3>1
    <3> QED BY <1>2, <3>2 DEF ChainInv
  <2> QED BY <1>2, <2>2, <2>3
<1>10. Grows
  BY <1>1, ChainUnchanged DEF ChainInv
<1>11. FilesInv'
  BY <1>1 DEF FilesInv
<1> QED BY <1>1, <1>7, <1>8, <1>9, <1>10, <1>11, EntryGrows DEF Grows

(* Exports, whose calldata is right, and the predicted entries of oasys.     *)
LEMMA WriteKeeps ==
    ASSUME EntriesInv, \A id : Right(id)' = Right(id), NEW w \in Ids,
           WriteCalldata(w) \/ RegisterPredicted(w)
    PROVE  EntriesInv'
<1> USE DEF EntriesInv
<1>1. /\ network' = network /\ sent' = sent /\ mined' = mined /\ factory' = factory
      /\ last' = last /\ verifying' = verifying
  BY DEF WriteCalldata, RegisterPredicted, Environment, chainVars, verificationVars
<1>2. PICK do \in {"write", "predict"} : Takes(do, w)
  BY DEF WriteCalldata, RegisterPredicted
<1>3. /\ todo # <<>> /\ Head(todo) = Step(do, w) /\ ~verifying
      /\ todo' = Tail(todo) /\ task' = task
  BY <1>2, StepFacts
<1>4. ProcessInv' /\ SentInv' /\ MinedInv'
  BY <1>1, <1>2, <1>3, AdvanceKeeps
<1>5. Grows
  BY <1>1, ChainUnchanged DEF ChainInv
<1>6. CASE WriteCalldata(w)
  <2>1. todo # <<>> /\ Head(todo) = Step("write", w) /\ db' = db
        /\ calldata' = [calldata EXCEPT ![w] = CreationOf(w)]
    BY <1>6, StepFacts DEF WriteCalldata
  <2>2. task # "deploy-staked-plmy-rev3"
    <3>1. Len(todo) \in Nat \ {0} /\ todo[1] = Step("write", w)
      BY <2>1, TailFacts DEF ProcessInv
    <3>2. todo[1].do = "write" /\ 1 \in 1 .. Len(todo)
      BY <3>1 DEF Step
    <3> QED BY <3>2 DEF ProcessInv, WritesNothing
  <2>3. CreationOf(w) = Right(w)
    BY <2>2 DEF CreationOf, Right
  <2>4. FilesInv'
    <3>1. /\ calldata'[w] = Right(w)
          /\ \A id \in Ids : id # w => calldata'[id] = calldata[id]
          /\ calldata' = [id \in Ids |-> calldata'[id]]
      BY <2>1, <2>3 DEF FilesInv
    <3> QED BY <2>1, <3>1 DEF FilesInv
  <2> QED BY <1>1, <1>4, <1>5, <2>1, <2>4, EntryGrows DEF Grows
<1>7. CASE RegisterPredicted(w)
  <2>1. /\ calldata' = calldata
        /\ db' = IF network = "oasys" THEN [db EXCEPT ![w] = PredictedAddress(w)] ELSE db
    BY <1>7 DEF RegisterPredicted
  <2>2. FilesInv'
    BY <2>1 DEF FilesInv
  <2>3. CASE network = "oasys"
    BY <1>1, <1>4, <1>5, <2>2, <2>3 DEF EntryInv, Grows
  <2>4. CASE network # "oasys"
    BY <1>1, <1>4, <1>5, <2>1, <2>2, <2>4, EntryGrows DEF Grows
  <2> QED BY <2>3, <2>4
<1> QED BY <1>6, <1>7

LEMMA ThrowsFacts ==
    \A x : ~Throws(Step("send", x)) => calldata[x] # NoCalldata
<1> SUFFICES ASSUME NEW x, ~Throws(Step("send", x)) PROVE calldata[x] # NoCalldata
  OBVIOUS
<1>1. Step("send", x).do = "send" /\ Step("send", x).id = x
  BY DEF Step
<1> QED BY <1>1, Zenon DEF Throws

(* A transaction is sent: only a send of the task's calldata can be waited   *)
(* for by a step that registers one of the contracts.                        *)
LEMMA SendKeeps ==
    ASSUME EntriesInv, \A id : Right(id)' = Right(id), NEW w \in Ids,
           SendCalldata(w) \/ CreateContract(w) \/ CallProxy(w)
    PROVE  EntriesInv'
<1> USE DEF EntriesInv
<1> DEFINE Sent(tx, do) == /\ Takes(do, w) /\ SendTransaction(tx)
                           /\ do = "send" => tx = [do |-> "create", creation |-> calldata[w]]
<1>0. \E do \in {"send", "create", "call"} : \E tx : Sent(tx, do)
  <2>1. CASE SendCalldata(w)
    <3>1. Sent([do |-> "create", creation |-> calldata[w]], "send")
      BY <2>1 DEF SendCalldata
    <3> QED BY <3>1
  <2>2. CASE CreateContract(w)
    <3>1. Sent([do |-> "create", creation |-> CreationOf(w)], "create")
      BY <2>2 DEF CreateContract
    <3> QED BY <3>1
  <2>3. CASE CallProxy(w)
    <3>1. Sent(CallOf(w), "call")
      BY <2>3 DEF CallProxy
    <3> QED BY <3>1
  <2> QED BY <2>1, <2>2, <2>3
<1>1. PICK do \in {"send", "create", "call"} : \E tx : Sent(tx, do)
  BY <1>0
<1>2. PICK tx : Sent(tx, do)
  BY <1>1
<1>3. /\ network' = network /\ calldata' = calldata /\ db' = db /\ mined' = mined
      /\ factory' = factory /\ verifying' = verifying
      /\ sent' = Append(sent, tx) /\ last' = Len(sent) + 1
  BY <1>2 DEF SendTransaction, Environment, fileVars, verificationVars
<1>4. /\ todo # <<>> /\ Head(todo) = Step(do, w) /\ ~verifying
      /\ ~Throws(Step(do, w)) /\ todo' = Tail(todo) /\ task' = task
  BY <1>2, StepFacts
<1>5. PICK S : sent \in Seq(S)
  BY DEF ChainInv, Sequence
<1>6. /\ sent' \in Seq(S \cup {tx}) /\ Len(sent) \in Nat /\ Len(sent') = Len(sent) + 1
      /\ sent'[Len(sent) + 1] = tx
      /\ \A n \in 1 .. Len(sent) : sent'[n] = sent[n]
  BY <1>3, <1>5
<1>7. ChainInv' /\ Grows
  <2>1. Sequence(sent)'
    BY <1>6 DEF Sequence
  <2>2. mined' \in 0 .. Len(sent') /\ last' \in Nat
    BY <1>3, <1>6 DEF ChainInv
  <2> QED BY <1>3, <1>6, <2>1, <2>2 DEF ChainInv, Grows
<1>8. FilesInv'
  BY <1>3 DEF FilesInv
<1>9. Remaining(todo)
  BY DEF ProcessInv
<1>10. /\ Remaining(todo') /\ Len(todo) \in Nat \ {0} /\ Len(todo') = Len(todo) - 1
      /\ todo' \in Seq(Steps)
      /\ \A i \in 1 .. Len(todo) - 1 : todo'[i] = todo[i + 1]
      /\ todo[1] = Step(do, w)
  BY <1>4, <1>9, TailFacts DEF Remaining
<1>11. ProcessInv'
  <2>1. task = "deploy-staked-plmy-rev3" => WritesNothing(todo')
    <3> SUFFICES ASSUME task = "deploy-staked-plmy-rev3", NEW i \in 1 .. Len(todo')
                 PROVE  todo'[i].do # "write"
      BY DEF WritesNothing
    <3>1. i + 1 \in 1 .. Len(todo) /\ todo'[i] = todo[i + 1]
      BY <1>10
    <3> QED BY <3>1 DEF ProcessInv, WritesNothing
  <2> QED BY <1>3, <1>4, <1>10, <2>1, Zenon DEF ProcessInv
<1>12. SentInv'
  <2> SUFFICES ASSUME NEW id \in Direct, Len(todo') >= 2, todo'[1] = Wait,
                      todo'[2] = Step("register", id)
               PROVE  last' # 0 /\ Creates(last, id)'
    BY DEF SentInv
  <2>1. 3 \in 1 .. Len(todo) /\ todo[3] = Step("register", id)
    BY <1>10
  <2>2. Step(do, w) = Step("send", id)
    BY <1>9, <1>10, <2>1 DEF Remaining
  <2>3. do = "send" /\ w = id
    BY <2>2, StepFields
  <2>4. calldata[w] = Right(id)
    BY <1>4, <2>3, ThrowsFacts DEF FilesInv
  <2>5. sent'[last'] = [do |-> "create", creation |-> Right(id)]
    BY <1>2, <1>3, <1>6, <2>3, <2>4
  <2> QED BY <1>3, <1>6, <2>5 DEF Creates
<1>13. MinedInv'
  <2> SUFFICES ASSUME NEW id \in Direct, todo' # <<>>, todo'[1] = Step("register", id)
               PROVE  FALSE
    BY DEF MinedInv
  <2>1. 2 \in 1 .. Len(todo) /\ todo[2] = Step("register", id)
    BY <1>10
  <2>2. todo[2 - 1] = Wait
    BY <1>9, <2>1 DEF Remaining
  <2>3. \A x : Step("create", x) # Wait /\ Step("call", x) # Wait /\ Step("send", x) # Wait
    BY OtherStep, Zenon DEF Wait
  <2> QED BY <1>2, <1>10, <2>2, <2>3
<1> QED BY <1>3, <1>7, <1>8, <1>11, <1>12, <1>13, EntryGrows

(* An entry is written, of one of the contracts only from its receipt.       *)
LEMMA RegisterKeeps ==
    ASSUME EntriesInv, \A id : Right(id)' = Right(id), NEW w \in Ids, RegisterContract(w)
    PROVE  EntriesInv'
<1> USE DEF EntriesInv
<1>1. /\ network' = network /\ calldata' = calldata /\ sent' = sent /\ mined' = mined
      /\ factory' = factory /\ last' = last /\ verifying' = verifying
      /\ db' = [db EXCEPT ![w] = AddressOf(last)]
  BY DEF RegisterContract, Environment, chainVars, verificationVars
<1>2. /\ todo # <<>> /\ Head(todo) = Step("register", w) /\ ~verifying
      /\ todo' = Tail(todo) /\ task' = task
  BY StepFacts DEF RegisterContract
<1>3. ProcessInv' /\ SentInv' /\ MinedInv'
  BY <1>1, <1>2, AdvanceKeeps
<1>4. Grows
  BY <1>1, ChainUnchanged DEF ChainInv
<1>5. /\ db'[w] = AddressOf(last)
      /\ \A id \in Ids : id # w => db'[id] = db[id]
      /\ db' = [id \in Ids |-> db'[id]]
  BY <1>1 DEF FilesInv
<1>6. FilesInv'
  BY <1>1, <1>5 DEF FilesInv
<1>7. EntryInv'
  <2> SUFFICES ASSUME network # "oasys", NEW id \in Direct, db'[id] # Unregistered
               PROVE  \E n \in 1 .. mined : db'[id] = AddressOf(n) /\ Creates(n, id)
    BY <1>1 DEF EntryInv, Creates, AddressOf, Unregistered, NoContract
  <2>1. CASE id = w
    <3>1. todo # <<>> /\ todo[1] = Step("register", id)
      BY <1>2, <2>1, TailFacts DEF ProcessInv
    <3>2. last \in 1 .. mined /\ Creates(last, id)
      BY <3>1 DEF MinedInv
    <3> QED BY <1>5, <2>1, <3>2
  <2>2. CASE id # w
    BY <1>5, <2>2, DirectIds DEF EntryInv
  <2> QED BY <2>1, <2>2
<1> QED BY <1>3, <1>4, <1>6, <1>7 DEF Grows

(* The process stays where it is, or its verification moves it on.           *)
LEMMA StayKeeps ==
    ASSUME EntriesInv, \A id : Right(id)' = Right(id),
           UNCHANGED <<network, chainVars, last, fileVars, task, todo>>,
           verifying' => Running' /\ todo # <<>> /\ Head(todo).do = "verify"
    PROVE  EntriesInv'
<1> USE DEF EntriesInv
<1>1. /\ network' = network /\ calldata' = calldata /\ db' = db /\ sent' = sent
      /\ mined' = mined /\ factory' = factory /\ last' = last /\ task' = task /\ todo' = todo
  BY DEF chainVars, fileVars
<1>2. Grows
  BY <1>1, ChainUnchanged DEF ChainInv
<1>3. FilesInv' /\ SentInv' /\ MinedInv'
  BY <1>1 DEF FilesInv, SentInv, MinedInv, Creates
<1>4. ProcessInv'
  <2>1. Remaining(todo') /\ (task' = "deploy-staked-plmy-rev3" => WritesNothing(todo'))
    BY <1>1 DEF ProcessInv
  <2>2. verifying' => Running' /\ todo' # <<>> /\ Head(todo').do = "verify"
    BY <1>1
  <2> QED BY <2>1, <2>2 DEF ProcessInv
<1> QED BY <1>1, <1>2, <1>3, <1>4, EntryGrows DEF Grows

LEMMA VerifyKeeps ==
    ASSUME EntriesInv, \A id : Right(id)' = Right(id), NEW w \in Ids, Verify(w)
    PROVE  EntriesInv'
<1>1. UNCHANGED <<network, chainVars, last, fileVars>>
  BY DEF Verify, Environment
<1>2. Running /\ todo # <<>> /\ Head(todo) = Step("verify", w) /\ ~verifying
  BY DEF Verify, At
<1>3. CASE network \in SUPPORTED_ETHERSCAN_NETWORKS
  <2>1. task' = task /\ todo' = todo /\ Running'
    BY <1>2, <1>3 DEF Verify, Running
  <2>2. Head(todo).do = "verify"
    BY <1>2 DEF Step
  <2> QED BY <1>1, <1>2, <2>1, <2>2, StayKeeps
<1>4. CASE network \notin SUPPORTED_ETHERSCAN_NETWORKS
  <2>1. task' = task /\ todo' = Tail(todo) /\ verifying' = verifying
    BY <1>4 DEF Verify, Continue, verificationVars
  <2> QED BY <1>1, <1>2, <2>1, QuietKeeps
<1> QED BY <1>3, <1>4

LEMMA RoundKeeps ==
    ASSUME EntriesInv, \A id : Right(id)' = Right(id), VerificationRound
    PROVE  EntriesInv'
<1>1. UNCHANGED <<network, chainVars, last, fileVars>> /\ task' = task /\ verifying
  BY DEF VerificationRound, Environment
<1>2. Running /\ Running' /\ todo # <<>> /\ Head(todo).do = "verify"
  BY <1>1 DEF EntriesInv, ProcessInv, VerificationRound, Running
<1>3. CASE verifying'
  <2>1. todo' = todo
    BY <1>3 DEF VerificationRound
  <2> QED BY <1>1, <1>2, <2>1, StayKeeps
<1>4. CASE ~verifying'
  <2>1. todo' = Tail(todo)
    BY <1>4 DEF VerificationRound
  <2>2. Head(todo) \in Steps
    <3>1. todo \in Seq(Steps)
      BY DEF EntriesInv, ProcessInv, Remaining
    <3> QED BY <1>2, <3>1
  <2>3. Head(todo) = Step("verify", Head(todo).id)
    BY <1>2, <2>2 DEF Steps, Step
  <2> QED BY <1>1, <1>2, <1>4, <2>1, <2>3, QuietKeeps
<1> QED BY <1>3, <1>4

LEMMA StartKeepsEntries ==
    ASSUME EntriesInv, \A id : Right(id)' = Right(id), NEW t \in Tasks, Start(t)
    PROVE  EntriesInv'
<1> USE DEF EntriesInv
<1>1. /\ network' = network /\ calldata' = calldata /\ db' = db /\ sent' = sent
      /\ mined' = mined /\ factory' = factory /\ last' = last /\ task' = t
      /\ todo' = Program(t) /\ verifying' = verifying
  BY DEF Start, Environment, chainVars, fileVars, verificationVars
<1>2. FromReceipt(Program(t))
  BY DeploymentAssumption, ProgramFromReceipt
<1>3. Remaining(todo')
  BY <1>1, <1>2 DEF FromReceipt, Remaining
<1>4. ~verifying
  BY DEF Start, ProcessInv
<1>5. ProcessInv'
  <2>1. task' = "deploy-staked-plmy-rev3" => WritesNothing(todo')
    BY <1>1, RevisionWritesNothing
  <2> QED BY <1>1, <1>3, <1>4, <2>1, Zenon DEF ProcessInv
<1>6. SentInv' /\ MinedInv'
  <2>1. Program(t) \in Seq(Steps)
    BY <1>2 DEF FromReceipt
  <2>2. ASSUME NEW id \in Direct
        PROVE  /\ ~(Len(todo') >= 2 /\ todo'[2] = Step("register", id))
               /\ ~(todo' # <<>> /\ todo'[1] = Step("register", id))
    BY <1>1, <1>2, <2>1 DEF FromReceipt
  <2> QED BY <2>2 DEF SentInv, MinedInv
<1>7. Grows
  BY <1>1, ChainUnchanged DEF ChainInv
<1>8. FilesInv'
  BY <1>1 DEF FilesInv
<1> QED BY <1>1, <1>5, <1>6, <1>7, <1>8, EntryGrows DEF Grows

LEMMA ChainStepKeeps ==
    ASSUME EntriesInv, \A id : Right(id)' = Right(id),
           \/ Mine \/ LoseMempool
           \/ \E id \in Ids : FactoryDeploys(id)
           \/ \E a \in DOMAIN proxies : Use(a)
    PROVE  EntriesInv'
<1> USE DEF EntriesInv
<1>1. PICK S : sent \in Seq(S)
  BY DEF ChainInv, Sequence
<1>2. Len(sent) \in Nat /\ mined \in Nat /\ mined <= Len(sent)
  BY <1>1 DEF ChainInv
<1>3. UNCHANGED <<network, fileVars, processVars, verifying>>
  <2>1. CASE Mine \/ LoseMempool
    BY <2>1 DEF Mine, LoseMempool, verificationVars
  <2>2. CASE \E id \in Ids : FactoryDeploys(id)
    BY <2>2 DEF FactoryDeploys, verificationVars
  <2>3. CASE \E a \in DOMAIN proxies : Use(a)
    BY <2>3 DEF Use, verificationVars
  <2> QED BY <2>1, <2>2, <2>3
<1>4. last' = last /\ network' = network
  BY <1>3 DEF processVars
<1>5. CASE Mine
  <2>1. sent' = sent /\ mined' = mined + 1 /\ mined < Len(sent) /\ factory' = factory
    BY <1>5 DEF Mine
  <2>2. ChainInv' /\ Grows
    BY <1>2, <1>4, <2>1 DEF ChainInv, Grows
  <2> QED BY <1>3, <2>1, <2>2, ChainKeeps
<1>6. CASE LoseMempool
  <2>1. sent' = SubSeq(sent, 1, mined) /\ mined' = mined /\ factory' = factory
    BY <1>6 DEF LoseMempool
  <2>2. /\ sent' \in Seq(S) /\ Len(sent') = mined
        /\ \A n \in 1 .. mined : sent'[n] = sent[n]
    BY <1>1, <1>2, <2>1
  <2>3. Sequence(sent)'
    BY <2>2 DEF Sequence
  <2>4. ChainInv' /\ Grows
    BY <1>2, <1>4, <2>1, <2>2, <2>3 DEF ChainInv, Grows
  <2>5. \A n \in Nat \ {0} : n <= Len(sent') => n <= Len(sent) /\ sent'[n] = sent[n]
    BY <1>2, <2>2
  <2> QED BY <1>3, <2>4, <2>5, ChainKeeps
<1>7. CASE \E id \in Ids : FactoryDeploys(id)
  <2>1. sent' = sent /\ mined' = mined /\ network = "oasys"
    BY <1>7 DEF FactoryDeploys
  <2>2. ChainInv' /\ Grows
    BY <1>2, <1>4, <2>1 DEF ChainInv, Grows
  <2> QED BY <1>3, <2>1, <2>2, ChainKeeps
<1>8. CASE \E a \in DOMAIN proxies : Use(a)
  <2>1. sent' = sent /\ mined' = mined /\ factory' = factory
    BY <1>8 DEF Use
  <2>2. ChainInv' /\ Grows
    BY <1>2, <1>4, <2>1 DEF ChainInv, Grows
  <2> QED BY <1>3, <2>1, <2>2, ChainKeeps
<1> QED BY <1>5, <1>6, <1>7, <1>8

LEMMA EntriesStep == EntriesInv /\ [Next]_vars => EntriesInv'
<1> SUFFICES ASSUME EntriesInv, [Next]_vars PROVE EntriesInv'
  OBVIOUS
<1>1. \A id : Right(id)' = Right(id)
  BY RightFixed
<1>2. CASE UNCHANGED vars
  <2>1. UNCHANGED <<network, chainVars, last, fileVars, task, todo>> /\ verifying' = verifying
    BY <1>2 DEF vars, processVars, verificationVars
  <2>2. verifying' => Running' /\ todo # <<>> /\ Head(todo).do = "verify"
    BY <1>2, <2>1 DEF EntriesInv, ProcessInv, Running, vars, processVars
  <2> QED BY <1>1, <2>1, <2>2, StayKeeps
<1>3. ASSUME NEW t \in Tasks, Start(t) PROVE EntriesInv'
  BY <1>1, <1>3, StartKeepsEntries
<1>4. CASE PassCheck \/ LeaveOasys \/ WaitForReceipt \/ VerificationRound
  BY <1>1, <1>4, CheckKeeps, LeaveKeeps, WaitKeeps, RoundKeeps
<1>5. CASE Finish \/ Fail \/ Kill
  BY <1>1, <1>5, EndKeepsEntries DEF Finish, Fail, Kill
<1>6. ASSUME NEW id \in Ids,
             \/ WriteCalldata(id) \/ RegisterPredicted(id) \/ SendCalldata(id)
             \/ CreateContract(id) \/ CallProxy(id) \/ RegisterContract(id) \/ Verify(id)
      PROVE  EntriesInv'
  BY <1>1, <1>6, WriteKeeps, SendKeeps, RegisterKeeps, VerifyKeeps
<1>7. CASE \/ Mine \/ LoseMempool \/ \E id \in Ids : FactoryDeploys(id)
           \/ \E a \in DOMAIN proxies : Use(a)
  BY <1>1, <1>7, ChainStepKeeps
<1> QED BY <1>2, <1>3, <1>4, <1>5, <1>6, <1>7 DEF Next, ProcessStep

LEMMA EntryReady ==
    ASSUME EntriesInv, network # "oasys", NEW id \in Direct, db[id] # Unregistered
    PROVE  Ready(id)
<1>1. factory = {}
  BY DEF EntriesInv, ChainInv
<1>2. PICK n \in 1 .. mined : db[id] = AddressOf(n) /\ Creates(n, id)
  BY DEF EntriesInv, EntryInv
<1>3. /\ sent[n].do = "create" /\ sent[n].creation = Right(id)
      /\ AddressOf(n).nonce = n
  BY <1>2 DEF Creates, AddressOf
<1>4. CreationAt(AddressOf(n)) = sent[n].creation
  BY <1>1, <1>2, <1>3 DEF CreationAt
<1> QED BY <1>2, <1>3, <1>4 DEF Ready, Right

-----------------------------------------------------------------------------
(* The transactions still to come *)

Sending == {"send", "create", "call"}

SendsAt(s) == {i \in DOMAIN s : s[i].do \in Sending}

LEMMA SendsFinite ==
    ASSUME NEW s \in Seq(Steps)
    PROVE  IsFiniteSet(SendsAt(s)) /\ Sends(s) = Cardinality(SendsAt(s)) /\ Sends(s) \in Nat
<1>1. DOMAIN s = 1 .. Len(s) /\ Len(s) \in Nat
  OBVIOUS
<1>2. IsFiniteSet(1 .. Len(s))
  BY <1>1, FS_Interval
<1>3. SendsAt(s) \subseteq 1 .. Len(s)
  BY <1>1 DEF SendsAt
<1>4. IsFiniteSet(SendsAt(s))
  BY <1>2, <1>3, FS_Subset
<1>5. Sends(s) = Cardinality(SendsAt(s))
  BY DEF Sends, SendsAt, Sending
<1> QED BY <1>4, <1>5, FS_CardinalityType

(* A step that sends is one transaction less to come.                        *)
LEMMA SendsTail ==
    ASSUME NEW s \in Seq(Steps), s # <<>>
    PROVE  /\ Sends(Tail(s)) \in Nat /\ Sends(s) \in Nat
           /\ Sends(Tail(s)) <= Sends(s)
           /\ Head(s).do \in Sending => Sends(Tail(s)) + 1 <= Sends(s)
<1> DEFINE t == Tail(s)
           up(S) == {i + 1 : i \in S}
<1>1. /\ t \in Seq(Steps) /\ Len(s) \in Nat \ {0} /\ Len(t) = Len(s) - 1
      /\ \A i \in 1 .. Len(s) - 1 : t[i] = s[i + 1]
      /\ Head(s) = s[1] /\ DOMAIN s = 1 .. Len(s) /\ DOMAIN t = 1 .. Len(t)
  OBVIOUS
<1>2. /\ IsFiniteSet(SendsAt(t)) /\ Sends(t) = Cardinality(SendsAt(t)) /\ Sends(t) \in Nat
      /\ IsFiniteSet(SendsAt(s)) /\ Sends(s) = Cardinality(SendsAt(s)) /\ Sends(s) \in Nat
  BY <1>1, SendsFinite
<1> HIDE DEF t
<1>3. SendsAt(t) \subseteq Nat
  BY <1>1 DEF SendsAt
<1>4. ExistsBijection(SendsAt(t), up(SendsAt(t)))
  <2> DEFINE f == [i \in SendsAt(t) |-> i + 1]
  <2>1. f \in Bijection(SendsAt(t), up(SendsAt(t)))
    BY <1>3 DEF Bijection, Injection, Surjection, IsInjective
  <2> QED BY <2>1 DEF ExistsBijection
<1>5. IsFiniteSet(up(SendsAt(t))) /\ Cardinality(up(SendsAt(t))) = Sends(t)
  BY <1>2, <1>4, FS_Bijection
<1>6. up(SendsAt(t)) \subseteq SendsAt(s)
  BY <1>1 DEF SendsAt
<1>7. Sends(t) <= Sends(s)
  BY <1>2, <1>5, <1>6, FS_Subset
<1>8. ASSUME Head(s).do \in Sending PROVE Sends(t) + 1 <= Sends(s)
  <2>1. 1 \in SendsAt(s) /\ 1 \notin up(SendsAt(t))
    BY <1>1, <1>3, <1>8 DEF SendsAt
  <2>2. up(SendsAt(t)) \cup {1} \subseteq SendsAt(s)
    BY <1>6, <2>1
  <2>3. Cardinality(up(SendsAt(t)) \cup {1}) = Sends(t) + 1
    BY <1>5, <2>1, FS_AddElement
  <2> QED BY <1>2, <2>2, <2>3, FS_Subset
<1> QED BY <1>2, <1>7, <1>8 DEF t

LEMMA SendsNone == Sends(<<>>) = 0
  BY FS_EmptySet DEF Sends

-----------------------------------------------------------------------------
(* Which contracts a task creates and calls *)

\* Nobody calls the upgrade to revision 3 but its own task.
Callable ==
    IF "initialize-StakedTokenV2Rev3" \in Tasks
      THEN Ids
      ELSE {"StakedOas", "StakedTokenV2Rev4"}

\* By deployContract tasks create revisions only.
Allowed == {s \in Steps : /\ s.do = "create" => s.id \in Revisions
                          /\ s.do = "call" => s.id \in Callable}

LEMMA AllowedSteps ==
    /\ \A a \in Kinds, b \in Names : a \notin {"create", "call"} => Step(a, b) \in Allowed
    /\ \A id \in Revisions : Step("create", id) \in Allowed
    /\ \A id \in Callable : Step("call", id) \in Allowed
<1>1. \A a, b : Step(a, b).do = a /\ Step(a, b).id = b
  BY DEF Step
<1>2. Revisions \subseteq Names /\ Callable \subseteq Names
  BY DEF Revisions, Callable, Names, Ids, CodeOf
<1>3. ASSUME NEW a \in Kinds, NEW b \in Names, a \notin {"create", "call"}
      PROVE  Step(a, b) \in Allowed
  BY <1>1, <1>3, StepIsStep DEF Allowed
<1>4. ASSUME NEW id \in Revisions PROVE Step("create", id) \in Allowed
  <2>1. "create" \in Kinds
    BY DEF Kinds
  <2> QED BY <1>1, <1>2, <2>1, StepIsStep DEF Allowed
<1>5. ASSUME NEW id \in Callable PROVE Step("call", id) \in Allowed
  <2>1. "call" \in Kinds
    BY DEF Kinds
  <2> QED BY <1>1, <1>2, <2>1, StepIsStep DEF Allowed
<1> QED BY <1>3, <1>4, <1>5

LEMMA AllowedKinds ==
    /\ Wait \in Allowed
    /\ \A what \in {"admin", "verification", "chain id", "addresses", "token and vault"} :
          Check(what) \in Allowed
    /\ \A id \in Ids : /\ Step("write", id) \in Allowed
                       /\ Step("predict", id) \in Allowed
                       /\ Step("register", id) \in Allowed
                       /\ Step("send", id) \in Allowed
                       /\ Step("verify", id) \in Allowed
    /\ Step("leave oasys", "") \in Allowed
<1>1. Ids \subseteq Names
  BY DEF Ids, CodeOf, Names
<1>2. /\ {"check", "write", "predict", "leave oasys", "send", "register", "wait", "verify"}
           \subseteq Kinds \ {"create", "call"}
      /\ {"", "admin", "verification", "chain id", "addresses", "token and vault"}
           \subseteq Names
  BY DEF Kinds, Names
<1> QED BY <1>1, <1>2, AllowedSteps DEF Wait, Check

LEMMA AllowedParts ==
    /\ ExportStakedOas \in Seq(Allowed)
    /\ Export("StakedTokenV2Rev4") \in Seq(Allowed)
    /\ DeployStakedOas \in Seq(Allowed)
    /\ <<Check("admin")>> \in Seq(Allowed)
    /\ <<Step("leave oasys", "")>> \in Seq(Allowed)
    /\ \A id \in Revisions, verify \in BOOLEAN : DeployRevision(id, verify) \in Seq(Allowed)
    /\ \A id \in Revisions \cap Callable : Upgrade(id) \in Seq(Allowed)
    /\ InitializeStakedOas \in Seq(Allowed)
    /\ VerificationTask \in Seq(Allowed)
    /\ DeployStakedPlmyRev3 \in Seq(Allowed)
<1>0. /\ "StakedOas" \in Ids /\ "StakedOasImpl" \in Ids
      /\ "StakedTokenV2Rev3" \in Ids /\ "StakedTokenV2Rev4" \in Ids
      /\ \A id \in Revisions : id \in Ids
      /\ "StakedTokenV2Rev3" \in Revisions
      /\ "StakedOas" \in Callable
  BY DEF Ids, CodeOf, Revisions, Callable
<1>1. ASSUME NEW id \in Ids
      PROVE  Export(id) \in Seq(Allowed) /\ Deploy(id) \in Seq(Allowed)
  <2>1. /\ Step("write", id) \in Allowed /\ Step("predict", id) \in Allowed
        /\ Step("send", id) \in Allowed /\ Wait \in Allowed /\ Step("register", id) \in Allowed
    BY AllowedKinds
  <2> QED BY <2>1, Tuples, Zenon DEF Export, Deploy
<1>2. /\ ExportStakedOas \in Seq(Allowed) /\ Export("StakedTokenV2Rev4") \in Seq(Allowed)
      /\ DeployStakedOas \in Seq(Allowed)
  <2>1. /\ Export("StakedOasImpl") \in Seq(Allowed) /\ Export("StakedOas") \in Seq(Allowed)
        /\ Deploy("StakedOasImpl") \in Seq(Allowed) /\ Deploy("StakedOas") \in Seq(Allowed)
        /\ Export("StakedTokenV2Rev4") \in Seq(Allowed)
    BY <1>0, <1>1
  <2> QED BY <2>1 DEF ExportStakedOas, DeployStakedOas
<1>3. /\ Wait \in Allowed /\ Check("admin") \in Allowed /\ Check("verification") \in Allowed
      /\ Check("chain id") \in Allowed /\ Check("addresses") \in Allowed
      /\ Check("token and vault") \in Allowed /\ Step("leave oasys", "") \in Allowed
  BY AllowedKinds
<1>4. <<Check("admin")>> \in Seq(Allowed) /\ <<Step("leave oasys", "")>> \in Seq(Allowed)
  BY <1>3, Tuples, Zenon
<1>c. ASSUME NEW id \in Revisions, NEW verify \in BOOLEAN
      PROVE  CreateRevision(id, verify) \in Seq(Allowed)
  <2>1. /\ Step("create", id) \in Allowed /\ Step("verify", id) \in Allowed
        /\ Step("register", id) \in Allowed
    BY <1>0, AllowedKinds, AllowedSteps
  <2>2. /\ <<Step("create", id), Step("register", id)>> \in Seq(Allowed)
        /\ <<Step("verify", id)>> \in Seq(Allowed) /\ <<>> \in Seq(Allowed)
    BY <2>1, Tuples, Zenon
  <2>3. CASE verify
    BY <2>2, <2>3, Concatenations, Zenon DEF CreateRevision
  <2>4. CASE ~verify
    BY <2>2, <2>4, Concatenations, Zenon DEF CreateRevision
  <2> QED BY <2>3, <2>4
<1>5. ASSUME NEW id \in Revisions, NEW verify \in BOOLEAN
      PROVE  DeployRevision(id, verify) \in Seq(Allowed)
  <2>1. Step("register", id) \in Allowed
    BY <1>0, AllowedKinds
  <2>2. /\ <<Check("verification")>> \in Seq(Allowed) /\ <<>> \in Seq(Allowed)
        /\ <<Check("chain id"), Check("addresses")>> \in Seq(Allowed)
        /\ <<Wait, Step("register", id)>> \in Seq(Allowed)
        /\ CreateRevision(id, verify) \in Seq(Allowed)
    BY <1>3, <1>c, <2>1, Tuples, Zenon
  <2>3. CASE verify
    BY <2>2, <2>3, Concatenations, Zenon DEF DeployRevision
  <2>4. CASE ~verify
    BY <2>2, <2>4, Concatenations, Zenon DEF DeployRevision
  <2> QED BY <2>3, <2>4
<1>6. ASSUME NEW id \in Revisions \cap Callable PROVE Upgrade(id) \in Seq(Allowed)
  <2>1. Step("call", id) \in Allowed
    BY AllowedSteps
  <2>2. /\ <<Check("chain id")>> \in Seq(Allowed) /\ <<Check("token and vault")>> \in Seq(Allowed)
        /\ <<>> \in Seq(Allowed) /\ <<Step("call", id), Wait>> \in Seq(Allowed)
    BY <1>3, <2>1, Tuples, Zenon
  <2> QED BY <2>2, Concatenations, Zenon DEF Upgrade
<1>7. InitializeStakedOas \in Seq(Allowed)
  <2>1. Step("call", "StakedOas") \in Allowed
    BY <1>0, AllowedSteps
  <2> QED BY <1>3, <2>1, Tuples, Zenon DEF InitializeStakedOas
<1>8. VerificationTask \in Seq(Allowed)
  <2>1. /\ Step("verify", "StakedOas") \in Allowed /\ Step("verify", "StakedOasImpl") \in Allowed
        /\ Step("verify", "StakedTokenV2Rev4") \in Allowed
    BY <1>0, AllowedKinds
  <2> QED BY <1>3, <2>1, Tuples, Zenon DEF VerificationTask
<1>9. DeployStakedPlmyRev3 \in Seq(Allowed)
  BY <1>0, <1>c DEF DeployStakedPlmyRev3
<1> QED BY <1>2, <1>4, <1>5, <1>6, <1>7, <1>8, <1>9

LEMMA ProgramAllowed == \A t \in Tasks : Program(t) \in Seq(Allowed)
<1> SUFFICES ASSUME NEW t \in Tasks PROVE Program(t) \in Seq(Allowed)
  OBVIOUS
<1>0. t \in TaskNames
  BY DeploymentAssumption
<1>1. /\ {"StakedTokenV2Rev3", "StakedTokenV2Rev4"} \subseteq Revisions
      /\ {TRUE, FALSE} \subseteq BOOLEAN
      /\ "StakedTokenV2Rev4" \in Callable
      /\ t = "initialize-StakedTokenV2Rev3" => "StakedTokenV2Rev3" \in Callable
  BY DEF Revisions, Callable, Ids, CodeOf
<1>2. /\ DeployRevision("StakedTokenV2Rev4", FALSE) \in Seq(Allowed)
      /\ DeployRevision("StakedTokenV2Rev4", TRUE) \in Seq(Allowed)
      /\ DeployRevision("StakedTokenV2Rev3", FALSE) \in Seq(Allowed)
      /\ Upgrade("StakedTokenV2Rev4") \in Seq(Allowed)
      /\ t = "initialize-StakedTokenV2Rev3" => Upgrade("StakedTokenV2Rev3") \in Seq(Allowed)
  BY <1>1, AllowedParts
<1>3. CommonDeployment \in Seq(Allowed)
  BY <1>2, AllowedParts, Concatenations, Zenon DEF CommonDeployment
<1>4. CommonInitialization \in Seq(Allowed)
  BY <1>2, AllowedParts, Concatenations, Zenon DEF CommonInitialization
<1> QED BY <1>0, <1>2, <1>3, <1>4, AllowedParts DEF Program, TaskNames

-----------------------------------------------------------------------------
(* How the process moves *)

Leaving == "leave oasys"

LEMMA OthersStay ==
    Leaving \notin {"check", "wait", "write", "predict", "verify", "send", "create", "call", "register"}
  BY Zenon DEF Leaving

\* It leaves a step behind that sends and registers nothing, but not oasys;
\* what it exports, and where, is in the files.
Passing(do, x) ==
    /\ do \notin {"send", "create", "call", "register"}
    /\ network = "oasys" => do # Leaving
    /\ Running /\ todo # <<>> /\ Head(todo) = Step(do, x)
    /\ todo' = Tail(todo)
    /\ UNCHANGED <<network, task, outcome, last, chainVars>>
    /\ IF do = "write"
         THEN x \in Ids /\ calldata' = [calldata EXCEPT ![x] = CreationOf(x)]
         ELSE calldata' = calldata
    /\ IF do = "predict" /\ network = "oasys"
         THEN x \in Ids /\ db' = [db EXCEPT ![x] = PredictedAddress(x)]
         ELSE db' = db
    /\ do = "wait" => last \in 1 .. mined /\ last \notin reverted

Resting == UNCHANGED <<network, chainVars, fileVars, processVars>>

ChainStep ==
    \/ Mine \/ LoseMempool
    \/ \E id \in Ids : FactoryDeploys(id)
    \/ \E a \in DOMAIN proxies : Use(a)

Ending(how) ==
    Running /\ EndsAs(how) /\ (how = "finished" => todo = <<>>)

Outcomes == {"idle", "running", "finished", "failed", "killed"}

LEMMA WaitPasses ==
    ~Throws(Step("wait", "")) => last \notin reverted
<1> SUFFICES ASSUME ~Throws(Step("wait", "")) PROVE last \notin reverted
  OBVIOUS
<1>1. Step("wait", "").do = "wait"
  BY DEF Step
<1> QED BY <1>1, Zenon DEF Throws

LEMMA PassingSteps ==
    ASSUME EntriesInv, PassCheck \/ WaitForReceipt
           \/ \E w \in Ids : WriteCalldata(w) \/ RegisterPredicted(w)
    PROVE  \E do, x : Passing(do, x)
<1>1. CASE PassCheck
  <2>1. PICK what : Takes("check", what)
    BY <1>1, Zenon DEF PassCheck
  <2>2. Passing("check", what)
    BY <1>1, <2>1, OthersStay DEF PassCheck, Takes, At, Continue, Environment, fileVars, Passing
  <2> QED BY <2>2
<1>2. CASE WaitForReceipt
  <2>1. Passing("wait", "")
    BY <1>2, WaitPasses, OthersStay
       DEF WaitForReceipt, Receipt, Takes, At, Continue, Environment, fileVars, Passing
  <2> QED BY <2>1
<1>3. ASSUME NEW w \in Ids, WriteCalldata(w) PROVE \E do, x : Passing(do, x)
  <2>1. Passing("write", w)
    BY <1>3, OthersStay DEF WriteCalldata, Takes, At, Continue, Environment, Passing
  <2> QED BY <2>1
<1>4. ASSUME NEW w \in Ids, RegisterPredicted(w) PROVE \E do, x : Passing(do, x)
  <2>1. Passing("predict", w)
    BY <1>4, OthersStay DEF RegisterPredicted, Takes, At, Continue, Environment, Passing
  <2> QED BY <2>1
<1> QED BY <1>1, <1>2, <1>3, <1>4

LEMMA LeavingPasses ==
    ASSUME EntriesInv, LeaveOasys, network # "oasys"
    PROVE  \E do, x : Passing(do, x)
<1> DEFINE do == "leave oasys"
<1>1. do \notin {"send", "create", "call", "register", "write", "predict"} /\ do # "wait"
  BY Zenon
<1>2. Running /\ todo # <<>> /\ Head(todo) = Step(do, "")
  BY Zenon DEF LeaveOasys, At
<1>3. todo' = Tail(todo)
  BY Zenon DEF LeaveOasys
<1>4. UNCHANGED <<network, task, outcome, last, chainVars>> /\ calldata' = calldata /\ db' = db
  BY DEF LeaveOasys, Environment, fileVars
<1> HIDE DEF do
<1> QED BY <1>1, <1>2, <1>3, <1>4 DEF Passing

LEMMA VerifyingMoves ==
    ASSUME EntriesInv, VerificationRound \/ \E w \in Ids : Verify(w)
    PROVE  Resting \/ \E do, x : Passing(do, x)
<1>1. CASE VerificationRound
  <2>1. UNCHANGED <<network, task, last, outcome, chainVars, fileVars>> /\ verifying
    BY <1>1 DEF VerificationRound, Environment
  <2>2. Running /\ todo # <<>> /\ Head(todo).do = "verify"
    BY <2>1 DEF EntriesInv, ProcessInv
  <2>3. Head(todo) \in Steps
    <3>1. todo \in Seq(Steps)
      BY DEF EntriesInv, ProcessInv, Remaining
    <3> QED BY <2>2, <3>1
  <2>4. Head(todo) = Step("verify", Head(todo).id)
    BY <2>2, <2>3 DEF Steps, Step
  <2>5. CASE todo' = todo
    BY <2>1, <2>5 DEF Resting, processVars
  <2>6. CASE todo' = Tail(todo)
    <3>1. Passing("verify", Head(todo).id)
      BY <2>1, <2>2, <2>4, <2>6, OthersStay DEF Passing, fileVars
    <3> QED BY <3>1
  <2> QED BY <1>1, <2>5, <2>6 DEF VerificationRound
<1>2. ASSUME NEW w \in Ids, Verify(w) PROVE Resting \/ \E do, x : Passing(do, x)
  <2>1. UNCHANGED <<network, last, chainVars, fileVars>>
    BY <1>2 DEF Verify, Environment
  <2>2. Running /\ todo # <<>> /\ Head(todo) = Step("verify", w)
    BY <1>2 DEF Verify, At
  <2>3. CASE UNCHANGED <<task, todo, outcome>>
    BY <2>1, <2>3 DEF Resting, processVars
  <2>4. CASE Continue
    <3>1. Passing("verify", w)
      BY <2>1, <2>2, <2>4, OthersStay DEF Passing, fileVars, Continue
    <3> QED BY <3>1
  <2> QED BY <1>2, <2>3, <2>4 DEF Verify
<1> QED BY <1>1, <1>2

(* Whatever happens, the process starts, ends, passes a step, leaves oasys,  *)
(* sends, registers or stays where it is; or the chain takes a step.          *)
LEMMA Moves ==
    ASSUME EntriesInv, [Next]_vars
    PROVE  \/ \E t \in Tasks : Start(t)
           \/ \E how \in {"finished", "failed", "killed"} : Ending(how)
           \/ \E do, x : Passing(do, x)
           \/ network = "oasys" /\ LeaveOasys
           \/ \E w \in Ids : SendCalldata(w) \/ CreateContract(w) \/ CallProxy(w)
           \/ \E w \in Ids : RegisterContract(w)
           \/ Resting
           \/ ChainStep
<1>1. CASE UNCHANGED vars
  BY <1>1 DEF vars, Resting
<1>2. CASE PassCheck \/ WaitForReceipt
           \/ \E w \in Ids : WriteCalldata(w) \/ RegisterPredicted(w)
  BY <1>2, PassingSteps
<1>3. CASE LeaveOasys
  BY <1>3, LeavingPasses
<1>4. CASE VerificationRound \/ \E w \in Ids : Verify(w)
  BY <1>4, VerifyingMoves
<1>5. CASE Finish
  <2>1. Ending("finished")
    BY <1>5 DEF Finish, Ending
  <2> QED BY <2>1
<1>6. CASE Fail
  <2>1. Ending("failed")
    BY <1>6 DEF Fail, Ending
  <2> QED BY <2>1
<1>7. CASE Kill
  <2>1. Ending("killed")
    BY <1>7 DEF Kill, Ending
  <2> QED BY <2>1
<1>8. CASE ChainStep
  BY <1>8
<1> QED BY <1>1, <1>2, <1>3, <1>4, <1>5, <1>6, <1>7, <1>8 DEF Next, ProcessStep, ChainStep

LEMMA ChainStepFrame ==
    ASSUME EntriesInv, ChainStep
    PROVE  /\ UNCHANGED <<network, fileVars, processVars>>
           /\ Len(sent) \in Nat /\ Len(sent') \in Nat /\ Len(sent') <= Len(sent)
           /\ \A n \in 1 .. Len(sent') : sent'[n] = sent[n]
           /\ mined \in 0 .. Len(sent) /\ mined' \in 0 .. Len(sent') /\ mined <= mined'
<1>1. PICK S : sent \in Seq(S)
  BY DEF EntriesInv, ChainInv, Sequence
<1>2. Len(sent) \in Nat /\ mined \in 0 .. Len(sent)
  BY <1>1 DEF EntriesInv, ChainInv
<1>3. CASE Mine
  BY <1>2, <1>3 DEF Mine
<1>4. CASE LoseMempool
  <2>1. sent' = SubSeq(sent, 1, mined) /\ mined' = mined
    BY <1>4 DEF LoseMempool
  <2>2. Len(sent') = mined /\ \A n \in 1 .. mined : sent'[n] = sent[n]
    BY <1>1, <1>2, <2>1
  <2> QED BY <1>2, <1>4, <2>1, <2>2 DEF LoseMempool
<1>5. CASE \E id \in Ids : FactoryDeploys(id)
  BY <1>2, <1>5 DEF FactoryDeploys
<1>6. CASE \E a \in DOMAIN proxies : Use(a)
  BY <1>2, <1>6 DEF Use
<1> QED BY <1>3, <1>4, <1>5, <1>6 DEF ChainStep

-----------------------------------------------------------------------------
(* The process within its bounds *)

(* What is sent and still to send fits the bound.                            *)
ScheduleInv ==
    /\ todo \in Seq(Allowed)
    /\ ~Running => todo = <<>>
    /\ Len(sent) + Sends(todo) <= MaxSent
    /\ last \in 0 .. MaxSent
    /\ task \in Tasks \cup {""}
    /\ outcome \in Outcomes

LEMMA SentFacts ==
    ASSUME EntriesInv
    PROVE  /\ Len(sent) \in Nat /\ mined \in 0 .. Len(sent) /\ last \in Nat
           /\ \A tx : /\ Len(Append(sent, tx)) = Len(sent) + 1
                      /\ Append(sent, tx)[Len(sent) + 1] = tx
                      /\ \A n \in 1 .. Len(sent) : Append(sent, tx)[n] = sent[n]
<1>1. PICK S : sent \in Seq(S)
  BY DEF EntriesInv, ChainInv, Sequence
<1>2. Len(sent) \in Nat /\ mined \in 0 .. Len(sent) /\ last \in Nat
  BY <1>1 DEF EntriesInv, ChainInv
<1>3. ASSUME NEW tx
      PROVE  /\ Len(Append(sent, tx)) = Len(sent) + 1
             /\ Append(sent, tx)[Len(sent) + 1] = tx
             /\ \A n \in 1 .. Len(sent) : Append(sent, tx)[n] = sent[n]
  <2>1. sent \in Seq(S \cup {tx}) /\ tx \in S \cup {tx}
    BY <1>1
  <2> QED BY <2>1
<1> QED BY <1>2, <1>3

LEMMA SendingMoves ==
    ASSUME EntriesInv, NEW w \in Ids, SendCalldata(w) \/ CreateContract(w) \/ CallProxy(w)
    PROVE  \E do \in Sending : \E tx :
              /\ Running /\ todo # <<>> /\ Head(todo) = Step(do, w) /\ todo' = Tail(todo)
              /\ ~Throws(Step(do, w))
              /\ UNCHANGED <<network, fileVars, task, outcome, mined, reverted, proxies, factory>>
              /\ sent' = Append(sent, tx) /\ last' = Len(sent) + 1
              /\ do = "send" => tx = [do |-> "create", creation |-> calldata[w]]
              /\ do = "create" => tx = [do |-> "create", creation |-> CreationOf(w)]
              /\ do = "call" => tx = CallOf(w)
<1> DEFINE P(do, tx) ==
              /\ Running /\ todo # <<>> /\ Head(todo) = Step(do, w) /\ todo' = Tail(todo)
              /\ ~Throws(Step(do, w))
              /\ UNCHANGED <<network, fileVars, task, outcome, mined, reverted, proxies, factory>>
              /\ sent' = Append(sent, tx) /\ last' = Len(sent) + 1
              /\ do = "send" => tx = [do |-> "create", creation |-> calldata[w]]
              /\ do = "create" => tx = [do |-> "create", creation |-> CreationOf(w)]
              /\ do = "call" => tx = CallOf(w)
<1>1. ASSUME NEW do, NEW tx, Takes(do, w), SendTransaction(tx),
             do = "send" => tx = [do |-> "create", creation |-> calldata[w]],
             do = "create" => tx = [do |-> "create", creation |-> CreationOf(w)],
             do = "call" => tx = CallOf(w)
      PROVE  P(do, tx)
  BY <1>1 DEF Takes, At, Continue, SendTransaction, Environment
<1>2. CASE SendCalldata(w)
  <2>1. P("send", [do |-> "create", creation |-> calldata[w]])
    BY <1>1, <1>2 DEF SendCalldata
  <2> QED BY <2>1 DEF Sending
<1>3. CASE CreateContract(w)
  <2>1. P("create", [do |-> "create", creation |-> CreationOf(w)])
    BY <1>1, <1>3 DEF CreateContract
  <2> QED BY <2>1 DEF Sending
<1>4. CASE CallProxy(w)
  <2>1. P("call", CallOf(w))
    BY <1>1, <1>4 DEF CallProxy
  <2> QED BY <2>1 DEF Sending
<1> QED BY <1>2, <1>3, <1>4

LEMMA Bounds ==
    MaxSent \in Nat /\ MaxCrashes \in Nat /\ MaxLosses \in Nat /\ NetworkChoices \subseteq LiveNetworks
  BY DeploymentAssumption, Zenon

LEMMA ScheduleInit == Init => ScheduleInv
<1> SUFFICES ASSUME Init PROVE ScheduleInv
  OBVIOUS
<1>1. sent = <<>> /\ todo = <<>> /\ last = 0
  BY DEF Init
<1>5. task = "" /\ outcome = "idle"
  BY DEF Init
<1>2. MaxSent \in Nat
  BY Bounds
<1>3. Len(sent) = 0 /\ todo \in Seq(Allowed)
  BY <1>1
<1>4. Len(sent) + Sends(todo) <= MaxSent /\ last \in 0 .. MaxSent
  BY <1>1, <1>2, <1>3, SendsNone
<1> QED BY <1>1, <1>3, <1>4, <1>5, Zenon DEF ScheduleInv, Outcomes

LEMMA ScheduleStep == EntriesInv /\ ScheduleInv /\ [Next]_vars => ScheduleInv'
<1> SUFFICES ASSUME EntriesInv, ScheduleInv, [Next]_vars PROVE ScheduleInv'
  OBVIOUS
<1>1. /\ Len(sent) \in Nat /\ mined \in 0 .. Len(sent) /\ last \in 0 .. MaxSent /\ MaxSent \in Nat
      /\ Sends(todo) \in Nat /\ Len(sent) + Sends(todo) <= MaxSent
  <2>1. todo \in Seq(Steps)
    BY DEF EntriesInv, ProcessInv, Remaining
  <2>2. Sends(todo) \in Nat
    BY <2>1, SendsFinite
  <2>3. MaxSent \in Nat
    BY Bounds
  <2> QED BY <2>2, <2>3, SentFacts DEF ScheduleInv
<1>2. ASSUME todo # <<>>
      PROVE  /\ Tail(todo) \in Seq(Allowed)
             /\ Sends(Tail(todo)) \in Nat /\ Sends(Tail(todo)) <= Sends(todo)
             /\ Head(todo).do \in Sending => Sends(Tail(todo)) + 1 <= Sends(todo)
  <2>1. todo \in Seq(Steps) /\ todo \in Seq(Allowed)
    BY DEF EntriesInv, ProcessInv, Remaining, ScheduleInv
  <2>2. Tail(todo) \in Seq(Allowed)
    BY <1>2, <2>1
  <2> QED BY <1>2, <2>1, <2>2, SendsTail
<1>e. <<>> \in Seq(Allowed) /\ Sends(<<>>) = 0
  BY SendsNone
<1>t. /\ task \in Tasks \cup {""} /\ outcome \in Outcomes /\ todo \in Seq(Allowed)
      /\ ~Running => todo = <<>>
  BY DEF ScheduleInv
<1> DEFINE Fits == Len(sent) + Sends(todo) <= MaxSent /\ last \in 0 .. MaxSent
<1>f. (/\ todo' \in Seq(Allowed) /\ Fits' /\ task' \in Tasks \cup {""} /\ outcome' \in Outcomes
       /\ outcome' # "running" => todo' = <<>>) => ScheduleInv'
  BY DEF ScheduleInv, Running
<1> HIDE DEF Fits
<1>3. ASSUME NEW t \in Tasks, Start(t) PROVE ScheduleInv'
  <2>1. /\ Len(sent) + Sends(Program(t)) <= MaxSent
        /\ sent' = sent /\ last' = last /\ task' = t /\ todo' = Program(t) /\ outcome' = "running"
    BY <1>3 DEF Start, chainVars
  <2>2. Program(t) \in Seq(Allowed)
    BY ProgramAllowed
  <2>3. Fits'
    BY <1>1, <2>1 DEF Fits
  <2> QED BY <1>f, <2>1, <2>2, <2>3, Zenon DEF Outcomes
<1>4. ASSUME NEW how \in {"finished", "failed", "killed"}, Ending(how) PROVE ScheduleInv'
  <2>1. sent' = sent /\ todo' = <<>> /\ last' = 0 /\ outcome' = how
    BY <1>4 DEF Ending, EndsAs, chainVars
  <2>2. Fits'
    BY <1>1, <1>e, <2>1 DEF Fits
  <2>3. task' \in Tasks \cup {""}
    BY <1>4, <1>t DEF Ending, EndsAs
  <2>4. outcome' \in Outcomes
    BY <2>1 DEF Outcomes
  <2> QED BY <1>e, <1>f, <2>1, <2>2, <2>3, <2>4, Zenon
<1>5. ASSUME NEW do, NEW x, Passing(do, x) PROVE ScheduleInv'
  <2>1. /\ todo # <<>> /\ todo' = Tail(todo) /\ Running /\ outcome' = outcome
        /\ task' = task /\ last' = last /\ sent' = sent
    BY <1>5 DEF Passing, chainVars
  <2>2. Fits'
    BY <1>1, <1>2, <2>1 DEF Fits
  <2> QED BY <1>2, <1>f, <1>t, <2>1, <2>2, Zenon DEF Running
<1>6. CASE network = "oasys" /\ LeaveOasys
  <2>1. todo' = <<>> /\ outcome' = outcome /\ task' = task /\ last' = last /\ sent' = sent
    BY <1>6 DEF LeaveOasys, chainVars
  <2>2. Fits'
    BY <1>1, <1>e, <2>1 DEF Fits
  <2> QED BY <1>e, <1>f, <1>t, <2>1, <2>2, Zenon
<1>7. ASSUME NEW w \in Ids, SendCalldata(w) \/ CreateContract(w) \/ CallProxy(w)
      PROVE  ScheduleInv'
  <2>1. PICK do, tx :
          /\ do \in Sending
          /\ Running /\ todo # <<>> /\ Head(todo) = Step(do, w) /\ todo' = Tail(todo)
          /\ UNCHANGED <<task, outcome>>
          /\ sent' = Append(sent, tx) /\ last' = Len(sent) + 1
    BY <1>7, SendingMoves
  <2>2. Head(todo).do \in Sending
    BY <2>1 DEF Step
  <2>3. Len(sent') = Len(sent) + 1
    BY <2>1, SentFacts
  <2>4. Fits'
    BY <1>1, <1>2, <2>1, <2>2, <2>3 DEF Fits
  <2> QED BY <1>2, <1>f, <1>t, <2>1, <2>4, Zenon DEF Running
<1>8. ASSUME NEW w \in Ids, RegisterContract(w) PROVE ScheduleInv'
  <2>1. /\ todo # <<>> /\ todo' = Tail(todo) /\ Running /\ outcome' = outcome
        /\ task' = task /\ last' = last /\ sent' = sent
    BY <1>8 DEF RegisterContract, Takes, At, Continue, chainVars
  <2>2. Fits'
    BY <1>1, <1>2, <2>1 DEF Fits
  <2> QED BY <1>2, <1>f, <1>t, <2>1, <2>2, Zenon DEF Running
<1>9. CASE Resting
  <2>1. /\ todo' = todo /\ outcome' = outcome /\ task' = task /\ last' = last /\ sent' = sent
    BY <1>9 DEF Resting, chainVars, processVars
  <2>2. Fits'
    BY <1>1, <2>1 DEF Fits
  <2> QED BY <1>f, <1>t, <2>1, <2>2, Zenon DEF Running
<1>10. CASE ChainStep
  <2>1. /\ todo' = todo /\ outcome' = outcome /\ task' = task /\ last' = last
        /\ Len(sent') \in Nat /\ Len(sent') <= Len(sent)
    BY <1>10, ChainStepFrame DEF processVars
  <2>2. Fits'
    BY <1>1, <2>1 DEF Fits
  <2> QED BY <1>f, <1>t, <2>1, <2>2, Zenon DEF Running
<1> QED BY <1>3, <1>4, <1>5, <1>6, <1>7, <1>8, <1>9, <1>10, Moves

-----------------------------------------------------------------------------
(* What is created stays *)

(* The files change by their own steps only, and the environment never.      *)
LEMMA FilesMove ==
    ASSUME [Next]_vars
    PROVE  /\ UNCHANGED calldata \/ \E w \in Ids : WriteCalldata(w)
           /\ UNCHANGED db \/ \E w \in Ids : RegisterContract(w) \/ RegisterPredicted(w)
           /\ UNCHANGED <<network, etherscanKey>>
           /\ crashes' = crashes \/ (crashes < MaxCrashes /\ crashes' = crashes + 1)
           /\ losses' = losses \/ (losses < MaxLosses /\ losses' = losses + 1)
<1> DEFINE Goal == /\ UNCHANGED calldata \/ \E w \in Ids : WriteCalldata(w)
                   /\ UNCHANGED db \/ \E w \in Ids : RegisterContract(w) \/ RegisterPredicted(w)
                   /\ UNCHANGED <<network, etherscanKey>>
                   /\ crashes' = crashes \/ (crashes < MaxCrashes /\ crashes' = crashes + 1)
                   /\ losses' = losses \/ (losses < MaxLosses /\ losses' = losses + 1)
<1>1. CASE UNCHANGED vars
  BY <1>1 DEF vars, fileVars
<1>2. ASSUME NEW t \in Tasks, Start(t) PROVE Goal
  BY <1>2 DEF Start, Environment, fileVars
<1>3. CASE PassCheck \/ LeaveOasys \/ WaitForReceipt \/ VerificationRound
  BY <1>3 DEF PassCheck, LeaveOasys, WaitForReceipt, VerificationRound, Environment, fileVars
<1>4. CASE Finish \/ Fail \/ Kill
  BY <1>4 DEF Finish, Fail, Kill, EndsAs, fileVars
<1>5. ASSUME NEW w \in Ids, SendCalldata(w) \/ CreateContract(w) \/ CallProxy(w) \/ Verify(w)
      PROVE  Goal
  BY <1>5 DEF SendCalldata, CreateContract, CallProxy, Verify, SendTransaction, Environment, fileVars
<1>6. ASSUME NEW w \in Ids, WriteCalldata(w) PROVE Goal
  BY <1>6 DEF WriteCalldata, Environment
<1>7. ASSUME NEW w \in Ids, RegisterContract(w) PROVE Goal
  BY <1>7 DEF RegisterContract, Environment
<1>8. ASSUME NEW w \in Ids, RegisterPredicted(w) PROVE Goal
  BY <1>8 DEF RegisterPredicted, Environment
<1>9. CASE Mine \/ LoseMempool
  BY <1>9 DEF Mine, LoseMempool, fileVars
<1>10. ASSUME NEW id \in Ids, FactoryDeploys(id) PROVE Goal
  BY <1>10 DEF FactoryDeploys, fileVars
<1>11. ASSUME NEW a \in DOMAIN proxies, Use(a) PROVE Goal
  BY <1>11 DEF Use, fileVars
<1> QED BY <1>1, <1>2, <1>3, <1>4, <1>5, <1>6, <1>7, <1>8, <1>9, <1>10, <1>11 DEF Next, ProcessStep

LEMMA CodeOfFacts == \A id \in Ids : CodeOf[id] # ""
<1>1. Ids = {"StakedOas", "StakedOasImpl", "StakedTokenV2Rev3", "StakedTokenV2Rev4"}
  BY DEF Ids, CodeOf
<1>2. CodeOf["StakedOas"] # ""
  BY DEF CodeOf, PROXY
<1>3. CodeOf["StakedOasImpl"] # "" /\ CodeOf["StakedTokenV2Rev3"] # ""
      /\ CodeOf["StakedTokenV2Rev4"] # ""
  BY DEF CodeOf
<1> QED BY <1>1, <1>2, <1>3

LEMMA CalldataStays ==
    ASSUME EntriesInv, EntriesInv', [Next]_vars, NEW id \in Ids, calldata[id] # NoCalldata
    PROVE  calldata[id] = Right(id) /\ calldata'[id] = calldata[id]
<1>1. calldata[id] = Right(id)
  BY DEF EntriesInv, FilesInv
<1>2. calldata'[id] \in {NoCalldata, Right(id)}
  <2>1. NoCalldata' = NoCalldata /\ Right(id)' = Right(id)
    BY RightFixed DEF NoCalldata
  <2> QED BY <2>1 DEF EntriesInv, FilesInv
<1>3. calldata'[id] # NoCalldata
  <2>1. CASE UNCHANGED calldata
    BY <2>1
  <2>2. ASSUME NEW w \in Ids, WriteCalldata(w) PROVE calldata'[id] # NoCalldata
    <3>1. calldata' = [calldata EXCEPT ![w] = CreationOf(w)]
      BY <2>2 DEF WriteCalldata
    <3>2. calldata'[id] = calldata[id] \/ calldata'[id] = CreationOf(id)
      BY <3>1 DEF EntriesInv, FilesInv
    <3>3. CreationOf(id).code # "" /\ NoCalldata.code = ""
      BY CodeOfFacts DEF CreationOf, NoCalldata
    <3> QED BY <3>2, <3>3
  <2> QED BY <2>1, <2>2, FilesMove
<1> QED BY <1>1, <1>2, <1>3

Creations ==
    /\ \A id \in factory : CreationAt(PredictedAddress(id)) = calldata[id]
    /\ \A n \in 1 .. mined :
          sent[n].do = "create" => CreationAt(AddressOf(n)) = sent[n].creation
    /\ \A a : \/ \E id \in factory : a = PredictedAddress(id)
              \/ \E n \in 1 .. mined : a = AddressOf(n) /\ sent[n].do = "create"
              \/ CreationAt(a) = NoCalldata

LEMMA Addresses ==
    /\ \A x, y : PredictedAddress(x) # AddressOf(y)
    /\ \A x, y : PredictedAddress(x) = PredictedAddress(y) => x = y
    /\ \A x, y : AddressOf(x) = AddressOf(y) => x = y
    /\ \A x : AddressOf(x).nonce = x
<1>1. ASSUME NEW x, NEW y PROVE PredictedAddress(x) # AddressOf(y)
  <2>1. DOMAIN [salt |-> x] = {"salt"} /\ DOMAIN [nonce |-> y] = {"nonce"}
    OBVIOUS
  <2> QED BY <2>1 DEF PredictedAddress, AddressOf
<1>2. ASSUME NEW x PROVE PredictedAddress(x).salt = x /\ AddressOf(x).nonce = x
  BY DEF PredictedAddress, AddressOf
<1> QED BY <1>1, <1>2

(* CreationAt finds what the factory made of the calldata, and what a mined  *)
(* transaction has created.                                                  *)
LEMMA CreationsFound == Creations
<1>1. ASSUME NEW id \in factory PROVE CreationAt(PredictedAddress(id)) = calldata[id]
  <2> DEFINE a == PredictedAddress(id)
             c == CHOOSE x \in factory : a = PredictedAddress(x)
  <2>1. \E x \in factory : a = PredictedAddress(x)
    OBVIOUS
  <2>2. c \in factory /\ a = PredictedAddress(c)
    BY <2>1
  <2>3. c = id
    BY <2>2, Addresses
  <2>4. CreationAt(a) = calldata[c]
    BY <2>1 DEF CreationAt
  <2> QED BY <2>3, <2>4
<1>2. ASSUME NEW n \in 1 .. mined, sent[n].do = "create"
      PROVE  CreationAt(AddressOf(n)) = sent[n].creation
  <2> DEFINE a == AddressOf(n)
  <2>1. ~\E x \in factory : a = PredictedAddress(x)
    BY Addresses
  <2>2. \E x \in 1 .. mined : a = AddressOf(x) /\ sent[x].do = "create"
    BY <1>2
  <2>3. CreationAt(a) = sent[a.nonce].creation
    BY <2>1, <2>2 DEF CreationAt
  <2>4. a.nonce = n
    BY Addresses
  <2> QED BY <2>3, <2>4
<1>3. ASSUME NEW a, ~\E id \in factory : a = PredictedAddress(id),
             ~\E n \in 1 .. mined : a = AddressOf(n) /\ sent[n].do = "create"
      PROVE  CreationAt(a) = NoCalldata
  BY <1>3 DEF CreationAt
<1> QED BY <1>1, <1>2, <1>3 DEF Creations

LEMMA CreationsFoundNext == Creations'
  BY CreationsFound, PTL

NothingAtZero == CodeAt(NoContract) = ""

LEMMA NoCodeAtZero == NothingAtZero
<1>1. NoContract = AddressOf(0)
  BY DEF NoContract, AddressOf
<1>2. ~\E id \in factory : NoContract = PredictedAddress(id)
  BY <1>1, Addresses
<1>3. ~\E n \in 1 .. mined : NoContract = AddressOf(n) /\ sent[n].do = "create"
  <2>1. ASSUME NEW n \in 1 .. mined, NoContract = AddressOf(n) PROVE FALSE
    <3>1. n = 0
      BY <1>1, <2>1, Addresses
    <3> QED BY <3>1
  <2> QED BY <2>1
<1>4. CreationAt(NoContract) = NoCalldata
  BY <1>2, <1>3, CreationsFound DEF Creations
<1>5. NoCalldata.code = ""
  BY DEF NoCalldata
<1> QED BY <1>4, <1>5 DEF CodeAt, NothingAtZero

LEMMA NoCodeAtZeroNext == NothingAtZero'
  BY NoCodeAtZero, PTL

\* What the factory was handed is calldata somebody has exported.
FactoryInv ==
    /\ factory \subseteq Ids
    /\ \A id \in factory : calldata[id] # NoCalldata

(* What is mined and what the factory has created is there for good.         *)
LEMMA ChainGrows ==
    ASSUME EntriesInv, [Next]_vars
    PROVE  /\ \A n \in 1 .. mined : n \in 1 .. mined' /\ sent'[n] = sent[n]
           /\ \/ factory' = factory
              \/ \E id \in Ids : factory' = factory \cup {id} /\ calldata[id] # NoCalldata
<1> DEFINE Goal == /\ \A n \in 1 .. mined : n \in 1 .. mined' /\ sent'[n] = sent[n]
                   /\ \/ factory' = factory
                      \/ \E id \in Ids : factory' = factory \cup {id} /\ calldata[id] # NoCalldata
<1>1. Len(sent) \in Nat /\ mined \in 0 .. Len(sent)
  BY SentFacts
<1>2. CASE UNCHANGED chainVars
  BY <1>2 DEF chainVars
<1>3. ASSUME NEW w \in Ids, SendCalldata(w) \/ CreateContract(w) \/ CallProxy(w)
      PROVE  Goal
  <2>1. PICK do, tx :
            do \in Sending /\ UNCHANGED <<mined, factory>> /\ sent' = Append(sent, tx)
    BY <1>3, SendingMoves
  <2>2. \A n \in 1 .. Len(sent) : sent'[n] = sent[n]
    BY <2>1, SentFacts
  <2> QED BY <1>1, <2>1, <2>2
<1>4. CASE ChainStep
  <2>1. \A n \in 1 .. mined : n \in 1 .. mined' /\ sent'[n] = sent[n]
    BY <1>4, ChainStepFrame
  <2>2. \/ factory' = factory
        \/ \E id \in Ids : factory' = factory \cup {id} /\ calldata[id] # NoCalldata
    BY <1>4 DEF ChainStep, Mine, LoseMempool, FactoryDeploys, Use
  <2> QED BY <2>1, <2>2
<1>5. ASSUME \/ \E t \in Tasks : Start(t)
             \/ \E how \in {"finished", "failed", "killed"} : Ending(how)
             \/ \E do, x : Passing(do, x)
             \/ network = "oasys" /\ LeaveOasys
             \/ \E w \in Ids : RegisterContract(w)
             \/ Resting
      PROVE  UNCHANGED chainVars
  BY <1>5 DEF Start, Ending, EndsAs, Passing, LeaveOasys, RegisterContract, Resting
<1> QED BY <1>2, <1>3, <1>4, <1>5, Moves

LEMMA FactoryStep ==
    ASSUME EntriesInv, EntriesInv', FactoryInv, [Next]_vars
    PROVE  FactoryInv'
<1>1. ASSUME NEW id \in Ids, calldata[id] # NoCalldata PROVE calldata'[id] # NoCalldata
  BY <1>1, CalldataStays
<1>2. factory' \subseteq Ids /\ \A id \in factory' : calldata[id] # NoCalldata
  BY ChainGrows DEF FactoryInv
<1> QED BY <1>1, <1>2 DEF FactoryInv, NoCalldata

(* Code is never replaced.                                                   *)
LEMMA CodeStays ==
    ASSUME EntriesInv, EntriesInv', FactoryInv, [Next]_vars, NEW a, CodeAt(a) # ""
    PROVE  CreationAt(a)' = CreationAt(a) /\ CodeAt(a)' = CodeAt(a)
<1>1. CASE \E id \in factory : a = PredictedAddress(id)
  <2>1. PICK id \in factory : a = PredictedAddress(id)
    BY <1>1
  <2>2. id \in factory' /\ id \in Ids /\ calldata'[id] = calldata[id]
    BY ChainGrows, CalldataStays DEF FactoryInv
  <2>3. CreationAt(PredictedAddress(id)) = calldata[id]
    BY CreationsFound DEF Creations
  <2>4. CreationAt(PredictedAddress(id))' = calldata'[id]
    BY <2>2, CreationsFoundNext DEF Creations
  <2>5. CreationAt(a)' = CreationAt(PredictedAddress(id))'
    BY <2>1 DEF CreationAt, PredictedAddress
  <2> QED BY <2>1, <2>2, <2>3, <2>4, <2>5 DEF CodeAt
<1>2. CASE \E n \in 1 .. mined : a = AddressOf(n) /\ sent[n].do = "create"
  <2>1. PICK n \in 1 .. mined : a = AddressOf(n) /\ sent[n].do = "create"
    BY <1>2
  <2>2. n \in 1 .. mined' /\ sent'[n] = sent[n]
    BY ChainGrows
  <2>3. CreationAt(AddressOf(n)) = sent[n].creation
    BY <2>1, CreationsFound DEF Creations
  <2>4. CreationAt(AddressOf(n))' = sent'[n].creation
    BY <2>1, <2>2, CreationsFoundNext DEF Creations
  <2>5. CreationAt(a)' = CreationAt(AddressOf(n))'
    BY <2>1 DEF CreationAt, AddressOf
  <2> QED BY <2>1, <2>2, <2>3, <2>4, <2>5 DEF CodeAt
<1>3. CASE CreationAt(a) = NoCalldata
  <2>1. NoCalldata.code = ""
    BY DEF NoCalldata
  <2> QED BY <1>3, <2>1 DEF CodeAt
<1> QED BY <1>1, <1>2, <1>3, CreationsFound DEF Creations

-----------------------------------------------------------------------------
(* What is sent *)

\* A creation that does not revert, or the call of an initialiser that one of
\* the tasks makes.
Sendable(tx) ==
    \/ \E c : /\ tx = [do |-> "create", creation |-> c]
              /\ c.code = "StakedOas" => Admin # ZERO_ADDRESS
    \/ \E id \in Callable : \E to, logic :
          tx = [do |-> IF id = "StakedOas" THEN "initialize" ELSE "upgradeToAndCall",
                to |-> to, logic |-> logic, data |-> InitializeData(InitializerArity(id))]

TransactionInv == \A n \in 1 .. Len(sent) : \A tx : tx = sent[n] => Sendable(tx)

LEMMA SendingThrows ==
    /\ \A x : ~Throws(Step("send", x)) =>
          calldata[x] # NoCalldata /\ ~ConstructorReverts(calldata[x])
    /\ \A x : ~Throws(Step("call", x)) => Succeeds(CallOf(x))
<1>1. ASSUME NEW x, ~Throws(Step("send", x))
      PROVE  calldata[x] # NoCalldata /\ ~ConstructorReverts(calldata[x])
  <2>1. Step("send", x).do = "send" /\ Step("send", x).id = x
    BY DEF Step
  <2> QED BY <1>1, <2>1, Zenon DEF Throws
<1>2. ASSUME NEW x, ~Throws(Step("call", x)) PROVE Succeeds(CallOf(x))
  <2>1. Step("call", x).do = "call" /\ Step("call", x).id = x
    BY DEF Step
  <2> QED BY <1>2, <2>1, Zenon DEF Throws
<1> QED BY <1>1, <1>2

\* The implementation is the only contract whose constructor needs the admin.
LEMMA RightCode ==
    /\ \A id \in Ids : Right(id).code = "StakedOas" => id = "StakedOasImpl"
    /\ Right("StakedOasImpl").args[3] = Admin
<1>1. Ids = {"StakedOas", "StakedOasImpl", "StakedTokenV2Rev3", "StakedTokenV2Rev4"}
  BY DEF Ids, CodeOf
<1>2. Right("StakedOas").code # "StakedOas"
  BY DEF Right, CodeOf, PROXY
<1>3. Right("StakedTokenV2Rev3").code # "StakedOas" /\ Right("StakedTokenV2Rev4").code # "StakedOas"
  BY DEF Right, CodeOf
<1>4. Right("StakedOasImpl").args = StakingArgs
  BY DEF Right, GetDeployArgs
<1>5. StakingArgs[3] = Admin
  BY DEF StakingArgs
<1> QED BY <1>1, <1>2, <1>3, <1>4, <1>5

LEMMA CreatedRight ==
    \A id \in Ids : Right(id).code = "StakedOas" /\ ~ConstructorReverts(Right(id)) => Admin # ZERO_ADDRESS
  BY RightCode DEF ConstructorReverts

LEMMA SendableStays ==
    ASSUME network' = network, NEW tx, Sendable(tx)
    PROVE  Sendable(tx)'
<1>1. Admin' = Admin
  BY DEF Admin
<1>2. \A x : InitializeData(x)' = InitializeData(x)
  BY DEF InitializeData
<1> QED BY <1>1, <1>2 DEF Sendable

LEMMA SendsSendable ==
    ASSUME EntriesInv, ScheduleInv, NEW w \in Ids, NEW do \in Sending, NEW tx,
           todo # <<>>, Head(todo) = Step(do, w), ~Throws(Step(do, w)),
           do = "send" => tx = [do |-> "create", creation |-> calldata[w]],
           do = "create" => tx = [do |-> "create", creation |-> CreationOf(w)],
           do = "call" => tx = CallOf(w)
    PROVE  Sendable(tx)
<1>1. CASE do = "send"
  <2>1. calldata[w] # NoCalldata /\ ~ConstructorReverts(calldata[w])
    BY <1>1, SendingThrows
  <2>2. calldata[w] = Right(w)
    BY <2>1 DEF EntriesInv, FilesInv
  <2> QED BY <1>1, <2>1, <2>2, CreatedRight DEF Sendable
<1>2. Head(todo) \in Allowed /\ Head(todo).do = do /\ Head(todo).id = w
  <2>1. \A s \in Seq(Allowed) : s # <<>> => Head(s) \in Allowed
    OBVIOUS
  <2>2. Head(todo) \in Allowed
    BY <2>1 DEF ScheduleInv
  <2> QED BY <2>2 DEF Step
<1>3. CASE do = "create"
  <2>1. w \in Revisions
    BY <1>2, <1>3 DEF Allowed
  <2>2. CreationOf(w).code # "StakedOas"
    BY <2>1 DEF CreationOf, CodeOf, Revisions
  <2> QED BY <1>3, <2>2 DEF Sendable
<1>4. CASE do = "call"
  <2>1. w \in Callable
    BY <1>2, <1>4 DEF Allowed
  <2>2. CASE w = "StakedOas"
    <3>1. tx = [do |-> "initialize", to |-> db["StakedOas"], logic |-> db["StakedOasImpl"],
                data |-> InitializeData(InitializerArity(w))]
      BY <1>4, <2>2 DEF CallOf, InitializeCall
    <3> QED BY <2>1, <2>2, <3>1 DEF Sendable
  <2>3. CASE w # "StakedOas"
    <3>1. tx = [do |-> "upgradeToAndCall", to |-> db["StakedOas"], logic |-> db[w],
                data |-> InitializeData(InitializerArity(w))]
      BY <1>4, <2>3 DEF CallOf, UpgradeCall
    <3> QED BY <2>1, <2>3, <3>1 DEF Sendable
  <2> QED BY <2>2, <2>3
<1> QED BY <1>1, <1>3, <1>4 DEF Sending

LEMMA TransactionStep ==
    ASSUME EntriesInv, ScheduleInv, TransactionInv, [Next]_vars
    PROVE  TransactionInv'
<1>1. Len(sent) \in Nat /\ network' = network
  BY SentFacts, RightFixed
<1>2. ASSUME NEW n \in 1 .. Len(sent), sent'[n] = sent[n], NEW tx, tx = sent'[n]
      PROVE  Sendable(tx)'
  BY <1>1, <1>2, SendableStays DEF TransactionInv
<1>3. CASE sent' = sent
  BY <1>2, <1>3 DEF TransactionInv
<1>4. CASE ChainStep
  <2>1. Len(sent') \in Nat /\ Len(sent') <= Len(sent) /\ \A n \in 1 .. Len(sent') : sent'[n] = sent[n]
    BY <1>4, ChainStepFrame
  <2> QED BY <1>1, <1>2, <2>1 DEF TransactionInv
<1>5. ASSUME NEW w \in Ids, SendCalldata(w) \/ CreateContract(w) \/ CallProxy(w)
      PROVE  TransactionInv'
  <2>1. PICK do, tx :
          /\ do \in Sending
          /\ todo # <<>> /\ Head(todo) = Step(do, w) /\ ~Throws(Step(do, w))
          /\ sent' = Append(sent, tx)
          /\ do = "send" => tx = [do |-> "create", creation |-> calldata[w]]
          /\ do = "create" => tx = [do |-> "create", creation |-> CreationOf(w)]
          /\ do = "call" => tx = CallOf(w)
    BY <1>5, SendingMoves
  <2>2. Sendable(tx)
    BY <2>1, SendsSendable
  <2>3. Sendable(tx)'
    BY <1>1, <2>2, SendableStays
  <2>4. /\ Len(sent') = Len(sent) + 1 /\ sent'[Len(sent) + 1] = tx
        /\ \A n \in 1 .. Len(sent) : sent'[n] = sent[n]
    BY <2>1, SentFacts
  <2>5. ASSUME NEW n \in 1 .. Len(sent'), NEW x, x = sent'[n] PROVE Sendable(x)'
    <3>1. CASE n = Len(sent) + 1
      BY <2>3, <2>4, <2>5, <3>1
    <3>2. CASE n # Len(sent) + 1
      BY <1>1, <1>2, <2>4, <2>5, <3>2
    <3> QED BY <3>1, <3>2
  <2> QED BY <2>5 DEF TransactionInv
<1>6. ASSUME \/ \E t \in Tasks : Start(t)
             \/ \E how \in {"finished", "failed", "killed"} : Ending(how)
             \/ \E do, x : Passing(do, x)
             \/ network = "oasys" /\ LeaveOasys
             \/ \E w \in Ids : RegisterContract(w)
             \/ Resting
      PROVE  sent' = sent
  BY <1>6 DEF Start, Ending, EndsAs, Passing, LeaveOasys, RegisterContract, Resting, chainVars
<1> QED BY <1>3, <1>4, <1>5, <1>6, Moves

-----------------------------------------------------------------------------
(* The proxies *)

Codes == {"StakedOas", "StakedTokenV2Rev3", "StakedTokenV2Rev4"}

LEMMA AdminSet ==
    ASSUME EntriesInv, TransactionInv, NEW a, CodeAt(a) = "StakedOas"
    PROVE  Admin # ZERO_ADDRESS
<1>1. CASE factory # {}
  <2>1. network = "oasys"
    BY <1>1 DEF EntriesInv, ChainInv
  <2>2. Admin = "InitialAdmin"
    BY <2>1 DEF Admin, GetAdminPerNetwork, GetParamPerNetwork
  <2> QED BY <2>2 DEF ZERO_ADDRESS
<1>2. CASE factory = {}
  <2>1. CreationAt(a) # NoCalldata
    <3>1. NoCalldata.code # "StakedOas"
      BY DEF NoCalldata
    <3> QED BY <3>1 DEF CodeAt
  <2>2. PICK n \in 1 .. mined : a = AddressOf(n) /\ sent[n].do = "create"
    BY <1>2, <2>1, CreationsFound DEF Creations
  <2>3. CreationAt(a) = sent[n].creation
    BY <2>2, CreationsFound DEF Creations
  <2>4. Sendable(sent[n])
    BY <2>2, SentFacts DEF TransactionInv
  <2>5. PICK c : sent[n] = [do |-> "create", creation |-> c]
                 /\ (c.code = "StakedOas" => Admin # ZERO_ADDRESS)
    <3>1. ASSUME NEW id, NEW to, NEW logic, NEW data,
                 sent[n] = [do |-> IF id = "StakedOas" THEN "initialize" ELSE "upgradeToAndCall",
                            to |-> to, logic |-> logic, data |-> data]
          PROVE  FALSE
      <4>1. sent[n].do = IF id = "StakedOas" THEN "initialize" ELSE "upgradeToAndCall"
        BY <3>1
      <4> QED BY <2>2, <4>1
    <3> QED BY <2>4, <3>1 DEF Sendable
  <2> QED BY <2>3, <2>5 DEF CodeAt
<1> QED BY <1>1, <1>2

LEMMA Arities ==
    /\ InitializerArity("StakedOas") = 4 /\ InitializerArity("StakedTokenV2Rev3") = 0
    /\ InitializerArity("StakedTokenV2Rev4") = 3 /\ InitializerArity("StakedOasImpl") = 99
    /\ \A code : code \notin Codes => InitializerArity(code) = 99 /\ Revision(code) = 0
    /\ Revision("StakedOas") = 1 /\ Revision("StakedTokenV2Rev3") = 3
    /\ Revision("StakedTokenV2Rev4") = 4
  BY DEF InitializerArity, Revision, Codes

(* An initialiser runs the revision it is of.                                *)
LEMMA WhatIsCalled ==
    ASSUME NEW id \in Callable, NEW code,
           InitializerArity(id) = InitializerArity(code), Revision(code) # 0
    PROVE  /\ code \in Codes
           /\ id = "StakedOas" <=> code = "StakedOas"
           /\ code = "StakedTokenV2Rev3" => "initialize-StakedTokenV2Rev3" \in Tasks
<1>1. id \in {"StakedOas", "StakedOasImpl", "StakedTokenV2Rev3", "StakedTokenV2Rev4"}
  BY DEF Callable, Ids, CodeOf
<1>2. code \in Codes
  BY Arities
<1>3. "initialize-StakedTokenV2Rev3" \notin Tasks => id \in {"StakedOas", "StakedTokenV2Rev4"}
  BY DEF Callable
<1>4. CASE code = "StakedOas"
  BY <1>1, <1>4, Arities
<1>5. CASE code = "StakedTokenV2Rev3"
  BY <1>1, <1>3, <1>5, Arities
<1>6. CASE code = "StakedTokenV2Rev4"
  BY <1>1, <1>6, Arities
<1> QED BY <1>2, <1>4, <1>5, <1>6 DEF Codes

\* What a proxy that runs code c keeps in its slots.  The first implementation
\* leaves those behind its own untouched.
Kept(c, s) ==
    /\ s = [k \in Slots |-> s[k]]
    /\ c # "StakedTokenV2Rev3" =>
          /\ s[1] = GetTokenPerNetwork(network) /\ s[2] = GetTokenPerNetwork(network)
          /\ s[3] = GetIncentivesVaultPerNetwork(network)
    /\ c = "StakedOas" =>
          /\ s[4] \in {"empty", "stakerRewardsToClaim"}
          /\ s[5] \in {"empty", "stakersCooldowns"}
          /\ \A k \in 6 .. 10 : s[k] = "empty"

Upgradeable(p, i, c, s) ==
    /\ c \in Codes /\ Admin # ZERO_ADDRESS
    /\ c = "StakedTokenV2Rev3" => "initialize-StakedTokenV2Rev3" \in Tasks
    /\ p = [implementation |-> i, admin |-> Admin,
            lastInitializedRevision |-> Revision(c), slots |-> s]
    /\ Kept(c, s)

\* A proxy was never initialised, or was so with the admin of the network.
Sound(p) ==
    \/ p = FreshProxy
    \/ \E i, c, s : CodeAt(i) = c /\ Upgradeable(p, i, c, s)

ProxiesInv ==
    /\ proxies = [a \in DOMAIN proxies |-> proxies[a]]
    /\ \A a \in DOMAIN proxies : \A p : p = proxies[a] => CodeAt(a) = PROXY /\ Sound(p)

LEMMA ProxyAtSound == ASSUME ProxiesInv, NEW a PROVE Sound(ProxyAt(a))
  BY DEF ProxiesInv, ProxyAt, Sound

LEMMA SignerFacts == Signer # ZERO_ADDRESS /\ (Admin # ZERO_ADDRESS /\ Admin # "" => Signer = Admin)
  BY DEF Signer, NotFalsyOrZeroAddress, ZERO_ADDRESS

LEMMA AdminNamed == network \in LiveNetworks => Admin # ""
<1> SUFFICES ASSUME network \in LiveNetworks PROVE Admin # ""
  OBVIOUS
<1>1. Admin \in {ZERO_ADDRESS, "InitialAdmin"}
  BY DEF Admin, GetAdminPerNetwork, GetParamPerNetwork, LiveNetworks
<1>2. ZERO_ADDRESS # "" /\ "InitialAdmin" # ""
  BY Zenon DEF ZERO_ADDRESS
<1> QED BY <1>1, <1>2

LEMMA FreshFacts ==
    /\ FreshProxy.implementation = NoContract /\ FreshProxy.admin = ZERO_ADDRESS
    /\ FreshProxy.lastInitializedRevision = 0 /\ FreshProxy.slots = [i \in Slots |-> "empty"]
  BY DEF FreshProxy

LEMMA SoundStays ==
    ASSUME EntriesInv, EntriesInv', FactoryInv, [Next]_vars, NEW p, Sound(p)
    PROVE  Sound(p)'
<1>1. network' = network
  BY RightFixed
<1>2. CASE p = FreshProxy
  BY <1>2 DEF Sound, FreshProxy
<1>3. CASE \E i, c, s : CodeAt(i) = c /\ Upgradeable(p, i, c, s)
  <2>1. PICK i, c, s : CodeAt(i) = c /\ Upgradeable(p, i, c, s)
    BY <1>3
  <2>2. c # ""
    BY <2>1, Zenon DEF Upgradeable, Codes
  <2>3. CodeAt(i)' = c
    BY <2>1, <2>2, CodeStays
  <2>4. Kept(c, s)'
    BY <1>1, <2>1 DEF Upgradeable, Kept
  <2>5. Admin' = Admin
    BY <1>1 DEF Admin
  <2>6. Upgradeable(p, i, c, s)'
    BY <2>1, <2>4, <2>5 DEF Upgradeable
  <2> QED BY <2>3, <2>6 DEF Sound
<1> QED BY <1>2, <1>3 DEF Sound

LEMMA Joined ==
    \A S : \A s \in Seq(S), t \in Seq(S) :
       /\ s \o t \in Seq(S) /\ Len(s \o t) = Len(s) + Len(t)
       /\ \A i \in 1 .. Len(s) : (s \o t)[i] = s[i]
       /\ \A i \in 1 .. Len(t) : (s \o t)[Len(s) + i] = t[i]
  OBVIOUS

LEMMA ShortTuples ==
    \A a, b, c, d, e, R :
       /\ {a, b} \subseteq R => <<a, b>> \in Seq(R) /\ Len(<<a, b>>) = 2
       /\ {a, b, c} \subseteq R => <<a, b, c>> \in Seq(R) /\ Len(<<a, b, c>>) = 3
       /\ {a, b, c, d, e} \subseteq R =>
             <<a, b, c, d, e>> \in Seq(R) /\ Len(<<a, b, c, d, e>>) = 5
  OBVIOUS

LEMMA Layouts ==
    /\ DOMAIN StorageLayout("StakedOas") = 1 .. 5 /\ DOMAIN StorageLayout("StakedTokenV2Rev4") = 1 .. 10
    /\ \A code \in {"StakedOas", "StakedTokenV2Rev4"} :
          /\ \A i \in 1 .. 3 : StorageLayout(code)[i] = TokenVariables[i]
          /\ StorageLayout(code)[4] = StakingVariables[1]
          /\ StorageLayout(code)[5] = StakingVariables[2]
    /\ \A i \in 1 .. 5 : StorageLayout("StakedTokenV2Rev4")[5 + i] = PowerVariables[i]
<1> DEFINE T == TokenVariables
           U == StakingVariables
           V == PowerVariables
           S == {T[1], T[2], T[3], U[1], U[2], V[1], V[2], V[3], V[4], V[5]}
           W == T \o U
           X == W \o V
<1>1. T = <<T[1], T[2], T[3]>> /\ U = <<U[1], U[2]>> /\ V = <<V[1], V[2], V[3], V[4], V[5]>>
  BY DEF TokenVariables, StakingVariables, PowerVariables
<1>2. StorageLayout("StakedOas") = W
  BY DEF StorageLayout
<1>3. StorageLayout("StakedTokenV2Rev4") = X
  BY DEF StorageLayout
<1> HIDE DEF T, U, V
<1>4. /\ {T[1], T[2], T[3]} \subseteq S /\ {U[1], U[2]} \subseteq S
      /\ {V[1], V[2], V[3], V[4], V[5]} \subseteq S
  OBVIOUS
<1> HIDE DEF S
<1>5. T \in Seq(S) /\ Len(T) = 3 /\ U \in Seq(S) /\ Len(U) = 2
  <2>1. <<T[1], T[2], T[3]>> \in Seq(S) /\ Len(<<T[1], T[2], T[3]>>) = 3
    BY <1>4, ShortTuples, Zenon
  <2>2. <<U[1], U[2]>> \in Seq(S) /\ Len(<<U[1], U[2]>>) = 2
    BY <1>4, ShortTuples, Zenon
  <2> QED BY <1>1, <2>1, <2>2, Zenon
<1>6. V \in Seq(S) /\ Len(V) = 5
  <2>1. /\ <<V[1], V[2], V[3], V[4], V[5]>> \in Seq(S)
        /\ Len(<<V[1], V[2], V[3], V[4], V[5]>>) = 5
    BY <1>4, ShortTuples, Zenon
  <2> QED BY <1>1, <2>1, Zenon
<1>w. W = T \o U /\ X = W \o V
  OBVIOUS
<1> HIDE DEF W, X
<1>j. \A s \in Seq(S), t \in Seq(S) :
          /\ s \o t \in Seq(S) /\ Len(s \o t) = Len(s) + Len(t)
          /\ \A i \in 1 .. Len(s) : (s \o t)[i] = s[i]
          /\ \A i \in 1 .. Len(t) : (s \o t)[Len(s) + i] = t[i]
  BY Joined
<1>7. /\ W \in Seq(S) /\ Len(W) = Len(T) + Len(U)
      /\ \A i \in 1 .. Len(T) : W[i] = T[i]
      /\ \A i \in 1 .. Len(U) : W[Len(T) + i] = U[i]
  BY <1>5, <1>j, <1>w, Zenon
<1>8. Len(W) = 5 /\ DOMAIN W = 1 .. 5
  BY <1>5, <1>7
<1>9. /\ X \in Seq(S) /\ Len(X) = Len(W) + Len(V)
      /\ \A i \in 1 .. Len(W) : X[i] = W[i]
      /\ \A i \in 1 .. Len(V) : X[Len(W) + i] = V[i]
  BY <1>6, <1>7, <1>j, <1>w, Zenon
<1>10. /\ DOMAIN X = 1 .. 10 /\ \A i \in 1 .. 5 : X[i] = W[i]
       /\ \A i \in 1 .. 5 : X[5 + i] = V[i]
  BY <1>6, <1>8, <1>9
<1>11. (\A i \in 1 .. 3 : W[i] = T[i]) /\ W[4] = U[1] /\ W[5] = U[2]
  <2>1. \A i \in 1 .. 2 : W[3 + i] = U[i]
    BY <1>5, <1>7
  <2>2. W[3 + 1] = U[1] /\ W[3 + 2] = U[2]
    BY <2>1
  <2> QED BY <1>5, <1>7, <2>2
<1>12. (\A i \in 1 .. 3 : X[i] = T[i]) /\ X[4] = U[1] /\ X[5] = U[2]
  BY <1>10, <1>11
<1> QED BY <1>2, <1>3, <1>8, <1>10, <1>11, <1>12 DEF T, U, V

(* What the holders write stays in the mappings of what runs.                *)
LEMMA UseKeeps ==
    ASSUME NEW c \in Codes, NEW p, NEW s, Kept(c, s), p.slots = s
    PROVE  \E t : UseStorage(p, c) = [p EXCEPT !.slots = t] /\ Kept(c, t)
<1> DEFINE tokens == {"STAKED_TOKEN", "REWARD_TOKEN", "REWARDS_VAULT"}
           layout == StorageLayout(c)
           t == [i \in Slots |->
                   IF i \in DOMAIN layout /\ layout[i] \notin tokens THEN layout[i] ELSE s[i]]
<1>1. UseStorage(p, c) = [p EXCEPT !.slots = t]
  BY DEF UseStorage
<1>2. t = [k \in Slots |-> t[k]]
  OBVIOUS
<1>3. CASE c = "StakedOas"
  <2>1. DOMAIN layout = 1 .. 5
    BY <1>3, Layouts
  <2>2. /\ layout[1] = "STAKED_TOKEN" /\ layout[2] = "REWARD_TOKEN" /\ layout[3] = "REWARDS_VAULT"
        /\ layout[4] = "stakerRewardsToClaim" /\ layout[5] = "stakersCooldowns"
    BY <1>3, Layouts DEF TokenVariables, StakingVariables
  <2> HIDE DEF layout
  <2>3. t[1] = s[1] /\ t[2] = s[2] /\ t[3] = s[3]
    BY <2>2 DEF Slots
  <2>4. t[4] = "stakerRewardsToClaim" /\ t[5] = "stakersCooldowns"
    BY <2>1, <2>2 DEF Slots
  <2>5. \A k \in 6 .. 10 : t[k] = s[k]
    BY <2>1 DEF Slots
  <2> HIDE DEF t
  <2>6. Kept(c, t)
    BY <1>2, <1>3, <2>3, <2>4, <2>5 DEF Kept
  <2> QED BY <1>1, <2>6
<1>4. CASE c = "StakedTokenV2Rev4"
  <2>2. layout[1] = "STAKED_TOKEN" /\ layout[2] = "REWARD_TOKEN" /\ layout[3] = "REWARDS_VAULT"
    BY <1>4, Layouts DEF TokenVariables
  <2> HIDE DEF layout
  <2>3. t[1] = s[1] /\ t[2] = s[2] /\ t[3] = s[3]
    BY <2>2 DEF Slots
  <2> HIDE DEF t
  <2>4. Kept(c, t)
    BY <1>2, <1>4, <2>3 DEF Kept
  <2> QED BY <1>1, <2>4
<1>5. CASE c = "StakedTokenV2Rev3"
  <2> HIDE DEF t
  <2> QED BY <1>1, <1>2, <1>5 DEF Kept
<1> QED BY <1>3, <1>4, <1>5 DEF Codes

LEMMA UseSound ==
    ASSUME NEW p, Sound(p), UseStorage(p, CodeAt(p.implementation)) # p
    PROVE  /\ Sound(UseStorage(p, CodeAt(p.implementation)))
           /\ UseStorage(p, CodeAt(p.implementation)).implementation = p.implementation
<1>1. CASE p = FreshProxy
  <2>1. CodeAt(p.implementation) = ""
    BY <1>1, FreshFacts, NoCodeAtZero DEF NothingAtZero
  <2>2. StorageLayout("") = <<>>
    BY Zenon DEF StorageLayout
  <2>0. \A i : i \notin DOMAIN <<>>
    OBVIOUS
  <2>3. \A i : i \notin DOMAIN StorageLayout("")
    BY <2>0, <2>2, Zenon
  <2>4. UseStorage(p, "") = [p EXCEPT !.slots = [i \in Slots |-> p.slots[i]]]
    BY <2>3 DEF UseStorage
  <2>5. [i \in Slots |-> p.slots[i]] = p.slots
    BY <1>1, FreshFacts
  <2>6. UseStorage(p, "") = p
    BY <1>1, <2>4, <2>5 DEF FreshProxy
  <2> QED BY <2>1, <2>6
<1>2. ASSUME NEW i, NEW c, NEW s, CodeAt(i) = c, Upgradeable(p, i, c, s)
      PROVE  /\ Sound(UseStorage(p, CodeAt(p.implementation)))
             /\ UseStorage(p, CodeAt(p.implementation)).implementation = p.implementation
  <2>1. p.implementation = i /\ p.slots = s /\ c \in Codes /\ Kept(c, s)
    BY <1>2 DEF Upgradeable
  <2>2. PICK t : UseStorage(p, c) = [p EXCEPT !.slots = t] /\ Kept(c, t)
    BY <2>1, UseKeeps
  <2>3. UseStorage(p, c) = [implementation |-> i, admin |-> Admin,
                            lastInitializedRevision |-> Revision(c), slots |-> t]
    BY <1>2, <2>2 DEF Upgradeable
  <2>4. Upgradeable(UseStorage(p, c), i, c, t)
    BY <1>2, <2>2, <2>3 DEF Upgradeable
  <2>5. Sound(UseStorage(p, c))
    BY <1>2, <2>4 DEF Sound
  <2> QED BY <1>2, <2>1, <2>3, <2>5
<1> QED BY <1>1, <1>2 DEF Sound

\* What an initialiser that takes the token and the vault writes.
TokensWritten(e, x, y) == [e EXCEPT ![1] = x, ![2] = x, ![3] = y]

LEMMA FirstSlots ==
    ASSUME NEW e, NEW s, NEW x, NEW y, e = [k \in Slots |-> e[k]], s = TokensWritten(e, x, y)
    PROVE  /\ s = [k \in Slots |-> s[k]]
           /\ s[1] = x /\ s[2] = x /\ s[3] = y
           /\ \A k \in 4 .. 10 : s[k] = e[k]
<1>1. 1 \in Slots /\ 2 \in Slots /\ 3 \in Slots /\ 4 .. 10 \subseteq Slots
      /\ \A k \in 4 .. 10 : k # 1 /\ k # 2 /\ k # 3
  BY DEF Slots
<1> DEFINE f == [k \in Slots |-> IF k = 3 THEN y ELSE IF k = 2 \/ k = 1 THEN x ELSE e[k]]
<1>2. DOMAIN e = Slots
  BY Zenon
<1>3. s = f
  BY <1>2 DEF TokensWritten
<1>4. s[1] = x /\ s[2] = x /\ s[3] = y /\ \A k \in 4 .. 10 : s[k] = e[k]
  BY <1>1, <1>3
<1>5. s = [k \in Slots |-> s[k]]
  BY <1>3
<1> QED BY <1>4, <1>5

(* A call that a task makes and the proxy takes leaves the proxy in order:   *)
(* it is initialised by its first implementation, upgraded by its admin to a *)
(* later revision, or left as it is.                                         *)
LEMMA CalledSound ==
    ASSUME EntriesInv, TransactionInv, ProxiesInv, network \in LiveNetworks,
           NEW id \in Callable, NEW to, NEW logic, NEW tx,
           tx = [do |-> IF id = "StakedOas" THEN "initialize" ELSE "upgradeToAndCall",
                 to |-> to, logic |-> logic, data |-> InitializeData(InitializerArity(id))],
           CodeAt(to) = PROXY, Succeeds(tx)
    PROVE  \/ /\ Called(tx) = ProxyAt(to) /\ Sound(ProxyAt(to))
           \/ \E c, s, k, t :
                 /\ c = CodeAt(logic) /\ Upgradeable(Called(tx), logic, c, s)
                 /\ \/ /\ ProxyAt(to) = FreshProxy /\ c = "StakedOas"
                       /\ \A i \in 4 .. 10 : s[i] = "empty"
                    \/ /\ Upgradeable(ProxyAt(to), ProxyAt(to).implementation, k, t)
                       /\ CodeAt(ProxyAt(to).implementation) = k
                       /\ Revision(c) > Revision(k)
                       /\ c \in Revisions
                       /\ \A i \in 4 .. 10 : s[i] = t[i]
<1> DEFINE p == ProxyAt(to)
           c == CodeAt(logic)
           data == InitializeData(InitializerArity(id))
<1>1. Sound(p)
  BY ProxyAtSound
<1>2. /\ data.arity = InitializerArity(id) /\ data.token = GetTokenPerNetwork(network)
      /\ data.vault = GetIncentivesVaultPerNetwork(network)
  BY DEF InitializeData
<1>3. PROXY # ""
  BY DEF PROXY
<1>4. tx.to = to /\ tx.logic = logic /\ tx.data = data
  OBVIOUS
<1>5. tx.do = "initialize" <=> id = "StakedOas"
  OBVIOUS
<1> HIDE DEF p, c, data
<1>6. ASSUME CanRunInitializer(p, c, data), p.lastInitializedRevision \in Nat
      PROVE  /\ c \in Codes /\ (id = "StakedOas" <=> c = "StakedOas")
             /\ c = "StakedTokenV2Rev3" => "initialize-StakedTokenV2Rev3" \in Tasks
             /\ Revision(c) > p.lastInitializedRevision
  <2>1. InitializerArity(id) = InitializerArity(c) /\ Revision(c) > p.lastInitializedRevision
    BY <1>2, <1>6 DEF CanRunInitializer
  <2>2. Revision(c) # 0
    BY <1>6, <2>1
  <2> QED BY <2>1, <2>2, WhatIsCalled
<1>7. ASSUME p # FreshProxy
      PROVE  \E k, t : /\ CodeAt(p.implementation) = k /\ Upgradeable(p, p.implementation, k, t)
                       /\ p.implementation # NoContract
  <2>1. PICK i, k, t : CodeAt(i) = k /\ Upgradeable(p, i, k, t)
    BY <1>1, <1>7 DEF Sound
  <2>2. p.implementation = i /\ k \in Codes
    BY <2>1 DEF Upgradeable
  <2>3. k # ""
    BY <2>2, Zenon DEF Codes
  <2> QED BY <2>1, <2>2, <2>3, NoCodeAtZero DEF NothingAtZero
<1>8. CASE id = "StakedOas"
  <2>1. CanInitialize(p, c, data)
    <3>1. CodeAt(tx.to) # ""
      BY <1>3, <1>4
    <3>2. CanInitialize(ProxyAt(tx.to), CodeAt(tx.logic), tx.data)
      BY <1>5, <1>8, <3>1 DEF Succeeds
    <3> QED BY <1>4, <3>2 DEF p, c
  <2>2. p = FreshProxy
    BY <1>7, <2>1 DEF CanInitialize
  <2>3. c = "StakedOas"
    BY <1>6, <1>8, <2>1, <2>2, FreshFacts DEF CanInitialize
  <2>4. Called(tx) = Initialize(p, logic, c, Admin, data)
    BY <1>4, <1>5, <1>8 DEF Called, p, c
  <2> DEFINE s == [FreshProxy.slots EXCEPT ![1] = data.token, ![2] = data.token, ![3] = data.vault]
  <2>5. Called(tx) = [implementation |-> logic, admin |-> Admin,
                      lastInitializedRevision |-> Revision(c), slots |-> s]
    <3>1. RunInitializer(p, c, data) = [p EXCEPT !.lastInitializedRevision = Revision(c), !.slots = s]
      BY <2>2, <2>3 DEF RunInitializer
    <3>2. p = [implementation |-> NoContract, admin |-> ZERO_ADDRESS,
               lastInitializedRevision |-> 0, slots |-> FreshProxy.slots]
      BY <2>2 DEF FreshProxy
    <3> HIDE DEF s
    <3> QED BY <2>4, <3>1, <3>2 DEF Initialize
  <2>6. /\ s = [k \in Slots |-> s[k]]
        /\ s[1] = data.token /\ s[2] = data.token /\ s[3] = data.vault
        /\ \A k \in 4 .. 10 : s[k] = "empty"
    <3> DEFINE e == FreshProxy.slots
    <3>0. e = [k \in Slots |-> e[k]]
      BY FreshFacts
    <3>1. \A k \in Slots : e[k] = "empty"
      BY FreshFacts
    <3>2. s = TokensWritten(e, data.token, data.vault)
      BY DEF TokensWritten
    <3> HIDE DEF e, s
    <3>3. /\ s = [k \in Slots |-> s[k]]
          /\ s[1] = data.token /\ s[2] = data.token /\ s[3] = data.vault
          /\ \A k \in 4 .. 10 : s[k] = e[k]
      BY <3>0, <3>2, FirstSlots
    <3> QED BY <3>1, <3>3 DEF Slots
  <2> HIDE DEF s
  <2>7. Kept(c, s)
    BY <1>2, <2>3, <2>6 DEF Kept
  <2>8. Admin # ZERO_ADDRESS
    BY <2>3, AdminSet DEF c
  <2>9. Upgradeable(Called(tx), logic, c, s)
    BY <2>3, <2>5, <2>7, <2>8 DEF Upgradeable, Codes
  <2> QED BY <2>2, <2>3, <2>6, <2>9 DEF p, c
<1>9. CASE id # "StakedOas"
  <2>1. CanUpgradeToAndCall(p, Signer, c, data)
    <3>1. CodeAt(tx.to) # ""
      BY <1>3, <1>4
    <3>2. CanUpgradeToAndCall(ProxyAt(tx.to), Signer, CodeAt(tx.logic), tx.data)
      BY <1>5, <1>9, <3>1 DEF Succeeds
    <3> QED BY <1>4, <3>2 DEF p, c
  <2>2. Called(tx) = UpgradeToAndCall(p, Signer, logic, c, data)
    BY <1>4, <1>5, <1>9 DEF Called, p, c
  <2>3. CASE Signer # p.admin
    BY <1>1, <2>2, <2>3 DEF UpgradeToAndCall, p
  <2>4. CASE Signer = p.admin
    <3>1. p # FreshProxy
      BY <2>4, SignerFacts, FreshFacts
    <3>2. PICK k, t : CodeAt(p.implementation) = k /\ Upgradeable(p, p.implementation, k, t)
      BY <1>7, <3>1
    <3>3. p.lastInitializedRevision = Revision(k) /\ Revision(k) \in Nat /\ Kept(k, t) /\ k \in Codes
      <4>1. p.lastInitializedRevision = Revision(k) /\ k \in Codes /\ Kept(k, t)
        BY <3>2 DEF Upgradeable
      <4> QED BY <4>1, Arities DEF Codes
    <3>4. CanRunInitializer(p, c, data)
      BY <2>1, <2>4 DEF CanUpgradeToAndCall
    <3>5. /\ c \in Codes /\ c # "StakedOas" /\ Revision(c) > Revision(k)
          /\ c = "StakedTokenV2Rev3" => "initialize-StakedTokenV2Rev3" \in Tasks
      BY <1>6, <1>9, <3>3, <3>4
    <3> DEFINE s == IF c = "StakedTokenV2Rev3" THEN t
                    ELSE [t EXCEPT ![1] = data.token, ![2] = data.token, ![3] = data.vault]
    <3>6. p = [implementation |-> p.implementation, admin |-> Admin,
               lastInitializedRevision |-> Revision(k), slots |-> t]
      BY <3>2 DEF Upgradeable
    <3>7. Called(tx) = [implementation |-> logic, admin |-> Admin,
                        lastInitializedRevision |-> Revision(c), slots |-> s]
      <4>1. RunInitializer(p, c, data) = [p EXCEPT !.lastInitializedRevision = Revision(c), !.slots = s]
        <5>1. p.slots = t
          BY <3>6
        <5> QED BY <5>1 DEF RunInitializer
      <4> HIDE DEF s
      <4>2. PICK i : p = [implementation |-> i, admin |-> Admin,
                          lastInitializedRevision |-> Revision(k), slots |-> t]
        BY <3>6
      <4>3. Called(tx) = [RunInitializer(p, c, data) EXCEPT !.implementation = logic]
        BY <2>2, <2>4 DEF UpgradeToAndCall
      <4> QED BY <4>1, <4>2, <4>3
    <3>8. /\ s = [j \in Slots |-> s[j]]
          /\ c # "StakedTokenV2Rev3" =>
               s[1] = data.token /\ s[2] = data.token /\ s[3] = data.vault
          /\ \A j \in 4 .. 10 : s[j] = t[j]
      BY <3>3 DEF Kept, Slots
    <3> HIDE DEF s
    <3>10. Kept(c, s)
      BY <1>2, <3>5, <3>8 DEF Kept
    <3>11. Upgradeable(Called(tx), logic, c, s)
      BY <3>2, <3>5, <3>7, <3>10 DEF Upgradeable
    <3>12. c \in Revisions
      BY <3>5 DEF Codes, Revisions
    <3> QED BY <3>2, <3>5, <3>8, <3>11, <3>12 DEF p, c
  <2> QED BY <2>3, <2>4
<1> QED BY <1>8, <1>9

\* A sound proxy at the address of its code.
SoundAt(a, p) == CodeAt(a) = PROXY /\ Sound(p)

LEMMA SoundAtStays ==
    ASSUME EntriesInv, EntriesInv', FactoryInv, [Next]_vars, NEW a, NEW p, SoundAt(a, p)
    PROVE  SoundAt(a, p)'
<1>1. CodeAt(a) # ""
  BY DEF SoundAt, PROXY
<1>2. CodeAt(a)' = CodeAt(a)
  BY <1>1, CodeStays
<1>3. Sound(p)'
  BY SoundStays DEF SoundAt
<1> QED BY <1>2, <1>3 DEF SoundAt, PROXY

LEMMA ProxiesUnchanged ==
    ASSUME EntriesInv, EntriesInv', FactoryInv, ProxiesInv, [Next]_vars, proxies' = proxies
    PROVE  ProxiesInv'
<1>1. \A a \in DOMAIN proxies : \A p : p = proxies[a] => SoundAt(a, p)'
  BY SoundAtStays DEF ProxiesInv, SoundAt
<1> QED BY <1>1 DEF ProxiesInv, SoundAt

LEMMA UseSoundAt ==
    ASSUME ProxiesInv, NEW a \in DOMAIN proxies, Use(a)
    PROVE  /\ proxies' = [proxies EXCEPT ![a] = UseStorage(@, CodeAt(@.implementation))]
           /\ SoundAt(a, UseStorage(proxies[a], CodeAt(proxies[a].implementation)))
           /\ proxies'[a].implementation = proxies[a].implementation
<1> DEFINE p == proxies[a]
           q == UseStorage(p, CodeAt(p.implementation))
<1>1. proxies' = [proxies EXCEPT ![a] = q]
  BY DEF Use
<1>2. proxies' # proxies
  BY DEF Use
<1>3. SoundAt(a, p)
  BY DEF ProxiesInv, SoundAt
<1> HIDE DEF p, q
<1>4. q # p
  BY <1>1, <1>2 DEF ProxiesInv, p
<1>5. Sound(q) /\ q.implementation = p.implementation
  BY <1>3, <1>4, UseSound DEF SoundAt, q
<1>6. proxies'[a] = q
  BY <1>1 DEF ProxiesInv
<1> QED BY <1>1, <1>3, <1>5, <1>6 DEF SoundAt, p, q

LEMMA UseKeepsProxies ==
    ASSUME EntriesInv, EntriesInv', FactoryInv, ProxiesInv, [Next]_vars,
           NEW a \in DOMAIN proxies, Use(a)
    PROVE  ProxiesInv'
<1> DEFINE q == UseStorage(proxies[a], CodeAt(proxies[a].implementation))
<1>1. proxies' = [proxies EXCEPT ![a] = q] /\ SoundAt(a, q)
  BY UseSoundAt
<1> HIDE DEF q
<1>2. /\ DOMAIN proxies' = DOMAIN proxies /\ proxies'[a] = q
      /\ \A b \in DOMAIN proxies : b # a => proxies'[b] = proxies[b]
      /\ proxies' = [b \in DOMAIN proxies' |-> proxies'[b]]
  BY <1>1 DEF ProxiesInv
<1>3. ASSUME NEW b \in DOMAIN proxies', NEW p, p = proxies'[b] PROVE SoundAt(b, p)
  BY <1>1, <1>2, <1>3 DEF ProxiesInv, SoundAt
<1>4. ASSUME NEW b \in DOMAIN proxies', NEW p, p = proxies'[b] PROVE SoundAt(b, p)'
  BY <1>3, <1>4, SoundAtStays
<1> QED BY <1>2, <1>4 DEF ProxiesInv, SoundAt

\* What the next call does to the proxy it is for.
LEMMA MineCalls ==
    ASSUME EntriesInv, TransactionInv, ProxiesInv, network \in LiveNetworks, Mine,
           proxies' # proxies
    PROVE  \E id, to, logic, tx :
              /\ id \in Callable
              /\ tx = [do |-> IF id = "StakedOas" THEN "initialize" ELSE "upgradeToAndCall",
                       to |-> to, logic |-> logic, data |-> InitializeData(InitializerArity(id))]
              /\ CodeAt(to) = PROXY /\ Succeeds(tx)
              /\ proxies' = [a \in DOMAIN proxies \cup {to} |-> IF a = to THEN Called(tx) ELSE proxies[a]]
<1> DEFINE tx == sent[mined + 1]
<1>1. mined + 1 \in 1 .. Len(sent)
  BY SentFacts DEF Mine
<1>2. Sendable(tx)
  BY <1>1 DEF TransactionInv
<1>3. /\ tx.do # "create" /\ Succeeds(tx) /\ CodeAt(tx.to) = PROXY
      /\ proxies' = [a \in DOMAIN proxies \cup {tx.to} |->
                       IF a = tx.to THEN Called(tx) ELSE proxies[a]]
  BY DEF Mine
<1>4. PICK id, to, logic :
         /\ id \in Callable
         /\ tx = [do |-> IF id = "StakedOas" THEN "initialize" ELSE "upgradeToAndCall",
                  to |-> to, logic |-> logic, data |-> InitializeData(InitializerArity(id))]
  <2> HIDE DEF tx
  <2>1. ASSUME NEW c, tx = [do |-> "create", creation |-> c] PROVE FALSE
    BY <1>3, <2>1
  <2> QED BY <1>2, <2>1 DEF Sendable
<1> HIDE DEF tx
<1>5. tx.to = to
  BY <1>4
<1> QED BY <1>3, <1>4, <1>5

LEMMA MineKeepsProxies ==
    ASSUME EntriesInv, EntriesInv', FactoryInv, TransactionInv, ProxiesInv,
           network \in LiveNetworks, [Next]_vars, Mine
    PROVE  ProxiesInv'
<1>1. CASE proxies' = proxies
  BY <1>1, ProxiesUnchanged
<1>2. CASE proxies' # proxies
  <2>1. PICK id, to, logic, tx :
          /\ id \in Callable
          /\ tx = [do |-> IF id = "StakedOas" THEN "initialize" ELSE "upgradeToAndCall",
                   to |-> to, logic |-> logic, data |-> InitializeData(InitializerArity(id))]
          /\ CodeAt(to) = PROXY /\ Succeeds(tx)
          /\ proxies' = [a \in DOMAIN proxies \cup {to} |-> IF a = to THEN Called(tx) ELSE proxies[a]]
    BY <1>2, MineCalls
  <2> DEFINE q == Called(tx)
  <2>2. Sound(q)
    <3>1. CASE q = ProxyAt(to) /\ Sound(ProxyAt(to))
      BY <3>1
    <3>2. ASSUME NEW c, NEW s, c = CodeAt(logic), Upgradeable(q, logic, c, s) PROVE Sound(q)
      BY <3>2 DEF Sound
    <3> HIDE DEF q
    <3>3. \/ q = ProxyAt(to) /\ Sound(ProxyAt(to))
          \/ \E c, s : c = CodeAt(logic) /\ Upgradeable(q, logic, c, s)
      BY <2>1, CalledSound DEF q
    <3> QED BY <3>1, <3>2, <3>3
  <2>3. SoundAt(to, q)
    BY <2>1, <2>2 DEF SoundAt
  <2>4. /\ DOMAIN proxies' = DOMAIN proxies \cup {to} /\ proxies'[to] = q
        /\ \A b \in DOMAIN proxies : b # to => proxies'[b] = proxies[b]
        /\ proxies' = [b \in DOMAIN proxies' |-> proxies'[b]]
    <3> HIDE DEF q
    <3>1. proxies' = [a \in DOMAIN proxies \cup {to} |-> IF a = to THEN q ELSE proxies[a]]
      BY <2>1 DEF q
    <3> QED BY <3>1
  <2> HIDE DEF q
  <2>5. ASSUME NEW b \in DOMAIN proxies', NEW p, p = proxies'[b] PROVE SoundAt(b, p)
    BY <2>3, <2>4, <2>5 DEF ProxiesInv, SoundAt
  <2>6. ASSUME NEW b \in DOMAIN proxies', NEW p, p = proxies'[b] PROVE SoundAt(b, p)'
    BY <2>5, <2>6, SoundAtStays
  <2> QED BY <2>4, <2>6 DEF ProxiesInv, SoundAt
<1> QED BY <1>1, <1>2

LEMMA ProxiesMove ==
    ASSUME EntriesInv, [Next]_vars, proxies' # proxies
    PROVE  Mine \/ \E a \in DOMAIN proxies : Use(a)
<1>1. CASE ChainStep
  BY <1>1 DEF ChainStep, LoseMempool, FactoryDeploys
<1>2. ASSUME NEW w \in Ids, SendCalldata(w) \/ CreateContract(w) \/ CallProxy(w)
      PROVE  proxies' = proxies
  BY <1>2 DEF SendCalldata, CreateContract, CallProxy, SendTransaction
<1>3. ASSUME \/ \E t \in Tasks : Start(t)
             \/ \E how \in {"finished", "failed", "killed"} : Ending(how)
             \/ \E do, x : Passing(do, x)
             \/ network = "oasys" /\ LeaveOasys
             \/ \E w \in Ids : RegisterContract(w)
             \/ Resting
      PROVE  proxies' = proxies
  BY <1>3 DEF Start, Ending, EndsAs, Passing, LeaveOasys, RegisterContract, Resting, chainVars
<1> QED BY <1>1, <1>2, <1>3, Moves

LEMMA ProxiesStep ==
    ASSUME EntriesInv, EntriesInv', FactoryInv, TransactionInv, ProxiesInv,
           network \in LiveNetworks, [Next]_vars
    PROVE  ProxiesInv'
<1>1. CASE proxies' = proxies
  BY <1>1, ProxiesUnchanged
<1>2. CASE proxies' # proxies
  BY <1>2, ProxiesMove, MineKeepsProxies, UseKeepsProxies
<1> QED BY <1>1, <1>2

-----------------------------------------------------------------------------
(* Type correctness *)

Entries == {AddressOf(n) : n \in 0 .. MaxSent} \cup {PredictedAddress(id) : id \in Ids}

RestInv ==
    /\ network \in NetworkChoices /\ etherscanKey \in BOOLEAN
    /\ db \in [Ids -> Entries]
    /\ reverted \subseteq 1 .. mined
    /\ crashes \in 0 .. MaxCrashes /\ losses \in 0 .. MaxLosses

DeploymentInv ==
    /\ VerificationInv /\ EntriesInv /\ ScheduleInv /\ FactoryInv
    /\ TransactionInv /\ ProxiesInv /\ RestInv

LEMMA MinesOrNot ==
    ASSUME EntriesInv, [Next]_vars, ~Mine
    PROVE  UNCHANGED <<reverted, mined>>
<1>1. CASE ChainStep
  BY <1>1 DEF ChainStep, LoseMempool, FactoryDeploys, Use
<1>2. ASSUME NEW w \in Ids, SendCalldata(w) \/ CreateContract(w) \/ CallProxy(w)
      PROVE  UNCHANGED <<reverted, mined>>
  BY <1>2 DEF SendCalldata, CreateContract, CallProxy, SendTransaction
<1>3. ASSUME \/ \E t \in Tasks : Start(t)
             \/ \E how \in {"finished", "failed", "killed"} : Ending(how)
             \/ \E do, x : Passing(do, x)
             \/ network = "oasys" /\ LeaveOasys
             \/ \E w \in Ids : RegisterContract(w)
             \/ Resting
      PROVE  UNCHANGED <<reverted, mined>>
  BY <1>3 DEF Start, Ending, EndsAs, Passing, LeaveOasys, RegisterContract, Resting, chainVars
<1> QED BY <1>1, <1>2, <1>3, Moves

LEMMA RevertedStep ==
    ASSUME EntriesInv, reverted \subseteq 1 .. mined, [Next]_vars
    PROVE  reverted' \subseteq 1 .. mined'
<1>1. Len(sent) \in Nat /\ mined \in 0 .. Len(sent)
  BY SentFacts
<1>2. CASE Mine
  <2>1. mined' = mined + 1 /\ (reverted' = reverted \/ reverted' = reverted \cup {mined + 1})
    BY <1>2 DEF Mine
  <2>2. 1 .. mined \subseteq 1 .. mined' /\ mined + 1 \in 1 .. mined'
    BY <1>1, <2>1
  <2> QED BY <2>1, <2>2
<1>3. CASE UNCHANGED <<reverted, mined>>
  BY <1>3
<1>4. ASSUME ~Mine PROVE UNCHANGED <<reverted, mined>>
  BY <1>4, MinesOrNot
<1> QED BY <1>2, <1>3, <1>4

LEMMA EntriesTyped ==
    ASSUME EntriesInv, ScheduleInv, db \in [Ids -> Entries], [Next]_vars
    PROVE  db' \in [Ids -> Entries]
<1>1. CASE UNCHANGED db
  BY <1>1
<1>2. ASSUME NEW w \in Ids, RegisterContract(w) PROVE db' \in [Ids -> Entries]
  <2>1. db' = [db EXCEPT ![w] = AddressOf(last)]
    BY <1>2 DEF RegisterContract
  <2>2. AddressOf(last) \in Entries
    BY DEF ScheduleInv, Entries
  <2> QED BY <2>1, <2>2
<1>3. ASSUME NEW w \in Ids, RegisterPredicted(w) PROVE db' \in [Ids -> Entries]
  <2>1. db' = db \/ db' = [db EXCEPT ![w] = PredictedAddress(w)]
    BY <1>3 DEF RegisterPredicted
  <2>2. PredictedAddress(w) \in Entries
    BY DEF Entries
  <2> QED BY <2>1, <2>2
<1> QED BY <1>1, <1>2, <1>3, FilesMove

LEMMA RestStep ==
    ASSUME EntriesInv, ScheduleInv, RestInv, [Next]_vars
    PROVE  RestInv'
<1>1. reverted' \subseteq 1 .. mined' /\ db' \in [Ids -> Entries]
  BY RevertedStep, EntriesTyped DEF RestInv
<1>2. crashes' \in 0 .. MaxCrashes /\ losses' \in 0 .. MaxLosses
  BY FilesMove, Bounds DEF RestInv
<1>3. network' = network /\ etherscanKey' = etherscanKey
  BY FilesMove
<1> QED BY <1>1, <1>2, <1>3 DEF RestInv, Entries, AddressOf, PredictedAddress

LEMMA DeploymentInit == Init => DeploymentInv
<1> SUFFICES ASSUME Init PROVE DeploymentInv
  OBVIOUS
<1>1. EntriesInv /\ ScheduleInv
  BY EntriesInit, ScheduleInit
<1>2. VerificationInv
  <2>1. 0 \in 0 .. 4
    OBVIOUS
  <2>2. VerificationInit /\ ~verifying
    BY DEF Init, VerificationInit
  <2> QED BY <2>1, <2>2, Zenon
          DEF VerificationInit, VerificationInv, VerificationTypeOK, RoundsCounted, MaxTimes
<1>3. FactoryInv /\ TransactionInv
  <2>1. factory = {} /\ sent = <<>>
    BY DEF Init
  <2>2. 1 .. Len(<<>>) = {}
    OBVIOUS
  <2> QED BY <2>1, <2>2 DEF FactoryInv, TransactionInv
<1>4. ProxiesInv
  <2>1. proxies = <<>>
    BY DEF Init
  <2>2. DOMAIN <<>> = {} /\ <<>> = [a \in DOMAIN <<>> |-> <<>>[a]]
    OBVIOUS
  <2>3. DOMAIN proxies = {} /\ proxies = [a \in DOMAIN proxies |-> proxies[a]]
    BY <2>1, <2>2
  <2> QED BY <2>3 DEF ProxiesInv
<1>5. RestInv
  <2>1. /\ network \in NetworkChoices /\ etherscanKey \in BOOLEAN
        /\ db = [id \in Ids |-> NoContract] /\ reverted = {} /\ crashes = 0 /\ losses = 0
    BY DEF Init, Unregistered
  <2>2. NoContract \in Entries
    BY Bounds DEF NoContract, Entries, AddressOf
  <2> QED BY <2>1, <2>2, Bounds DEF RestInv
<1> QED BY <1>1, <1>2, <1>3, <1>4, <1>5 DEF DeploymentInv

LEMMA DeploymentStep == DeploymentInv /\ [Next]_vars => DeploymentInv'
<1> SUFFICES ASSUME DeploymentInv, [Next]_vars PROVE DeploymentInv'
  OBVIOUS
<1>1. EntriesInv'
  BY EntriesStep DEF DeploymentInv
<1>2. network \in LiveNetworks
  BY Bounds DEF DeploymentInv, RestInv
<1> QED BY <1>1, <1>2, VerificationStep, ScheduleStep, FactoryStep, TransactionStep, ProxiesStep,
           RestStep DEF DeploymentInv

(* The files, the chain and the process stay within their types and bounds,  *)
(* and a proxy is called only where the code of one is.                      *)
THEOREM TypesKept == Spec => []TypeOK
<1>1. DeploymentInv => TypeOK
  <2> SUFFICES ASSUME DeploymentInv PROVE TypeOK
    OBVIOUS
  <2>1. /\ network \in NetworkChoices /\ etherscanKey \in BOOLEAN
        /\ db \in [Ids -> {AddressOf(n) : n \in 0 .. MaxSent} \cup {PredictedAddress(id) : id \in Ids}]
        /\ reverted \subseteq 1 .. mined
        /\ crashes \in 0 .. MaxCrashes /\ losses \in 0 .. MaxLosses
    BY DEF DeploymentInv, RestInv, Entries
  <2>2. \A id \in Ids : calldata[id] \in {NoCalldata, [code |-> CodeOf[id], args |-> GetDeployArgs(id)]}
    BY DEF DeploymentInv, EntriesInv, FilesInv, Right
  <2>3. mined \in 0 .. Len(sent) /\ Len(sent) <= MaxSent
    <3>1. Len(sent) \in Nat /\ mined \in 0 .. Len(sent)
      BY SentFacts DEF DeploymentInv
    <3>2. Sends(todo) \in Nat /\ Len(sent) + Sends(todo) <= MaxSent
      <4>1. todo \in Seq(Steps)
        BY DEF DeploymentInv, EntriesInv, ProcessInv, Remaining
      <4> QED BY <4>1, SendsFinite DEF DeploymentInv, ScheduleInv
    <3> QED BY <3>1, <3>2, Bounds
  <2>4. (\A a \in DOMAIN proxies : CodeAt(a) = PROXY) /\ factory \subseteq Ids
    BY DEF DeploymentInv, ProxiesInv, FactoryInv
  <2>5. task \in Tasks \cup {""} /\ last \in 0 .. MaxSent
    BY DEF DeploymentInv, ScheduleInv
  <2>6. outcome \in {"idle", "running", "finished", "failed", "killed"}
    BY DEF DeploymentInv, ScheduleInv, Outcomes
  <2>7. VerificationTypeOK
    BY DEF DeploymentInv, VerificationInv
  <2> QED BY <2>1, <2>2, <2>3, <2>4, <2>5, <2>6, <2>7, Zenon DEF TypeOK
<1> QED BY <1>1, DeploymentInit, DeploymentStep, PTL DEF Spec

(* What the networks with an admin have for a token and a vault.             *)
LEMMA AdminNetworks ==
    ASSUME network \in LiveNetworks, Admin # ZERO_ADDRESS
    PROVE  ZERO_ADDRESS \notin {GetTokenPerNetwork(network), GetIncentivesVaultPerNetwork(network)}
<1>1. network \in {"oasys", "testnet"}
  BY DEF LiveNetworks, Admin, GetAdminPerNetwork, GetParamPerNetwork
<1>2. GetTokenPerNetwork(network) = "WOAS"
  BY <1>1 DEF GetTokenPerNetwork, GetParamPerNetwork
<1>3. GetIncentivesVaultPerNetwork(network) \in {"OasysVault", "TestnetVault"}
  BY <1>1 DEF GetIncentivesVaultPerNetwork, GetParamPerNetwork
<1> QED BY <1>2, <1>3 DEF ZERO_ADDRESS

LEMMA ReadyCode == \A id \in Ids : Ready(id) => CodeAt(db[id]) = CodeOf[id]
  BY DEF Ready, CodeAt

LEMMA ContinuesFresh ==
    ASSUME DeploymentInv, Ready("StakedOas"), Ready("StakedOasImpl"),
           ProxyAt(db["StakedOas"]) = FreshProxy
    PROVE  Succeeds(InitializeCall)
<1> DEFINE tx == InitializeCall
<1>1. CodeAt(db["StakedOas"]) = PROXY /\ CodeAt(db["StakedOasImpl"]) = "StakedOas"
  BY ReadyCode DEF Ids, CodeOf
<1>2. network \in LiveNetworks
  BY Bounds DEF DeploymentInv, RestInv
<1>3. Admin # ZERO_ADDRESS
  BY <1>1, AdminSet DEF DeploymentInv
<1>4. /\ tx.do = "initialize" /\ tx.to = db["StakedOas"] /\ tx.logic = db["StakedOasImpl"]
      /\ tx.data = InitializeData(InitializerArity("StakedOas"))
  BY DEF InitializeCall
<1> HIDE DEF tx
<1>5. /\ tx.data.arity = InitializerArity("StakedOas")
      /\ tx.data.token = GetTokenPerNetwork(network)
      /\ tx.data.vault = GetIncentivesVaultPerNetwork(network)
  BY <1>4 DEF InitializeData
<1>6. ZERO_ADDRESS \notin {tx.data.token, tx.data.vault}
  BY <1>2, <1>3, <1>5, AdminNetworks
<1>7. Revision("StakedOas") > 0
  BY Arities
<1>8. CanRunInitializer(FreshProxy, "StakedOas", tx.data)
  BY <1>5, <1>6, <1>7, FreshFacts DEF CanRunInitializer
<1>9. CanInitialize(FreshProxy, "StakedOas", tx.data)
  <2>1. "StakedOas" # ""
    BY Zenon
  <2> QED BY <1>8, <2>1, FreshFacts, Zenon DEF CanInitialize
<1>10. Succeeds(tx)
  BY <1>1, <1>4, <1>9, Zenon DEF Succeeds
<1> QED BY <1>10 DEF tx

LEMMA ContinuesUpgrade ==
    ASSUME DeploymentInv, Ready("StakedOas"), Ready("StakedTokenV2Rev4"),
           NEW i, NEW c, NEW s, Upgradeable(ProxyAt(db["StakedOas"]), i, c, s),
           c # "StakedTokenV2Rev4"
    PROVE  Succeeds(UpgradeCall("StakedTokenV2Rev4"))
<1> DEFINE tx == UpgradeCall("StakedTokenV2Rev4")
           p == ProxyAt(db["StakedOas"])
           code == "StakedTokenV2Rev4"
<1>1. CodeAt(db["StakedOas"]) = PROXY /\ CodeAt(db["StakedTokenV2Rev4"]) = code
  BY ReadyCode DEF Ids, CodeOf
<1>2. network \in LiveNetworks
  BY Bounds DEF DeploymentInv, RestInv
<1>3. p.admin = Admin /\ p.lastInitializedRevision = Revision(c) /\ Admin # ZERO_ADDRESS
  BY DEF Upgradeable
<1>4. Signer = p.admin
  BY <1>2, <1>3, SignerFacts, AdminNamed, Zenon
<1>5. /\ tx.do = "upgradeToAndCall" /\ tx.to = db["StakedOas"] /\ tx.logic = db[code]
      /\ tx.data = InitializeData(InitializerArity(code))
  BY DEF UpgradeCall
<1>6. tx.data.arity = InitializerArity(code)
  BY <1>5 DEF InitializeData
<1>7. Revision(code) > p.lastInitializedRevision
  BY <1>3, Arities DEF Upgradeable, Codes
<1>8. code # "StakedOas" /\ code # ""
  BY Zenon
<1> HIDE DEF tx, p, code
<1>9. CanRunInitializer(p, code, tx.data)
  BY <1>6, <1>7, <1>8 DEF CanRunInitializer
<1>10. CanUpgradeToAndCall(p, Signer, code, tx.data)
  BY <1>4, <1>8, <1>9 DEF CanUpgradeToAndCall
<1>11. tx.do # "initialize"
  BY <1>5
<1>12. Succeeds(tx)
  BY <1>1, <1>5, <1>10, <1>11, Zenon DEF Succeeds, p, code
<1> QED BY <1>12 DEF tx

(* However often tasks were killed and transactions lost: once everything is *)
(* deployed, the proxy runs revision 4, or is fresh and can be initialised,  *)
(* or was initialised by the signer and can be upgraded.                     *)
THEOREM InitializationContinues == Spec => []NeverStuck
<1>1. DeploymentInv => NeverStuck
  <2> SUFFICES ASSUME DeploymentInv,
                      \A id \in {"StakedOas", "StakedOasImpl", "StakedTokenV2Rev4"} : Ready(id)
               PROVE  \/ ProxyAt(db["StakedOas"]).lastInitializedRevision = 4
                      \/ /\ ProxyAt(db["StakedOas"]).implementation = NoContract
                         /\ Succeeds(InitializeCall)
                      \/ /\ ProxyAt(db["StakedOas"]).implementation # NoContract
                         /\ Succeeds(UpgradeCall("StakedTokenV2Rev4"))
    BY DEF NeverStuck
  <2> DEFINE p == ProxyAt(db["StakedOas"])
  <2>1. Ready("StakedOas") /\ Ready("StakedOasImpl") /\ Ready("StakedTokenV2Rev4")
    OBVIOUS
  <2>2. Sound(p)
    BY ProxyAtSound DEF DeploymentInv
  <2>3. CASE p = FreshProxy
    BY <2>1, <2>3, ContinuesFresh, FreshFacts
  <2>4. ASSUME NEW i, NEW c, NEW s, CodeAt(i) = c, Upgradeable(p, i, c, s)
        PROVE  \/ p.lastInitializedRevision = 4
               \/ p.implementation # NoContract /\ Succeeds(UpgradeCall("StakedTokenV2Rev4"))
    <3>1. p.lastInitializedRevision = Revision(c) /\ p.implementation = i /\ c \in Codes
      BY <2>4 DEF Upgradeable
    <3>2. CASE c = "StakedTokenV2Rev4"
      BY <3>1, <3>2, Arities
    <3>3. CASE c # "StakedTokenV2Rev4"
      <4>1. c # ""
        BY <3>1, Zenon DEF Codes
      <4> QED BY <2>1, <2>4, <3>1, <3>3, <4>1, ContinuesUpgrade, NoCodeAtZero DEF NothingAtZero
    <3> QED BY <3>2, <3>3
  <2> QED BY <2>2, <2>3, <2>4 DEF Sound
<1> QED BY <1>1, DeploymentInit, DeploymentStep, PTL DEF Spec

-----------------------------------------------------------------------------
(* Upgrades *)

LEMMA MappingNames ==
    Mappings = {"stakerRewardsToClaim", "stakersCooldowns", "_votingDelegates",
                "_propositionPowerSnapshots", "_propositionPowerSnapshotsCounts",
                "_propositionPowerDelegates", "_nonces"}
<1> DEFINE U == StakingVariables
           V == PowerVariables
           S == {U[1], U[2], V[1], V[2], V[3], V[4], V[5]}
           W == U \o V
<1>1. U = <<U[1], U[2]>> /\ V = <<V[1], V[2], V[3], V[4], V[5]>>
  BY DEF StakingVariables, PowerVariables
<1>2. Mappings = {W[i] : i \in DOMAIN W}
  BY DEF Mappings, ToSet
<1>n. S = {"stakerRewardsToClaim", "stakersCooldowns", "_votingDelegates",
           "_propositionPowerSnapshots", "_propositionPowerSnapshotsCounts",
           "_propositionPowerDelegates", "_nonces"}
  BY DEF StakingVariables, PowerVariables
<1> HIDE DEF U, V
<1>4. {U[1], U[2]} \subseteq S /\ {V[1], V[2], V[3], V[4], V[5]} \subseteq S
  OBVIOUS
<1> HIDE DEF S
<1>5. U \in Seq(S) /\ Len(U) = 2
  <2>1. <<U[1], U[2]>> \in Seq(S) /\ Len(<<U[1], U[2]>>) = 2
    BY <1>4, ShortTuples, Zenon
  <2> QED BY <1>1, <2>1, Zenon
<1>6. V \in Seq(S) /\ Len(V) = 5
  <2>1. /\ <<V[1], V[2], V[3], V[4], V[5]>> \in Seq(S)
        /\ Len(<<V[1], V[2], V[3], V[4], V[5]>>) = 5
    BY <1>4, ShortTuples, Zenon
  <2> QED BY <1>1, <2>1, Zenon
<1>w. W = U \o V
  OBVIOUS
<1> HIDE DEF W
<1>j. \A s \in Seq(S), t \in Seq(S) :
          /\ s \o t \in Seq(S) /\ Len(s \o t) = Len(s) + Len(t)
          /\ \A i \in 1 .. Len(s) : (s \o t)[i] = s[i]
          /\ \A i \in 1 .. Len(t) : (s \o t)[Len(s) + i] = t[i]
  BY Joined
<1>7. /\ W \in Seq(S) /\ Len(W) = Len(U) + Len(V)
      /\ \A i \in 1 .. Len(U) : W[i] = U[i]
      /\ \A i \in 1 .. Len(V) : W[Len(U) + i] = V[i]
  BY <1>5, <1>6, <1>j, <1>w, Zenon
<1>8. /\ DOMAIN W = 1 .. 7 /\ (\A i \in 1 .. 2 : W[i] = U[i])
      /\ \A i \in 1 .. 5 : W[2 + i] = V[i]
  BY <1>5, <1>6, <1>7
<1>9. /\ W[1] = U[1] /\ W[2] = U[2] /\ W[2 + 1] = V[1] /\ W[2 + 2] = V[2] /\ W[2 + 3] = V[3]
      /\ W[2 + 4] = V[4] /\ W[2 + 5] = V[5]
  BY <1>8
<1>10. {W[i] : i \in DOMAIN W} = {W[1], W[2], W[3], W[4], W[5], W[6], W[7]}
  BY <1>8
<1>11. {W[i] : i \in DOMAIN W} = S
  BY <1>9, <1>10 DEF S
<1> QED BY <1>2, <1>11, <1>n

\* The slots of the two implementations that keep the token first.
LEMMA SlotNames ==
    LET first == StorageLayout("StakedOas")
        fourth == StorageLayout("StakedTokenV2Rev4")
    IN  /\ DOMAIN first = 1 .. 5 /\ DOMAIN fourth = 1 .. 10
        /\ first[1] = "STAKED_TOKEN" /\ first[2] = "REWARD_TOKEN" /\ first[3] = "REWARDS_VAULT"
        /\ first[4] = "stakerRewardsToClaim" /\ first[5] = "stakersCooldowns"
        /\ fourth[1] = "STAKED_TOKEN" /\ fourth[2] = "REWARD_TOKEN" /\ fourth[3] = "REWARDS_VAULT"
        /\ fourth[4] = "stakerRewardsToClaim" /\ fourth[5] = "stakersCooldowns"
        /\ fourth[6] = "_votingDelegates" /\ fourth[7] = "_propositionPowerSnapshots"
        /\ fourth[8] = "_propositionPowerSnapshotsCounts"
        /\ fourth[9] = "_propositionPowerDelegates" /\ fourth[10] = "_nonces"
<1> DEFINE first == StorageLayout("StakedOas")
           fourth == StorageLayout("StakedTokenV2Rev4")
<1> HIDE DEF first, fourth
<1>1. /\ DOMAIN first = 1 .. 5 /\ DOMAIN fourth = 1 .. 10
      /\ \A i \in 1 .. 3 : first[i] = TokenVariables[i] /\ fourth[i] = TokenVariables[i]
      /\ first[4] = StakingVariables[1] /\ first[5] = StakingVariables[2]
      /\ fourth[4] = StakingVariables[1] /\ fourth[5] = StakingVariables[2]
      /\ \A i \in 1 .. 5 : fourth[5 + i] = PowerVariables[i]
  BY Layouts DEF first, fourth
<1>2. /\ first[1] = TokenVariables[1] /\ first[2] = TokenVariables[2] /\ first[3] = TokenVariables[3]
      /\ fourth[1] = TokenVariables[1] /\ fourth[2] = TokenVariables[2]
      /\ fourth[3] = TokenVariables[3]
  BY <1>1
<1>3. /\ fourth[5 + 1] = PowerVariables[1] /\ fourth[5 + 2] = PowerVariables[2]
      /\ fourth[5 + 3] = PowerVariables[3] /\ fourth[5 + 4] = PowerVariables[4]
      /\ fourth[5 + 5] = PowerVariables[5]
  BY <1>1
<1>4. /\ fourth[6] = PowerVariables[1] /\ fourth[7] = PowerVariables[2]
      /\ fourth[8] = PowerVariables[3] /\ fourth[9] = PowerVariables[4]
      /\ fourth[10] = PowerVariables[5]
  BY <1>3
<1>5. /\ TokenVariables[1] = "STAKED_TOKEN" /\ TokenVariables[2] = "REWARD_TOKEN"
      /\ TokenVariables[3] = "REWARDS_VAULT"
  BY DEF TokenVariables
<1>6. StakingVariables[1] = "stakerRewardsToClaim" /\ StakingVariables[2] = "stakersCooldowns"
  BY DEF StakingVariables
<1>7. /\ PowerVariables[1] = "_votingDelegates" /\ PowerVariables[2] = "_propositionPowerSnapshots"
      /\ PowerVariables[3] = "_propositionPowerSnapshotsCounts"
      /\ PowerVariables[4] = "_propositionPowerDelegates" /\ PowerVariables[5] = "_nonces"
  BY DEF PowerVariables
<1> QED BY <1>1, <1>2, <1>4, <1>5, <1>6, <1>7 DEF first, fourth

(* A mapping of revision 4 is where the first implementation has it, or      *)
(* behind everything the first implementation has.                           *)
LEMMA MappingSlots ==
    \A v \in Mappings :
       \E j \in 4 .. 10 :
          /\ SlotsOf("StakedTokenV2Rev4", v) = {j}
          /\ \/ j \in 4 .. 5 /\ SlotsOf("StakedOas", v) = {j}
             \/ j \in 6 .. 10 /\ SlotsOf("StakedOas", v) = {}
<1> DEFINE first == StorageLayout("StakedOas")
           fourth == StorageLayout("StakedTokenV2Rev4")
<1>1. \A v : /\ SlotsOf("StakedTokenV2Rev4", v) = {i \in 1 .. 10 : fourth[i] = v}
             /\ SlotsOf("StakedOas", v) = {i \in 1 .. 5 : first[i] = v}
  BY SlotNames DEF SlotsOf
<1>2. /\ first[1] = "STAKED_TOKEN" /\ first[2] = "REWARD_TOKEN" /\ first[3] = "REWARDS_VAULT"
      /\ first[4] = "stakerRewardsToClaim" /\ first[5] = "stakersCooldowns"
      /\ fourth[1] = "STAKED_TOKEN" /\ fourth[2] = "REWARD_TOKEN" /\ fourth[3] = "REWARDS_VAULT"
      /\ fourth[4] = "stakerRewardsToClaim" /\ fourth[5] = "stakersCooldowns"
      /\ fourth[6] = "_votingDelegates" /\ fourth[7] = "_propositionPowerSnapshots"
      /\ fourth[8] = "_propositionPowerSnapshotsCounts"
      /\ fourth[9] = "_propositionPowerDelegates" /\ fourth[10] = "_nonces"
  BY SlotNames
<1> HIDE DEF first, fourth
<1>3. \A i \in 1 .. 10 : i \in {1, 2, 3, 4, 5, 6, 7, 8, 9, 10}
  OBVIOUS
<1>4. \A i \in 1 .. 5 : i \in {1, 2, 3, 4, 5}
  OBVIOUS
<1>5. ASSUME NEW j \in 6 .. 10, NEW v, fourth[j] = v, v \in Mappings,
             \A i \in 1 .. 10 : fourth[i] = v => i = j, \A i \in 1 .. 5 : first[i] # v
      PROVE  SlotsOf("StakedTokenV2Rev4", v) = {j} /\ SlotsOf("StakedOas", v) = {}
  BY <1>1, <1>5
<1>6. ASSUME NEW j \in 4 .. 5, NEW v, fourth[j] = v, first[j] = v, v \in Mappings,
             \A i \in 1 .. 10 : fourth[i] = v => i = j, \A i \in 1 .. 5 : first[i] = v => i = j
      PROVE  SlotsOf("StakedTokenV2Rev4", v) = {j} /\ SlotsOf("StakedOas", v) = {j}
  BY <1>1, <1>6
<1>7. ASSUME NEW v \in Mappings PROVE \E j \in 4 .. 10 :
        /\ fourth[j] = v /\ \A i \in 1 .. 10 : fourth[i] = v => i = j
        /\ \/ j \in 4 .. 5 /\ first[j] = v /\ \A i \in 1 .. 5 : first[i] = v => i = j
           \/ j \in 6 .. 10 /\ \A i \in 1 .. 5 : first[i] # v
  <2>1. CASE v = "stakerRewardsToClaim"
    <3>1. fourth[4] = v /\ first[4] = v
      BY <1>2, <2>1
    <3>2. \A i \in 1 .. 10 : fourth[i] = v => i = 4
      BY <1>2, <1>3, <2>1
    <3>3. \A i \in 1 .. 5 : first[i] = v => i = 4
      BY <1>2, <1>4, <2>1
    <3> QED BY <3>1, <3>2, <3>3
  <2>2. CASE v = "stakersCooldowns"
    <3>1. fourth[5] = v /\ first[5] = v
      BY <1>2, <2>2
    <3>2. \A i \in 1 .. 10 : fourth[i] = v => i = 5
      BY <1>2, <1>3, <2>2
    <3>3. \A i \in 1 .. 5 : first[i] = v => i = 5
      BY <1>2, <1>4, <2>2
    <3> QED BY <3>1, <3>2, <3>3
  <2>3. ASSUME v \notin {"stakerRewardsToClaim", "stakersCooldowns"}
        PROVE  \E j \in 6 .. 10 : /\ fourth[j] = v /\ \A i \in 1 .. 10 : fourth[i] = v => i = j
                                  /\ \A i \in 1 .. 5 : first[i] # v
    <3>1. \A i \in 1 .. 5 : first[i] # v
      BY <1>2, <1>4, <2>3, MappingNames
    <3>2. CASE v = "_votingDelegates"
      <4>1. fourth[6] = v /\ \A i \in 1 .. 10 : fourth[i] = v => i = 6
        BY <1>2, <1>3, <3>2
      <4> QED BY <3>1, <4>1
    <3>3. CASE v = "_propositionPowerSnapshots"
      <4>1. fourth[7] = v /\ \A i \in 1 .. 10 : fourth[i] = v => i = 7
        BY <1>2, <1>3, <3>3
      <4> QED BY <3>1, <4>1
    <3>4. CASE v = "_propositionPowerSnapshotsCounts"
      <4>1. fourth[8] = v /\ \A i \in 1 .. 10 : fourth[i] = v => i = 8
        BY <1>2, <1>3, <3>4
      <4> QED BY <3>1, <4>1
    <3>5. CASE v = "_propositionPowerDelegates"
      <4>1. fourth[9] = v /\ \A i \in 1 .. 10 : fourth[i] = v => i = 9
        BY <1>2, <1>3, <3>5
      <4> QED BY <3>1, <4>1
    <3>6. CASE v = "_nonces"
      <4>1. fourth[10] = v /\ \A i \in 1 .. 10 : fourth[i] = v => i = 10
        BY <1>2, <1>3, <3>6
      <4> QED BY <3>1, <4>1
    <3> QED BY <2>3, <3>2, <3>3, <3>4, <3>5, <3>6, MappingNames
  <2>4. CASE v \notin {"stakerRewardsToClaim", "stakersCooldowns"}
    <3>1. PICK j \in 6 .. 10 : /\ fourth[j] = v /\ \A i \in 1 .. 10 : fourth[i] = v => i = j
                               /\ \A i \in 1 .. 5 : first[i] # v
      BY <2>3, <2>4
    <3> QED BY <3>1
  <2> QED BY <2>1, <2>2, <2>4
<1> QED BY <1>5, <1>6, <1>7

LEMMA NoSlotsWithoutCode == \A v : SlotsOf("", v) = {}
<1>1. StorageLayout("") = <<>>
  BY Zenon DEF StorageLayout
<1>2. \A i : i \notin DOMAIN <<>>
  OBVIOUS
<1> QED BY <1>1, <1>2, Zenon DEF SlotsOf

\* A slot that holds a name of no mapping is empty to the code.
LEMMA OneSlot ==
    ASSUME NEW p, NEW code, NEW v, NEW j, SlotsOf(code, v) = {j}
    PROVE  ValuesOf(p, code, v) = {IF p.slots[j] \in Mappings THEN p.slots[j] ELSE "empty"}
  BY DEF ValuesOf

LEMMA FirstStartsEmpty ==
    ASSUME NEW p, NEW q, \A i \in 4 .. 10 : q.slots[i] = "empty"
    PROVE  KeepsState(p, "", "StakedOas", q)
<1> SUFFICES ASSUME NEW v \in Mappings, SlotsOf("StakedOas", v) # {}
             PROVE  ValuesOf(q, "StakedOas", v) = {"empty"}
  BY NoSlotsWithoutCode DEF KeepsState
<1>1. PICK j \in 4 .. 5 : SlotsOf("StakedOas", v) = {j}
  BY MappingSlots
<1>2. q.slots[j] = "empty"
  BY <1>1
<1> QED BY <1>1, <1>2, OneSlot, Zenon

LEMMA FourthKeepsFirst ==
    ASSUME NEW p, NEW q, \A i \in 4 .. 10 : q.slots[i] = p.slots[i],
           \A i \in 6 .. 10 : p.slots[i] = "empty"
    PROVE  KeepsState(p, "StakedOas", "StakedTokenV2Rev4", q)
<1> SUFFICES ASSUME NEW v \in Mappings
             PROVE  ValuesOf(q, "StakedTokenV2Rev4", v) =
                       IF SlotsOf("StakedOas", v) # {} THEN ValuesOf(p, "StakedOas", v) ELSE {"empty"}
  BY DEF KeepsState
<1>1. PICK j \in 4 .. 10 :
          /\ SlotsOf("StakedTokenV2Rev4", v) = {j}
          /\ \/ j \in 4 .. 5 /\ SlotsOf("StakedOas", v) = {j}
             \/ j \in 6 .. 10 /\ SlotsOf("StakedOas", v) = {}
  BY MappingSlots
<1>2. ValuesOf(q, "StakedTokenV2Rev4", v) =
         {IF p.slots[j] \in Mappings THEN p.slots[j] ELSE "empty"}
  <2>1. q.slots[j] = p.slots[j]
    BY <1>1
  <2>0. SlotsOf("StakedTokenV2Rev4", v) = {j}
    BY <1>1
  <2>2. ValuesOf(q, "StakedTokenV2Rev4", v) =
           {IF q.slots[j] \in Mappings THEN q.slots[j] ELSE "empty"}
    BY <2>0, OneSlot
  <2> QED BY <2>1, <2>2, Zenon
<1>3. CASE j \in 4 .. 5 /\ SlotsOf("StakedOas", v) = {j}
  <2>1. ValuesOf(p, "StakedOas", v) = {IF p.slots[j] \in Mappings THEN p.slots[j] ELSE "empty"}
    BY <1>3, OneSlot
  <2>2. SlotsOf("StakedOas", v) # {}
    BY <1>3
  <2> QED BY <1>2, <2>1, <2>2, Zenon
<1>4. CASE j \in 6 .. 10 /\ SlotsOf("StakedOas", v) = {}
  <2>1. p.slots[j] = "empty"
    BY <1>4
  <2> QED BY <1>2, <1>4, <2>1, Zenon
<1> QED BY <1>1, <1>3, <1>4

LEMMA ImplementationStays ==
    ASSUME EntriesInv, EntriesInv', FactoryInv, [Next]_vars, NEW p, Sound(p)
    PROVE  CodeAt(p.implementation)' = CodeAt(p.implementation)
<1>1. CASE p = FreshProxy
  <2>1. CodeAt(NoContract) = ""
    BY NoCodeAtZero DEF NothingAtZero
  <2>2. CodeAt(NoContract)' = ""
    BY NoCodeAtZeroNext DEF NothingAtZero
  <2>3. p.implementation = NoContract
    BY <1>1, FreshFacts
  <2>4. CodeAt(p.implementation)' = CodeAt(NoContract)'
    BY <2>3 DEF CodeAt, CreationAt, NoContract, NoCalldata, PredictedAddress, AddressOf
  <2> QED BY <2>1, <2>2, <2>3, <2>4
<1>2. ASSUME NEW i, NEW c, NEW s, CodeAt(i) = c, Upgradeable(p, i, c, s)
      PROVE  CodeAt(p.implementation)' = CodeAt(p.implementation)
  <2>1. p.implementation = i /\ c \in Codes
    BY <1>2 DEF Upgradeable
  <2>2. c # ""
    BY <2>1, Zenon DEF Codes
  <2> DEFINE j == p.implementation
  <2>3. CodeAt(j) # ""
    BY <1>2, <2>1, <2>2
  <2> QED BY <2>3, CodeStays
<1> QED BY <1>1, <1>2 DEF Sound

(* An initialiser that runs leaves the holders' state where it was.          *)
LEMMA CallKeepsState ==
    ASSUME DeploymentInv, DeploymentInv', [Next]_vars, "initialize-StakedTokenV2Rev3" \notin Tasks,
           NEW id \in Callable, NEW to, NEW logic, NEW tx,
           tx = [do |-> IF id = "StakedOas" THEN "initialize" ELSE "upgradeToAndCall",
                 to |-> to, logic |-> logic, data |-> InitializeData(InitializerArity(id))],
           CodeAt(to) = PROXY, Succeeds(tx), Called(tx) # ProxyAt(to)
    PROVE  /\ CodeAt(Called(tx).implementation) # ""
           /\ KeepsState(ProxyAt(to), CodeAt(ProxyAt(to).implementation),
                         CodeAt(Called(tx).implementation), Called(tx))
<1> DEFINE p == ProxyAt(to)
           q == Called(tx)
<1>1. network \in LiveNetworks
  BY Bounds DEF DeploymentInv, RestInv
<1>2. PICK c, s, k, t :
         /\ c = CodeAt(logic) /\ Upgradeable(q, logic, c, s)
         /\ \/ p = FreshProxy /\ c = "StakedOas" /\ \A i \in 4 .. 10 : s[i] = "empty"
            \/ /\ Upgradeable(p, p.implementation, k, t) /\ CodeAt(p.implementation) = k
               /\ Revision(c) > Revision(k) /\ c \in Revisions
               /\ \A i \in 4 .. 10 : s[i] = t[i]
  BY <1>1, CalledSound DEF DeploymentInv
<1> HIDE DEF p, q
<1>3. q.implementation = logic /\ q.slots = s /\ c \in Codes
  BY <1>2 DEF Upgradeable
<1>4. CodeAt(q.implementation) = c /\ c # ""
  <2>1. c # ""
    BY <1>3, Zenon DEF Codes
  <2> QED BY <1>2, <1>3, <2>1
<1>5. CASE p = FreshProxy /\ c = "StakedOas" /\ \A i \in 4 .. 10 : s[i] = "empty"
  <2>1. CodeAt(p.implementation) = ""
    BY <1>5, FreshFacts, NoCodeAtZero DEF NothingAtZero
  <2>2. KeepsState(p, "", "StakedOas", q)
    BY <1>3, <1>5, FirstStartsEmpty
  <2>3. KeepsState(p, CodeAt(p.implementation), CodeAt(q.implementation), q)
    BY <1>4, <1>5, <2>1, <2>2, Zenon
  <2> QED BY <1>4, <2>3 DEF p, q
<1>6. CASE /\ Upgradeable(p, p.implementation, k, t) /\ CodeAt(p.implementation) = k
           /\ Revision(c) > Revision(k) /\ c \in Revisions
           /\ \A i \in 4 .. 10 : s[i] = t[i]
  <2>1. p.slots = t /\ k \in Codes /\ k # "StakedTokenV2Rev3" /\ Kept(k, t)
    BY <1>6 DEF Upgradeable
  <2>2. c = "StakedTokenV2Rev4"
    <3>1. c # "StakedTokenV2Rev3"
      BY <1>2 DEF Upgradeable
    <3> QED BY <1>6, <3>1 DEF Revisions
  <2>3. k = "StakedOas"
    BY <1>6, <2>1, <2>2, Arities DEF Codes
  <2>4. \A i \in 6 .. 10 : t[i] = "empty"
    BY <2>1, <2>3 DEF Kept
  <2>5. KeepsState(p, "StakedOas", "StakedTokenV2Rev4", q)
    BY <1>3, <1>6, <2>1, <2>4, FourthKeepsFirst
  <2>6. KeepsState(p, CodeAt(p.implementation), CodeAt(q.implementation), q)
    BY <1>4, <1>6, <2>2, <2>3, <2>5, Zenon
  <2> QED BY <1>4, <2>6 DEF p, q
<1> QED BY <1>2, <1>5, <1>6

LEMMA CodeNext ==
    ASSUME NEW a, NEW q, q = proxies'[a]
    PROVE  Code(proxies[a])' = CodeAt(q.implementation)'
  BY DEF Code, CodeAt, CreationAt, NoCalldata, PredictedAddress, AddressOf

LEMMA UpgradeStep ==
    ASSUME DeploymentInv, DeploymentInv', [Next]_vars, "initialize-StakedTokenV2Rev3" \notin Tasks,
           NEW a \in DOMAIN proxies, Code(proxies[a])' # Code(proxies[a])
    PROVE  KeepsState(proxies[a], Code(proxies[a]), Code(proxies[a])', proxies'[a])
<1>0. PICK p, q : p = proxies[a] /\ q = proxies'[a]
  OBVIOUS
<1>1. Sound(p) /\ CodeAt(a) = PROXY
  BY <1>0 DEF DeploymentInv, ProxiesInv
<1>2. CodeAt(p.implementation)' = CodeAt(p.implementation)
  BY <1>1, ImplementationStays DEF DeploymentInv
<1>3. Code(proxies[a])' = CodeAt(q.implementation)' /\ Code(proxies[a]) = CodeAt(p.implementation)
  BY <1>0, CodeNext DEF Code
<1>4. q.implementation # p.implementation
  <2>1. ASSUME q.implementation = p.implementation
        PROVE  CodeAt(q.implementation)' = CodeAt(p.implementation)'
    BY <2>1 DEF CodeAt, CreationAt, NoCalldata, PredictedAddress, AddressOf
  <2> QED BY <1>2, <1>3, <2>1
<1>5. proxies' # proxies
  BY <1>0, <1>4
<1>6. ASSUME NEW b \in DOMAIN proxies, Use(b) PROVE FALSE
  <2>1. /\ proxies' = [proxies EXCEPT ![b] = UseStorage(@, CodeAt(@.implementation))]
        /\ proxies'[b].implementation = proxies[b].implementation
    BY <1>6, UseSoundAt DEF DeploymentInv
  <2>2. a # b => proxies'[a] = proxies[a]
    BY <2>1
  <2> QED BY <1>0, <1>4, <2>1, <2>2
<1>7. CASE Mine
  <2>0. network \in LiveNetworks
    BY Bounds DEF DeploymentInv, RestInv
  <2>1. PICK id, to, logic, tx :
          /\ id \in Callable
          /\ tx = [do |-> IF id = "StakedOas" THEN "initialize" ELSE "upgradeToAndCall",
                   to |-> to, logic |-> logic, data |-> InitializeData(InitializerArity(id))]
          /\ CodeAt(to) = PROXY /\ Succeeds(tx)
          /\ proxies' = [b \in DOMAIN proxies \cup {to} |-> IF b = to THEN Called(tx) ELSE proxies[b]]
    BY <1>5, <1>7, <2>0, MineCalls DEF DeploymentInv
  <2>2. q = IF a = to THEN Called(tx) ELSE p
    BY <1>0, <2>1
  <2>3. a = to /\ q = Called(tx)
    BY <1>4, <2>2
  <2>4. ProxyAt(to) = p
    BY <1>0, <2>3 DEF ProxyAt
  <2>5. /\ CodeAt(q.implementation) # ""
        /\ KeepsState(p, CodeAt(p.implementation), CodeAt(q.implementation), q)
    BY <1>4, <2>1, <2>3, <2>4, CallKeepsState
  <2>6. CodeAt(q.implementation)' = CodeAt(q.implementation)
    BY <2>5, CodeStays DEF DeploymentInv
  <2> QED BY <1>0, <1>3, <2>5, <2>6
<1>8. Mine \/ \E b \in DOMAIN proxies : Use(b)
  BY <1>5, ProxiesMove DEF DeploymentInv
<1> QED BY <1>6, <1>7, <1>8

(* Whatever order the tasks run in: no upgrade loses, mixes up or invents    *)
(* what the holders have accrued, cooled down, delegated and signed, unless  *)
(* somebody upgrades to revision 3, whose storage is not declared alike.     *)
THEOREM UpgradesKeepState ==
    ASSUME "initialize-StakedTokenV2Rev3" \notin Tasks
    PROVE  Spec => UpgradeKeepsState
<1>1. DeploymentInv /\ DeploymentInv' /\ [Next]_vars =>
         \A a \in DOMAIN proxies :
            LET before == Code(proxies[a])
                after == Code(proxies[a])'
            IN  before # after => KeepsState(proxies[a], before, after, proxies'[a])
  BY UpgradeStep
<1> QED BY <1>1, DeploymentInit, DeploymentStep, PTL DEF Spec, UpgradeKeepsState

-----------------------------------------------------------------------------
(* What is exported on oasys *)

Leave == Step(Leaving, "")

(* An entry is predicted right after its calldata was written, and one is    *)
(* taken from a receipt only where oasys was left before.                    *)
Exports(s) ==
    /\ s \in Seq(Steps)
    /\ \A i \in 1 .. Len(s) : s[i].do = "register" =>
          \E j \in 1 .. i - 1 : s[j] = Leave
    /\ \A i \in 1 .. Len(s), id \in Ids :
          i > 1 /\ s[i] = Step("predict", id) => s[i - 1] = Step("write", id)

\* The program does not begin with the entry either.
FromExport(s) == Exports(s) /\ \A id \in Ids : s # <<>> => s[1] # Step("predict", id)

LEMMA ExportsTail ==
    ASSUME NEW s, Exports(s), s # <<>>, Head(s) # Leave
    PROVE  Exports(Tail(s))
<1>1. /\ s \in Seq(Steps) /\ Tail(s) \in Seq(Steps) /\ Len(s) \in Nat \ {0}
      /\ Len(Tail(s)) = Len(s) - 1 /\ \A i \in 1 .. Len(s) - 1 : Tail(s)[i] = s[i + 1]
      /\ Head(s) = s[1]
  BY DEF Exports
<1> DEFINE t == Tail(s)
<1> HIDE DEF t
<1>2. ASSUME NEW i \in 1 .. Len(t), t[i].do = "register"
      PROVE  \E j \in 1 .. i - 1 : t[j] = Leave
  <2>1. i + 1 \in 1 .. Len(s) /\ s[i + 1].do = "register"
    BY <1>1, <1>2 DEF t
  <2>2. PICK j \in 1 .. (i + 1) - 1 : s[j] = Leave
    BY <2>1 DEF Exports
  <2>3. j - 1 \in 1 .. i - 1 /\ j - 1 \in 1 .. Len(s) - 1 /\ (j - 1) + 1 = j
    BY <1>1, <1>2, <2>2 DEF t
  <2>4. t[j - 1] = s[j]
    BY <1>1, <2>3 DEF t
  <2> QED BY <2>2, <2>3, <2>4
<1>3. ASSUME NEW i \in 1 .. Len(t), NEW id \in Ids, i > 1, t[i] = Step("predict", id)
      PROVE  t[i - 1] = Step("write", id)
  <2>1. i + 1 \in 1 .. Len(s) /\ s[i + 1] = Step("predict", id) /\ i + 1 > 1
    BY <1>1, <1>3 DEF t
  <2>2. s[(i + 1) - 1] = Step("write", id)
    BY <2>1 DEF Exports
  <2>3. i - 1 \in 1 .. Len(s) - 1 /\ (i - 1) + 1 = i /\ (i + 1) - 1 = i
    BY <1>1, <1>3 DEF t
  <2> QED BY <1>1, <2>2, <2>3 DEF t
<1> QED BY <1>1, <1>2, <1>3 DEF Exports, t

\* The steps that register nothing and predict nothing.
Plain == {s \in Steps : s.do \notin {"register", "predict"}}
Unpredicted == {s \in Steps : s.do # "predict"}

LEMMA StepParts == \A a, b : Step(a, b).do = a /\ Step(a, b).id = b
  BY DEF Step

LEMMA PlainSteps ==
    /\ \A a \in Kinds \ {"register", "predict"}, b \in Names : Step(a, b) \in Plain
    /\ \A a \in Kinds \ {"predict"}, b \in Names : Step(a, b) \in Unpredicted
  BY StepIsStep, StepParts DEF Plain, Unpredicted

LEMMA PlainExports == \A s \in Seq(Plain) : FromExport(s)
<1> SUFFICES ASSUME NEW s \in Seq(Plain) PROVE FromExport(s)
  OBVIOUS
<1>1. \A i \in 1 .. Len(s) : s[i] \in Plain
  OBVIOUS
<1>2. s \in Seq(Steps) /\ (s # <<>> => 1 \in 1 .. Len(s))
  BY DEF Plain
<1>3. \A i \in 1 .. Len(s) : s[i].do # "register" /\ \A id : s[i] # Step("predict", id)
  BY <1>1, StepParts DEF Plain
<1> QED BY <1>2, <1>3 DEF FromExport, Exports

LEMMA PlainPrograms ==
    /\ InitializeStakedOas \in Seq(Plain)
    /\ \A id \in Revisions : Upgrade(id) \in Seq(Plain)
    /\ CommonInitialization \in Seq(Plain)
    /\ VerificationTask \in Seq(Plain)
<1>1. /\ {"check", "call", "wait", "verify"} \subseteq Kinds \ {"register", "predict"}
      /\ {"", "StakedOas", "StakedOasImpl", "StakedTokenV2Rev4"} \subseteq Names
      /\ {"chain id", "token and vault"} \subseteq Names
      /\ Revisions \subseteq Names
  BY DEF Kinds, Names, Revisions
<1>2. /\ Wait \in Plain /\ Check("chain id") \in Plain /\ Check("token and vault") \in Plain
      /\ Step("call", "StakedOas") \in Plain
      /\ \A id \in Revisions : Step("call", id) \in Plain
      /\ Step("verify", "StakedOas") \in Plain /\ Step("verify", "StakedOasImpl") \in Plain
      /\ Step("verify", "StakedTokenV2Rev4") \in Plain
  BY <1>1, PlainSteps, Zenon DEF Wait, Check
<1>3. InitializeStakedOas \in Seq(Plain)
  BY <1>2, Tuples, Zenon DEF InitializeStakedOas
<1>4. ASSUME NEW id \in Revisions PROVE Upgrade(id) \in Seq(Plain)
  <2>1. /\ <<Check("chain id")>> \in Seq(Plain) /\ <<Check("token and vault")>> \in Seq(Plain)
        /\ <<>> \in Seq(Plain) /\ <<Step("call", id), Wait>> \in Seq(Plain)
    BY <1>2, Tuples, Zenon
  <2> QED BY <2>1, Concatenations, Zenon DEF Upgrade
<1>5. VerificationTask \in Seq(Plain)
  BY <1>2, Tuples, Zenon DEF VerificationTask
<1>6. CommonInitialization \in Seq(Plain)
  <2>1. "StakedTokenV2Rev4" \in Revisions
    BY DEF Revisions
  <2> QED BY <1>3, <1>4, <2>1, Concatenations, Zenon DEF CommonInitialization
<1> QED BY <1>3, <1>4, <1>5, <1>6

LEMMA EightJoined ==
    ASSUME NEW S, NEW a \in S, NEW b \in S, NEW c \in S, NEW d \in S, NEW e \in S,
           NEW f \in S, NEW g \in S, NEW h \in S
    PROVE  LET s == <<a>> \o (<<b, c>> \o <<d, e>>) \o <<f, g>> \o <<h>>
           IN  /\ s \in Seq(S) /\ Len(s) = 8
               /\ s[1] = a /\ s[2] = b /\ s[3] = c /\ s[4] = d
               /\ s[5] = e /\ s[6] = f /\ s[7] = g /\ s[8] = h
  OBVIOUS

LEMMA UnpredictedParts ==
    /\ DeployStakedOas \in Seq(Unpredicted)
    /\ DeployRevision("StakedTokenV2Rev4", FALSE) \in Seq(Unpredicted)
<1> DEFINE id == "StakedTokenV2Rev4"
<1>1. /\ {"check", "create", "send", "wait", "register"} \subseteq Kinds \ {"predict"}
      /\ {"", "StakedOas", "StakedOasImpl", "StakedTokenV2Rev4"} \subseteq Names
      /\ {"chain id", "addresses"} \subseteq Names
  BY DEF Kinds, Names
<1>2. /\ Wait \in Unpredicted /\ Check("chain id") \in Unpredicted
      /\ Check("addresses") \in Unpredicted
      /\ Step("send", "StakedOas") \in Unpredicted /\ Step("register", "StakedOas") \in Unpredicted
      /\ Step("send", "StakedOasImpl") \in Unpredicted
      /\ Step("register", "StakedOasImpl") \in Unpredicted
      /\ Step("create", id) \in Unpredicted /\ Step("register", id) \in Unpredicted
  BY <1>1, PlainSteps, Zenon DEF Wait, Check
<1>3. Deploy("StakedOas") \in Seq(Unpredicted) /\ Deploy("StakedOasImpl") \in Seq(Unpredicted)
  BY <1>2, Tuples, Zenon DEF Deploy
<1>4. DeployStakedOas \in Seq(Unpredicted)
  BY <1>3, Concatenations, Zenon DEF DeployStakedOas
<1>5. DeployRevision(id, FALSE) \in Seq(Unpredicted)
  <2>1. /\ <<Check("chain id"), Check("addresses")>> \in Seq(Unpredicted)
        /\ <<Step("create", id), Step("register", id)>> \in Seq(Unpredicted)
        /\ <<Wait, Step("register", id)>> \in Seq(Unpredicted) /\ <<>> \in Seq(Unpredicted)
    BY <1>2, Tuples, Zenon
  <2>2. CreateRevision(id, FALSE) \in Seq(Unpredicted)
    BY <2>1, Concatenations, Zenon DEF CreateRevision
  <2> QED BY <2>1, <2>2, Concatenations, Zenon DEF DeployRevision
<1> QED BY <1>4, <1>5

\* The steps of common-deployment up to where it leaves oasys.
ExportSteps ==
    <<Check("admin")>> \o ExportStakedOas \o Export("StakedTokenV2Rev4") \o <<Leave>>

LEMMA FrontSteps ==
    /\ ExportSteps \in Seq(Steps) /\ Len(ExportSteps) = 8
    /\ ExportSteps[1] = Check("admin")
    /\ ExportSteps[2] = Step("write", "StakedOasImpl") /\ ExportSteps[3] = Step("predict", "StakedOasImpl")
    /\ ExportSteps[4] = Step("write", "StakedOas") /\ ExportSteps[5] = Step("predict", "StakedOas")
    /\ ExportSteps[6] = Step("write", "StakedTokenV2Rev4")
    /\ ExportSteps[7] = Step("predict", "StakedTokenV2Rev4")
    /\ ExportSteps[8] = Leave
<1> DEFINE a == Check("admin")
           b == Step("write", "StakedOasImpl")
           c == Step("predict", "StakedOasImpl")
           d == Step("write", "StakedOas")
           e == Step("predict", "StakedOas")
           f == Step("write", "StakedTokenV2Rev4")
           g == Step("predict", "StakedTokenV2Rev4")
<1>1. /\ a \in Steps /\ b \in Steps /\ c \in Steps /\ d \in Steps /\ e \in Steps
      /\ f \in Steps /\ g \in Steps /\ Leave \in Steps
  <2>1. /\ {"check", "write", "predict"} \subseteq Kinds
        /\ {"admin", "StakedOas", "StakedOasImpl", "StakedTokenV2Rev4"} \subseteq Names
    BY DEF Kinds, Names
  <2>2. Leaving \in Kinds /\ "" \in Names
    BY Zenon DEF Kinds, Names, Leaving
  <2> QED BY <2>1, <2>2, StepIsStep, Zenon DEF Check, Leave
<1>2. ExportSteps = <<a>> \o (<<b, c>> \o <<d, e>>) \o <<f, g>> \o <<Leave>>
  BY Zenon DEF ExportSteps, ExportStakedOas, Export
<1> HIDE DEF a, b, c, d, e, f, g
<1>3. /\ ExportSteps \in Seq(Steps) /\ Len(ExportSteps) = 8
      /\ ExportSteps[1] = a /\ ExportSteps[2] = b /\ ExportSteps[3] = c /\ ExportSteps[4] = d
      /\ ExportSteps[5] = e /\ ExportSteps[6] = f /\ ExportSteps[7] = g /\ ExportSteps[8] = Leave
  BY <1>1, <1>2, EightJoined
<1> QED BY <1>3 DEF a, b, c, d, e, f, g

LEMMA NotPredicted ==
    /\ Leave.do = Leaving
    /\ \A id : Leave # Step("predict", id)
    /\ \A id, what : Check(what) # Step("predict", id)
    /\ Leave.do # "register" /\ \A what : Check(what).do # "register"
<1>1. Leave.do = Leaving /\ \A what : Check(what).do = "check"
  BY StepParts, Zenon DEF Leave, Check
<1>2. "check" # "predict" /\ "check" # "register" /\ Leaving # "predict" /\ Leaving # "register"
  BY OthersStay
<1> QED BY <1>1, <1>2, StepParts

LEMMA FrontExports ==
    ASSUME NEW t \in Seq(Unpredicted)
    PROVE  FromExport(ExportSteps \o t)
<1> DEFINE s == ExportSteps \o t
<1>0. t \in Seq(Steps) /\ \A i \in 1 .. Len(t) : t[i] \in Unpredicted
  BY DEF Unpredicted
<1>1. /\ s \in Seq(Steps) /\ Len(t) \in Nat /\ Len(s) = 8 + Len(t)
      /\ \A i \in 1 .. 8 : s[i] = ExportSteps[i]
      /\ \A i \in 1 .. Len(t) : s[8 + i] = t[i]
  <2>1. ExportSteps \in Seq(Steps) /\ Len(ExportSteps) = 8
    BY FrontSteps, Zenon
  <2>2. /\ s \in Seq(Steps) /\ Len(t) \in Nat /\ Len(s) = Len(ExportSteps) + Len(t)
        /\ \A i \in 1 .. Len(ExportSteps) : s[i] = ExportSteps[i]
        /\ \A i \in 1 .. Len(t) : s[Len(ExportSteps) + i] = t[i]
    BY <1>0, <2>1, ConcatFacts, Zenon
  <2> HIDE DEF s
  <2> QED BY <2>1, <2>2
<1> HIDE DEF s
<1>2. /\ s[1] = Check("admin") /\ s[8] = Leave
      /\ s[2] = Step("write", "StakedOasImpl") /\ s[3] = Step("predict", "StakedOasImpl")
      /\ s[4] = Step("write", "StakedOas") /\ s[5] = Step("predict", "StakedOas")
      /\ s[6] = Step("write", "StakedTokenV2Rev4") /\ s[7] = Step("predict", "StakedTokenV2Rev4")
  <2>1. \A i \in 1 .. 8 : s[i] = ExportSteps[i]
    BY <1>1
  <2>2. /\ s[1] = ExportSteps[1] /\ s[2] = ExportSteps[2] /\ s[3] = ExportSteps[3] /\ s[4] = ExportSteps[4]
        /\ s[5] = ExportSteps[5] /\ s[6] = ExportSteps[6] /\ s[7] = ExportSteps[7] /\ s[8] = ExportSteps[8]
    BY <2>1
  <2> QED BY <2>2, FrontSteps, Zenon
<1>3. ASSUME NEW i \in 1 .. Len(s), i > 8
      PROVE  s[i].do # "predict"
  <2>1. i - 8 \in 1 .. Len(t) /\ 8 + (i - 8) = i
    BY <1>1, <1>3
  <2> QED BY <1>0, <1>1, <2>1 DEF Unpredicted
<1>4. ASSUME NEW i \in 1 .. Len(s), s[i].do = "register"
      PROVE  \E j \in 1 .. i - 1 : s[j] = Leave
  <2>1. \A k \in {1, 2, 3, 4, 5, 6, 7, 8} : s[k].do # "register"
    BY <1>2, NotPredicted, StepParts
  <2>2. i > 8
    BY <1>1, <1>4, <2>1
  <2>3. 8 \in 1 .. i - 1
    BY <1>1, <2>2
  <2> QED BY <1>2, <2>3
<1>5. ASSUME NEW i \in 1 .. Len(s), NEW id \in Ids, s[i] = Step("predict", id)
      PROVE  i > 1 /\ s[i - 1] = Step("write", id)
  <2>1. s[i].do = "predict" /\ s[i].id = id
    BY <1>5, StepParts
  <2>2. i <= 8
    BY <1>1, <1>3, <2>1
  <2>3. \A k \in {2, 4, 6} : s[k].do # "predict"
    BY <1>2, StepParts
  <2>4. i = 3 \/ i = 5 \/ i = 7
    <3>1. i # 1 /\ i # 8
      BY <1>2, <1>5, NotPredicted
    <3> QED BY <1>1, <2>1, <2>2, <2>3, <3>1
  <2>5. /\ i = 3 => id = "StakedOasImpl" /\ i - 1 = 2
        /\ i = 5 => id = "StakedOas" /\ i - 1 = 4
        /\ i = 7 => id = "StakedTokenV2Rev4" /\ i - 1 = 6
    BY <1>2, <2>1, StepParts
  <2> QED BY <1>2, <2>4, <2>5
<1>7. Exports(s)
  BY <1>1, <1>4, <1>5 DEF Exports
<1>8. \A id \in Ids : s # <<>> => s[1] # Step("predict", id)
  BY <1>2, NotPredicted
<1> QED BY <1>7, <1>8 DEF FromExport, s

(* common-deployment leaves oasys before it sends anything.                  *)
LEMMA DeploymentSplits ==
    \E t \in Seq(Unpredicted) : Program("common-deployment") = ExportSteps \o t
<1> DEFINE p == DeployStakedOas
           q == DeployRevision("StakedTokenV2Rev4", FALSE)
<1>1. Program("common-deployment") = (ExportSteps \o p) \o q
  BY Zenon DEF Program, CommonDeployment, ExportSteps, Leave, Leaving
<1>2. p \in Seq(Unpredicted) /\ q \in Seq(Unpredicted) /\ ExportSteps \in Seq(Steps)
  BY UnpredictedParts, FrontSteps
<1>3. p \in Seq(Steps) /\ q \in Seq(Steps) /\ p \o q \in Seq(Unpredicted)
  <2> HIDE DEF p, q
  <2> QED BY <1>2, Concatenations DEF Unpredicted
<1> HIDE DEF p, q
<1>4. \A x, y, z \in Seq(Steps) : (x \o y) \o z = x \o (y \o z)
  OBVIOUS
<1> QED BY <1>1, <1>2, <1>3, <1>4

LEMMA ProgramExports == \A t \in TaskNames \ DirectDeployments : FromExport(Program(t))
<1>1. FromExport(Program("common-deployment"))
  BY DeploymentSplits, FrontExports
<1>2. "StakedTokenV2Rev3" \in Revisions /\ "StakedTokenV2Rev4" \in Revisions
  BY DEF Revisions
<1>3. /\ FromExport(CommonInitialization) /\ FromExport(VerificationTask)
      /\ FromExport(InitializeStakedOas)
      /\ FromExport(Upgrade("StakedTokenV2Rev3")) /\ FromExport(Upgrade("StakedTokenV2Rev4"))
  BY <1>2, PlainPrograms, PlainExports
<1> QED BY <1>1, <1>3 DEF Program, TaskNames, DirectDeployments

LEMMA TodoFacts ==
    ASSUME EntriesInv
    PROVE  /\ todo \in Seq(Steps) /\ Len(todo) \in Nat /\ (todo = <<>> <=> Len(todo) = 0)
           /\ todo # <<>> => /\ Tail(todo) \in Seq(Steps) /\ Len(Tail(todo)) = Len(todo) - 1
                             /\ Head(todo) = todo[1]
  BY DEF EntriesInv, ProcessInv, Remaining

(* On oasys an entry stands for an address at which the factory creates the  *)
(* exported contract, and its calldata is right.                             *)
Exported(id) == db[id] = PredictedAddress(id) /\ calldata[id] = Right(id)

OasysInv ==
    network = "oasys" =>
       /\ Exports(todo)
       /\ \A id \in Ids : db[id] = Unregistered \/ Exported(id)
       /\ \A id \in Ids : todo # <<>> /\ todo[1] = Step("predict", id) => calldata[id] = Right(id)

LEMMA OasysInit == Init => OasysInv
<1>1. Exports(<<>>)
  BY DEF Exports
<1> QED BY <1>1 DEF Init, OasysInv

LEMMA WritesRight ==
    ASSUME EntriesInv, EntriesInv', [Next]_vars, NEW x \in Ids,
           calldata' = [calldata EXCEPT ![x] = CreationOf(x)]
    PROVE  calldata'[x] = Right(x)
<1>1. calldata'[x] = CreationOf(x)
  BY DEF EntriesInv, FilesInv
<1>2. calldata'[x] \in {NoCalldata, Right(x)}
  <2>1. NoCalldata' = NoCalldata /\ Right(x)' = Right(x)
    BY RightFixed DEF NoCalldata
  <2> QED BY <2>1 DEF EntriesInv, FilesInv
<1>3. CreationOf(x).code # "" /\ NoCalldata.code = ""
  BY CodeOfFacts DEF CreationOf, NoCalldata
<1> QED BY <1>1, <1>2, <1>3

(* What is exported stays so, but for the entry that is written.             *)
LEMMA ExportedStays ==
    ASSUME EntriesInv, EntriesInv', [Next]_vars, NEW id \in Ids, calldata[id] = Right(id)
    PROVE  calldata'[id] = Right(id) /\ Right(id)' = Right(id)
<1>1. Right(id) # NoCalldata
  BY CodeOfFacts DEF Right, NoCalldata
<1> QED BY <1>1, CalldataStays, RightFixed

LEMMA OasysRests ==
    ASSUME EntriesInv, EntriesInv', OasysInv, [Next]_vars, db' = db,
           todo' = todo \/ todo' = <<>>
    PROVE  OasysInv'
<1> SUFFICES ASSUME network = "oasys" PROVE OasysInv'
  BY RightFixed DEF OasysInv
<1>1. Exports(todo')
  <2>1. Exports(<<>>)
    BY DEF Exports
  <2> QED BY <2>1 DEF OasysInv
<1>2. \A id \in Ids : db'[id] = Unregistered \/ Exported(id)'
  BY ExportedStays DEF OasysInv, Exported, PredictedAddress
<1>3. ASSUME NEW id \in Ids, todo' # <<>>, todo'[1] = Step("predict", id)
      PROVE  calldata'[id] = Right(id)'
  BY <1>3, ExportedStays DEF OasysInv
<1> QED BY <1>1, <1>2, <1>3 DEF OasysInv, Unregistered, NoContract

(* The file is written before the entry, step after step.                    *)
LEMMA OasysPasses ==
    ASSUME EntriesInv, EntriesInv', OasysInv, [Next]_vars, network = "oasys",
           todo # <<>>, NEW do, NEW x, Head(todo) = Step(do, x), do # Leaving,
           todo' = Tail(todo),
           do = "write" => x \in Ids /\ calldata' = [calldata EXCEPT ![x] = CreationOf(x)],
           IF do = "predict" THEN x \in Ids /\ db' = [db EXCEPT ![x] = PredictedAddress(x)]
           ELSE db' = db
    PROVE  OasysInv'
<1>1. Exports(todo')
  <2>1. Head(todo) # Leave
    BY StepParts, NotPredicted
  <2> QED BY <2>1, ExportsTail DEF OasysInv
<1>2. ASSUME NEW id \in Ids PROVE db'[id] = Unregistered \/ Exported(id)'
  <2>1. CASE db'[id] = db[id]
    BY <2>1, ExportedStays DEF OasysInv, Exported, PredictedAddress
  <2>2. CASE do = "predict" /\ id = x
    <3>1. todo[1] = Step("predict", id) /\ db'[id] = PredictedAddress(id)
      BY <2>2, TodoFacts DEF EntriesInv, FilesInv
    <3>2. calldata[id] = Right(id)
      BY <3>1 DEF OasysInv
    <3> QED BY <3>1, <3>2, ExportedStays DEF Exported, PredictedAddress
  <2> QED BY <2>1, <2>2 DEF EntriesInv, FilesInv
<1>3. ASSUME NEW id \in Ids, todo' # <<>>, todo'[1] = Step("predict", id)
      PROVE  calldata'[id] = Right(id)'
  <2>1. /\ 2 \in 1 .. Len(todo) /\ todo[2] = Step("predict", id)
    <3>1. todo \in Seq(Steps)
      BY TodoFacts
    <3> QED BY <1>3, <3>1
  <2>2. todo[2 - 1] = Step("write", id)
    BY <2>1 DEF OasysInv, Exports
  <2>3. do = "write" /\ x = id
    BY <2>2, TodoFacts, StepFields
  <2> QED BY <2>3, WritesRight, RightFixed
<1> QED BY <1>1, <1>2, <1>3 DEF OasysInv, Unregistered, NoContract

LEMMA OasysStep == EntriesInv /\ EntriesInv' /\ OasysInv /\ [Next]_vars => OasysInv'
<1> SUFFICES ASSUME EntriesInv, EntriesInv', OasysInv, [Next]_vars, network = "oasys"
             PROVE  OasysInv'
  BY RightFixed DEF OasysInv
<1>1. ASSUME NEW t \in Tasks, Start(t) PROVE OasysInv'
  <2>1. /\ todo' = Program(t) /\ t \in TaskNames \ DirectDeployments
        /\ db' = db /\ calldata' = calldata
    BY <1>1, DeploymentAssumption DEF Start, fileVars
  <2>2. Exports(todo') /\ \A id \in Ids : todo' # <<>> => todo'[1] # Step("predict", id)
    BY <2>1, ProgramExports DEF FromExport
  <2>3. \A id \in Ids : db'[id] = Unregistered \/ Exported(id)'
    BY <2>1, ExportedStays DEF OasysInv, Exported, PredictedAddress
  <2> QED BY <2>2, <2>3 DEF OasysInv, Unregistered, NoContract
<1>2. ASSUME NEW how, Ending(how) PROVE OasysInv'
  BY <1>2, OasysRests DEF Ending, EndsAs, fileVars
<1>3. ASSUME NEW do, NEW x, Passing(do, x) PROVE OasysInv'
  BY <1>3, OasysPasses DEF Passing
<1>4. CASE LeaveOasys
  <2>1. todo' = <<>> /\ db' = db
    BY <1>4, Zenon DEF LeaveOasys, fileVars
  <2> QED BY <2>1, OasysRests
<1>5. ASSUME NEW w \in Ids, SendCalldata(w) \/ CreateContract(w) \/ CallProxy(w) PROVE OasysInv'
  <2>1. PICK do \in Sending : /\ todo # <<>> /\ Head(todo) = Step(do, w)
                              /\ todo' = Tail(todo) /\ db' = db
    BY <1>5, SendingMoves DEF fileVars
  <2>2. do # Leaving /\ do # "write" /\ do # "predict"
    BY OthersStay DEF Sending
  <2> QED BY <2>1, <2>2, OasysPasses
<1>6. ASSUME NEW w \in Ids, RegisterContract(w) PROVE FALSE
  <2>1. todo # <<>> /\ Head(todo) = Step("register", w)
    BY <1>6, StepFacts DEF RegisterContract
  <2>2. 1 \in 1 .. Len(todo) /\ todo[1].do = "register"
    BY <2>1, TodoFacts, StepParts
  <2>3. \E j \in 1 .. 1 - 1 : todo[j] = Leave
    BY <2>2 DEF OasysInv, Exports
  <2> QED BY <2>3
<1>7. CASE Resting \/ ChainStep
  <2>1. todo' = todo /\ db' = db
    BY <1>7, ChainStepFrame DEF Resting, fileVars, processVars
  <2> QED BY <2>1, OasysRests
<1> QED BY <1>1, <1>2, <1>3, <1>4, <1>5, <1>6, <1>7, Moves

(* deploy: an entry of the proxy or of the first implementation stands for a *)
(* mined contract with the right code and arguments, and on oasys any entry  *)
(* for an address at which the factory creates the right one, however many   *)
(* processes were killed, mempools lost and tasks repeated.                  *)
THEOREM RegisteredEntriesExist == Spec => []RegisteredExists
<1>1. EntriesInv /\ OasysInv => RegisteredExists
  <2> SUFFICES ASSUME EntriesInv, OasysInv,
                      NEW id \in (IF network = "oasys" THEN Ids ELSE {"StakedOas", "StakedOasImpl"})
               PROVE  db[id] = Unregistered \/ Ready(id) \/ Promised(id)
    BY DEF RegisteredExists
  <2>1. CASE network = "oasys"
    BY <2>1 DEF OasysInv, Exported, Promised, Right
  <2>2. CASE network # "oasys"
    BY <2>2, EntryReady DEF Direct
  <2> QED BY <2>1, <2>2
<1>2. EntriesInv /\ OasysInv /\ [Next]_vars => EntriesInv' /\ OasysInv'
  BY EntriesStep, OasysStep
<1> QED BY <1>1, <1>2, EntriesInit, OasysInit, PTL DEF Spec

-----------------------------------------------------------------------------
(* The end of common-deployment *)

Has(s, step) == \E i \in 1 .. Len(s) : s[i] = step

\* The steps of a program from its last one back, as far as they are there.
EndsIn(s, steps) ==
    \A j \in 1 .. Len(steps) : j <= Len(s) => s[Len(s) + 1 - j] = steps[j]

LEMMA HasConcat ==
    ASSUME NEW s \in Seq(Steps), NEW t \in Seq(Steps), NEW step, Has(s, step) \/ Has(t, step)
    PROVE  Has(s \o t, step)
<1>1. /\ Len(s) \in Nat /\ Len(t) \in Nat /\ Len(s \o t) = Len(s) + Len(t)
      /\ \A i \in 1 .. Len(s) : (s \o t)[i] = s[i]
      /\ \A i \in 1 .. Len(t) : (s \o t)[Len(s) + i] = t[i]
  BY ConcatFacts
<1> DEFINE u == s \o t
<1> HIDE DEF u
<1>2. CASE Has(s, step)
  <2>1. PICK i \in 1 .. Len(s) : s[i] = step
    BY <1>2 DEF Has
  <2>2. i \in 1 .. Len(u) /\ u[i] = step
    BY <1>1, <2>1 DEF u
  <2> QED BY <2>2 DEF Has, u
<1>3. CASE Has(t, step)
  <2>1. PICK i \in 1 .. Len(t) : t[i] = step
    BY <1>3 DEF Has
  <2>2. Len(s) + i \in 1 .. Len(u) /\ u[Len(s) + i] = step
    BY <1>1, <2>1 DEF u
  <2> QED BY <2>2 DEF Has, u
<1> QED BY <1>2, <1>3

LEMMA TailHas ==
    ASSUME NEW s \in Seq(Steps), s # <<>>, NEW step, Has(s, step), Head(s) # step
    PROVE  Has(Tail(s), step)
<1>1. /\ Len(s) \in Nat \ {0} /\ Len(Tail(s)) = Len(s) - 1 /\ Head(s) = s[1]
      /\ \A i \in 1 .. Len(s) - 1 : Tail(s)[i] = s[i + 1]
  OBVIOUS
<1>2. PICK i \in 1 .. Len(s) : s[i] = step
  BY DEF Has
<1>3. i # 1
  BY <1>1, <1>2
<1>4. i - 1 \in 1 .. Len(s) - 1 /\ Tail(s)[i - 1] = s[i]
  BY <1>1, <1>2, <1>3
<1> QED BY <1>1, <1>2, <1>4 DEF Has

LEMMA TailEnds ==
    ASSUME NEW s \in Seq(Steps), s # <<>>, NEW steps, Len(steps) \in Nat, EndsIn(s, steps)
    PROVE  EndsIn(Tail(s), steps)
<1>1. /\ Len(s) \in Nat \ {0} /\ Len(Tail(s)) = Len(s) - 1
      /\ \A i \in 1 .. Len(s) - 1 : Tail(s)[i] = s[i + 1]
  OBVIOUS
<1> DEFINE t == Tail(s)
<1> HIDE DEF t
<1> SUFFICES ASSUME NEW j \in 1 .. Len(steps), j <= Len(t)
             PROVE  t[Len(t) + 1 - j] = steps[j]
  BY DEF EndsIn, t
<1>2. Len(t) + 1 - j \in 1 .. Len(s) - 1 /\ (Len(t) + 1 - j) + 1 = Len(s) + 1 - j /\ j <= Len(s)
  BY <1>1 DEF t
<1>3. t[Len(t) + 1 - j] = s[(Len(t) + 1 - j) + 1]
  BY <1>1, <1>2 DEF t
<1>4. s[Len(s) + 1 - j] = steps[j]
  BY <1>2 DEF EndsIn
<1> QED BY <1>2, <1>3, <1>4

LEMMA HeadEnds ==
    ASSUME NEW s \in Seq(Steps), s # <<>>, NEW steps, EndsIn(s, steps),
           Len(s) \in 1 .. Len(steps)
    PROVE  Head(s) = steps[Len(s)]
<1>1. Len(s) \in Nat \ {0} /\ Head(s) = s[1]
  OBVIOUS
<1>2. s[Len(s) + 1 - Len(s)] = steps[Len(s)]
  BY <1>1 DEF EndsIn
<1>3. Len(s) + 1 - Len(s) = 1
  BY <1>1
<1> QED BY <1>1, <1>2, <1>3

LEMMA ConcatEnds ==
    ASSUME NEW s \in Seq(Steps), NEW t \in Seq(Steps), NEW steps, EndsIn(t, steps),
           Len(steps) \in Nat, Len(steps) <= Len(t)
    PROVE  EndsIn(s \o t, steps)
<1>1. /\ Len(s) \in Nat /\ Len(t) \in Nat /\ Len(s \o t) = Len(s) + Len(t)
      /\ \A i \in 1 .. Len(t) : (s \o t)[Len(s) + i] = t[i]
  BY ConcatFacts
<1> DEFINE u == s \o t
<1> HIDE DEF u
<1> SUFFICES ASSUME NEW j \in 1 .. Len(steps) PROVE u[Len(u) + 1 - j] = steps[j]
  BY DEF EndsIn, u
<1>2. Len(t) + 1 - j \in 1 .. Len(t) /\ Len(u) + 1 - j = Len(s) + (Len(t) + 1 - j) /\ j <= Len(t)
  BY <1>1 DEF u
<1>3. u[Len(s) + (Len(t) + 1 - j)] = t[Len(t) + 1 - j]
  BY <1>1, <1>2 DEF u
<1>4. t[Len(t) + 1 - j] = steps[j]
  BY <1>2 DEF EndsIn
<1> QED BY <1>2, <1>3, <1>4

RevisionEnd ==
    <<Step("register", "StakedTokenV2Rev4"), Wait, Step("register", "StakedTokenV2Rev4"),
      Step("create", "StakedTokenV2Rev4")>>

LEMMA Appended ==
    ASSUME NEW S, NEW s \in Seq(S), NEW t \in Seq(S)
    PROVE  /\ s \o t \in Seq(S) /\ Len(s \o t) = Len(s) + Len(t)
           /\ Len(s) \in Nat /\ Len(t) \in Nat
           /\ \A i \in 1 .. Len(s) : (s \o t)[i] = s[i]
           /\ \A i \in 1 .. Len(t) : (s \o t)[Len(s) + i] = t[i]
  OBVIOUS

LEMMA Pairs ==
    ASSUME NEW S, NEW a \in S, NEW b \in S
    PROVE  /\ <<a, b>> \in Seq(S) /\ Len(<<a, b>>) = 2 /\ <<a, b>>[1] = a /\ <<a, b>>[2] = b
           /\ <<a, b>> \o <<>> = <<a, b>>
  OBVIOUS

LEMMA LastFour ==
    ASSUME NEW S, NEW p \in Seq(S), NEW q \in Seq(S), NEW r \in Seq(S), Len(q) = 2, Len(r) = 2
    PROVE  /\ p \o q \o r \in Seq(S) /\ Len(p \o q \o r) = Len(p) + 4 /\ Len(p) \in Nat
           /\ (p \o q \o r)[Len(p) + 1] = q[1] /\ (p \o q \o r)[Len(p) + 2] = q[2]
           /\ (p \o q \o r)[Len(p) + 3] = r[1] /\ (p \o q \o r)[Len(p) + 4] = r[2]
<1> DEFINE v == p \o q
           u == v \o r
<1>1. /\ v \in Seq(S) /\ Len(v) = Len(p) + Len(q) /\ Len(p) \in Nat
      /\ \A i \in 1 .. Len(q) : v[Len(p) + i] = q[i]
  BY Appended
<1> HIDE DEF v
<1>0. v \in Seq(S)
  BY <1>1
<1>2. /\ u \in Seq(S) /\ Len(u) = Len(v) + Len(r)
      /\ \A i \in 1 .. Len(v) : u[i] = v[i]
      /\ \A i \in 1 .. Len(r) : u[Len(v) + i] = r[i]
  <2>1. \A x, y \in Seq(S) :
           /\ x \o y \in Seq(S) /\ Len(x \o y) = Len(x) + Len(y)
           /\ \A i \in 1 .. Len(x) : (x \o y)[i] = x[i]
           /\ \A i \in 1 .. Len(y) : (x \o y)[Len(x) + i] = y[i]
    BY Appended
  <2> QED BY <1>0, <2>1, Zenon
<1> HIDE DEF u
<1>3. u[Len(p) + 1] = q[1] /\ u[Len(p) + 2] = q[2]
  <2>1. Len(p) + 1 \in 1 .. Len(v) /\ Len(p) + 2 \in 1 .. Len(v)
    BY <1>1
  <2> QED BY <1>1, <1>2, <2>1
<1>4. u[Len(p) + 3] = r[1] /\ u[Len(p) + 4] = r[2]
  <2>1. /\ 1 \in 1 .. Len(r) /\ 2 \in 1 .. Len(r)
        /\ Len(v) + 1 = Len(p) + 3 /\ Len(v) + 2 = Len(p) + 4
    BY <1>1
  <2> QED BY <1>2, <2>1
<1> QED BY <1>1, <1>2, <1>3, <1>4 DEF u, v

LEMMA CreatePair ==
    ASSUME NEW id, Step("create", id) \in Steps, Step("register", id) \in Steps
    PROVE  /\ CreateRevision(id, FALSE) \in Seq(Steps) /\ Len(CreateRevision(id, FALSE)) = 2
           /\ CreateRevision(id, FALSE)[1] = Step("create", id)
           /\ CreateRevision(id, FALSE)[2] = Step("register", id)
<1> DEFINE a == Step("create", id)
           b == Step("register", id)
<1>1. CreateRevision(id, FALSE) = <<a, b>> \o <<>>
  BY Zenon DEF CreateRevision
<1>2. a \in Steps /\ b \in Steps
  OBVIOUS
<1> HIDE DEF a, b
<1>3. CreateRevision(id, FALSE) = <<a, b>>
  <2>1. <<a, b>> \o <<>> = <<a, b>>
    BY <1>2, Pairs
  <2> QED BY <1>1, <2>1, Zenon
<1>4. <<a, b>> \in Seq(Steps) /\ Len(<<a, b>>) = 2 /\ <<a, b>>[1] = a /\ <<a, b>>[2] = b
  BY <1>2, Pairs
<1> QED BY <1>3, <1>4, Zenon DEF a, b

LEMMA RevisionEnds ==
    LET u == DeployRevision("StakedTokenV2Rev4", FALSE)
    IN  u \in Seq(Steps) /\ 3 < Len(u) /\ EndsIn(u, RevisionEnd) /\ Len(RevisionEnd) = 4
<1> DEFINE id == "StakedTokenV2Rev4"
           u == DeployRevision(id, FALSE)
           p == <<>> \o <<Check("chain id"), Check("addresses")>>
           create == Step("create", id)
           register == Step("register", id)
           e == RevisionEnd
           w == Wait
           q == CreateRevision(id, FALSE)
           r == <<Wait, register>>
<1>1. /\ create \in Steps /\ register \in Steps /\ Wait \in Steps
      /\ Check("chain id") \in Steps /\ Check("addresses") \in Steps
  <2>1. {"create", "register", "wait", "check"} \subseteq Kinds
        /\ {id, "", "chain id", "addresses"} \subseteq Names
    BY DEF Kinds, Names
  <2> QED BY <2>1, StepIsStep, Zenon DEF Wait, Check
<1>2. p \in Seq(Steps)
  <2>1. <<>> \in Seq(Steps) /\ <<Check("chain id"), Check("addresses")>> \in Seq(Steps)
    BY <1>1, Tuples, Zenon
  <2> QED BY <2>1, Concatenations, Zenon
<1>3. u = p \o q \o r
  BY Zenon DEF DeployRevision
<1>q. q \in Seq(Steps) /\ Len(q) = 2 /\ q[1] = create /\ q[2] = register
  BY <1>1, CreatePair
<1>r. r \in Seq(Steps) /\ Len(r) = 2 /\ r[1] = w /\ r[2] = register
  BY <1>1, Pairs, Zenon
<1>4. /\ Len(e) = 4
      /\ e[1] = register /\ e[2] = w /\ e[3] = register /\ e[4] = create
  BY DEF RevisionEnd
<1> HIDE DEF id, p, q, r, u, create, register, e, w
<1>5. /\ u \in Seq(Steps) /\ Len(u) = Len(p) + 4 /\ Len(p) \in Nat
      /\ u[Len(p) + 1] = create /\ u[Len(p) + 2] = register
      /\ u[Len(p) + 3] = w /\ u[Len(p) + 4] = register
  BY <1>2, <1>3, <1>q, <1>r, LastFour
<1>6. ASSUME NEW j \in 1 .. Len(e) PROVE u[Len(u) + 1 - j] = e[j]
  <2>1. j = 1 \/ j = 2 \/ j = 3 \/ j = 4
    BY <1>4
  <2>2. /\ Len(u) + 1 - 1 = Len(p) + 4 /\ Len(u) + 1 - 2 = Len(p) + 3
        /\ Len(u) + 1 - 3 = Len(p) + 2 /\ Len(u) + 1 - 4 = Len(p) + 1
    BY <1>5
  <2> QED BY <1>4, <1>5, <2>1, <2>2
<1>7. EndsIn(u, e)
  BY <1>6 DEF EndsIn
<1>8. 3 < Len(u)
  BY <1>5
<1> QED BY <1>4, <1>5, <1>7, <1>8 DEF u, e, id

LEMMA DeployHas == \A id \in Ids : Deploy(id) \in Seq(Steps) /\ Has(Deploy(id), Step("register", id))
<1> SUFFICES ASSUME NEW id \in Ids
             PROVE  Deploy(id) \in Seq(Steps) /\ Has(Deploy(id), Step("register", id))
  OBVIOUS
<1>1. Step("send", id) \in Steps /\ Wait \in Steps /\ Step("register", id) \in Steps
  <2>1. {"send", "wait", "register"} \subseteq Kinds /\ Ids \subseteq Names /\ "" \in Names
    BY DEF Kinds, Names, Ids, CodeOf
  <2> QED BY <2>1, StepIsStep DEF Wait
<1> DEFINE s == Deploy(id)
<1>2. s \in Seq(Steps) /\ Len(s) = 3 /\ s[3] = Step("register", id)
  BY <1>1 DEF Deploy
<1> QED BY <1>2 DEF Has

(* common-deployment registers the proxy and the first implementation, and   *)
(* its last four steps deploy revision 4.                                    *)
LEMMA DeploymentProgram ==
    LET s == Program("common-deployment")
    IN  /\ s \in Seq(Steps) /\ 3 < Len(s) /\ EndsIn(s, RevisionEnd)
        /\ \A id \in Direct : Has(s, Step("register", id))
<1> DEFINE v == DeployRevision("StakedTokenV2Rev4", FALSE)
           front == <<Check("admin")>> \o ExportStakedOas \o Export("StakedTokenV2Rev4")
                    \o <<Step("leave oasys", "")>>
           s == Program("common-deployment")
<1>1. s = (front \o DeployStakedOas) \o v
  BY Zenon DEF Program, CommonDeployment
<1>2. v \in Seq(Steps) /\ 3 < Len(v) /\ EndsIn(v, RevisionEnd) /\ Len(RevisionEnd) = 4
  BY RevisionEnds
<1>3. front \in Seq(Steps)
  <2>1. /\ <<Check("admin")>> \in Seq(Harmless) /\ ExportStakedOas \in Seq(Harmless)
        /\ Export("StakedTokenV2Rev4") \in Seq(Harmless)
        /\ <<Step("leave oasys", "")>> \in Seq(Harmless)
    BY ProgramParts, Zenon
  <2>2. front \in Seq(Harmless)
    BY <2>1, Concatenations, Zenon
  <2> HIDE DEF front
  <2> QED BY <2>2 DEF Harmless
<1>4. /\ DeployStakedOas \in Seq(Steps)
      /\ \A id \in Direct : Has(DeployStakedOas, Step("register", id))
  <2>1. \A id \in Direct : Deploy(id) \in Seq(Steps) /\ Has(Deploy(id), Step("register", id))
    BY DeployHas, DirectIds
  <2>2. {"StakedOas", "StakedOasImpl"} = Direct
    BY DEF Direct
  <2> QED BY <2>1, <2>2, HasConcat, Concatenations DEF DeployStakedOas
<1> HIDE DEF front, v, s
<1> DEFINE w == front \o DeployStakedOas
<1>5. w \in Seq(Steps) /\ \A id \in Direct : Has(w, Step("register", id))
  BY <1>3, <1>4, HasConcat, Concatenations
<1> HIDE DEF w
<1>6. s = w \o v
  BY <1>1 DEF w
<1>7. s \in Seq(Steps) /\ Len(s) = Len(w) + Len(v) /\ Len(w) \in Nat /\ Len(v) \in Nat
  BY <1>2, <1>5, <1>6, ConcatFacts
<1>8. EndsIn(s, RevisionEnd)
  <2>1. Len(RevisionEnd) \in Nat /\ Len(RevisionEnd) <= Len(v)
    BY <1>2, <1>7
  <2> QED BY <1>2, <1>5, <1>6, <2>1, ConcatEnds
<1>9. \A id \in Direct : Has(s, Step("register", id))
  BY <1>2, <1>5, <1>6, HasConcat
<1>10. 3 < Len(s)
  BY <1>2, <1>7
<1> QED BY <1>7, <1>8, <1>9, <1>10 DEF s

Deploying == task = "common-deployment" /\ network # "oasys"

(* The process has sent the creation of revision 4; it is there or was lost. *)
SentRevision == last # 0 /\ (last <= Len(sent) => Creates(last, "StakedTokenV2Rev4"))
MinedRevision == last \in 1 .. mined /\ Creates(last, "StakedTokenV2Rev4")
RegisteredRevision ==
    \E n \in 1 .. mined : db["StakedTokenV2Rev4"] = AddressOf(n) /\ Creates(n, "StakedTokenV2Rev4")

(* While common-deployment runs: what is not registered yet is still to be   *)
(* registered; and the further it got with revision 4, the more is there.    *)
CompleteInv ==
    Deploying =>
       /\ \A id \in Direct : Has(todo, Step("register", id)) \/ db[id] # Unregistered
       /\ EndsIn(todo, RevisionEnd)
       /\ Len(todo) \in 2 .. 3 => SentRevision
       /\ Len(todo) = 1 => MinedRevision
       /\ todo = <<>> => RegisteredRevision

LEMMA RevisionSteps ==
    /\ Len(RevisionEnd) = 4
    /\ RevisionEnd[1] = Step("register", "StakedTokenV2Rev4") /\ RevisionEnd[2] = Wait
    /\ RevisionEnd[3] = Step("register", "StakedTokenV2Rev4")
    /\ RevisionEnd[4] = Step("create", "StakedTokenV2Rev4")
  BY DEF RevisionEnd

LEMMA CompleteHead ==
    ASSUME EntriesInv, CompleteInv, Deploying, todo # <<>>, Len(todo) <= 4
    PROVE  Head(todo) = RevisionEnd[Len(todo)] /\ Len(todo) \in 1 .. 4
<1>1. Len(todo) \in 1 .. Len(RevisionEnd)
  BY TodoFacts, RevisionSteps
<1>2. EndsIn(todo, RevisionEnd) /\ todo \in Seq(Steps)
  BY TodoFacts DEF CompleteInv
<1> QED BY <1>1, <1>2, HeadEnds, RevisionSteps

(* What is sent and registered stays so while the process rests.             *)
LEMMA CompleteRests ==
    ASSUME EntriesInv, CompleteInv, UNCHANGED <<network, processVars, fileVars>>,
           \A id : Right(id)' = Right(id),
           Len(sent) \in Nat, Len(sent') \in Nat, Len(sent') <= Len(sent),
           \A n \in 1 .. Len(sent') : sent'[n] = sent[n],
           mined \in Nat, mined' \in 0 .. Len(sent'), mined <= mined'
    PROVE  CompleteInv'
<1>1. /\ task' = task /\ todo' = todo /\ last' = last /\ db' = db /\ network' = network
      /\ last \in Nat
  BY DEF processVars, fileVars, EntriesInv, ChainInv
<1>2. ASSUME NEW n \in Nat \ {0}, n <= Len(sent'), NEW id, Creates(n, id)
      PROVE  Creates(n, id)'
  BY <1>1, <1>2 DEF Creates
<1> SUFFICES ASSUME Deploying
             PROVE  /\ \A id \in Direct : Has(todo, Step("register", id)) \/ db[id] # Unregistered
                    /\ EndsIn(todo, RevisionEnd)
                    /\ Len(todo) \in 2 .. 3 => SentRevision'
                    /\ Len(todo) = 1 => MinedRevision'
                    /\ todo = <<>> => RegisteredRevision'
  BY <1>1 DEF CompleteInv, Deploying
<1>3. ASSUME SentRevision PROVE SentRevision'
  BY <1>1, <1>2, <1>3 DEF SentRevision
<1>4. ASSUME MinedRevision PROVE MinedRevision'
  BY <1>1, <1>2, <1>4 DEF MinedRevision
<1>5. ASSUME RegisteredRevision PROVE RegisteredRevision'
  <2>1. PICK n \in 1 .. mined : db["StakedTokenV2Rev4"] = AddressOf(n)
                                /\ Creates(n, "StakedTokenV2Rev4")
    BY <1>5 DEF RegisteredRevision
  <2>2. n \in 1 .. mined' /\ Creates(n, "StakedTokenV2Rev4")'
    BY <1>2, <2>1
  <2> QED BY <1>1, <2>1, <2>2 DEF RegisteredRevision, AddressOf
<1> QED BY <1>3, <1>4, <1>5 DEF CompleteInv

LEMMA CompletePasses ==
    ASSUME EntriesInv, CompleteInv, NEW do, NEW x, Passing(do, x),
           \A id : Right(id)' = Right(id)
    PROVE  CompleteInv'
<1>1. /\ task' = task /\ todo' = Tail(todo) /\ last' = last /\ network' = network
      /\ todo # <<>> /\ Head(todo) = Step(do, x)
      /\ sent' = sent /\ mined' = mined
      /\ do \notin {"send", "create", "call", "register"}
      /\ do = "wait" => last \in 1 .. mined
  BY DEF Passing, chainVars
<1> SUFFICES ASSUME Deploying PROVE CompleteInv'
  BY <1>1 DEF CompleteInv, Deploying
<1>2. db' = db
  BY DEF Passing, Deploying
<1>3. /\ todo \in Seq(Steps) /\ Len(todo) \in Nat \ {0} /\ todo' \in Seq(Steps)
      /\ Len(todo') = Len(todo) - 1 /\ (todo' = <<>> <=> Len(todo') = 0)
  <2>1. \A s \in Seq(Steps) : s = <<>> <=> Len(s) = 0
    OBVIOUS
  <2>2. Tail(todo) \in Seq(Steps) /\ Len(Tail(todo)) = Len(todo) - 1 /\ Len(todo) \in Nat \ {0}
        /\ todo \in Seq(Steps)
    BY <1>1, TodoFacts
  <2> QED BY <1>1, <2>1, <2>2
<1>4. ASSUME NEW id \in Direct
      PROVE  Has(todo', Step("register", id)) \/ db'[id] # Unregistered
  <2>1. Step(do, x) # Step("register", id)
    BY <1>1, OtherKind
  <2>2. Has(todo, Step("register", id)) \/ db[id] # Unregistered
    BY DEF CompleteInv
  <2> QED BY <1>1, <1>2, <1>3, <2>1, <2>2, TailHas
<1>5. EndsIn(todo', RevisionEnd)
  <2>1. EndsIn(todo, RevisionEnd)
    BY DEF CompleteInv
  <2> QED BY <1>1, <1>3, <2>1, TailEnds, RevisionSteps
<1>6. Len(todo) <= 4 => Len(todo) = 2 /\ do = "wait"
  <2> SUFFICES ASSUME Len(todo) <= 4 PROVE Len(todo) = 2 /\ do = "wait"
    OBVIOUS
  <2>1. Step(do, x) = RevisionEnd[Len(todo)] /\ Len(todo) \in 1 .. 4
    BY <1>1, CompleteHead
  <2>2. Len(todo) = 1 \/ Len(todo) = 2 \/ Len(todo) = 3 \/ Len(todo) = 4
    BY <2>1
  <2>3. \A id : Step(do, x) # Step("register", id) /\ Step(do, x) # Step("create", id)
    BY <1>1, OtherStep
  <2>4. Len(todo) = 2
    BY <2>1, <2>2, <2>3, RevisionSteps
  <2>5. Step(do, x) = Wait
    BY <2>1, <2>4, RevisionSteps
  <2>6. do = "wait"
    BY <2>5, OtherStep, Zenon DEF Wait
  <2> QED BY <2>4, <2>6
<1>7. ASSUME Len(todo) = 2 PROVE MinedRevision'
  <2>1. last \in 1 .. mined /\ SentRevision
    BY <1>1, <1>6, <1>7 DEF CompleteInv
  <2>2. last <= Len(sent)
    BY <2>1, SentFacts
  <2> QED BY <1>1, <2>1, <2>2 DEF SentRevision, MinedRevision, Creates
<1>8. /\ Len(todo') \notin 2 .. 3 /\ todo' # <<>>
      /\ Len(todo') = 1 => Len(todo) = 2
  <2>1. Len(todo) <= 4 => Len(todo) = 2
    BY <1>6
  <2>2. Len(todo) \in Nat \ {0} /\ Len(todo') = Len(todo) - 1 /\ (todo' = <<>> <=> Len(todo') = 0)
    BY <1>3
  <2>3. \A n \in Nat \ {0} : (n <= 4 => n = 2) =>
           n - 1 \notin 2 .. 3 /\ n - 1 # 0 /\ (n - 1 = 1 => n = 2)
    OBVIOUS
  <2>4. Len(todo') \notin 2 .. 3 /\ Len(todo') # 0 /\ (Len(todo') = 1 => Len(todo) = 2)
    BY <2>1, <2>2, <2>3
  <2> QED BY <2>2, <2>4
<1> QED BY <1>4, <1>5, <1>7, <1>8 DEF CompleteInv

LEMMA NonEmpty == \A s \in Seq(Steps) : s = <<>> <=> Len(s) = 0
  OBVIOUS

LEMMA CompleteSends ==
    ASSUME EntriesInv, CompleteInv, \A id : Right(id)' = Right(id), NEW w \in Ids,
           SendCalldata(w) \/ CreateContract(w) \/ CallProxy(w)
    PROVE  CompleteInv'
<1>1. PICK do, tx :
              /\ do \in Sending
              /\ todo # <<>> /\ Head(todo) = Step(do, w) /\ todo' = Tail(todo)
              /\ UNCHANGED <<network, fileVars, task>>
              /\ sent' = Append(sent, tx) /\ last' = Len(sent) + 1
              /\ do = "create" => tx = [do |-> "create", creation |-> CreationOf(w)]
  BY SendingMoves
<1>2. task' = task /\ db' = db /\ network' = network
  BY <1>1 DEF fileVars
<1> SUFFICES ASSUME Deploying PROVE CompleteInv'
  BY <1>2 DEF CompleteInv, Deploying
<1>3. /\ todo \in Seq(Steps) /\ Len(todo) \in Nat \ {0} /\ todo' \in Seq(Steps)
      /\ Len(todo') = Len(todo) - 1 /\ (todo' = <<>> <=> Len(todo') = 0)
  <2>1. Tail(todo) \in Seq(Steps) /\ Len(Tail(todo)) = Len(todo) - 1 /\ Len(todo) \in Nat \ {0}
        /\ todo \in Seq(Steps)
    BY <1>1, TodoFacts
  <2> QED BY <1>1, <2>1, NonEmpty
<1>4. ASSUME NEW id \in Direct
      PROVE  Has(todo', Step("register", id)) \/ db'[id] # Unregistered
  <2>1. Step(do, w) # Step("register", id)
    BY <1>1, OtherKind DEF Sending
  <2>2. Has(todo, Step("register", id)) \/ db[id] # Unregistered
    BY DEF CompleteInv
  <2> QED BY <1>1, <1>2, <1>3, <2>1, <2>2, TailHas
<1>5. EndsIn(todo', RevisionEnd)
  <2>1. EndsIn(todo, RevisionEnd)
    BY DEF CompleteInv
  <2> QED BY <1>1, <1>3, <2>1, TailEnds, RevisionSteps
<1>6. Len(todo) <= 4 => Len(todo) = 4 /\ do = "create" /\ w = "StakedTokenV2Rev4"
  <2> SUFFICES ASSUME Len(todo) <= 4
               PROVE  Len(todo) = 4 /\ do = "create" /\ w = "StakedTokenV2Rev4"
    OBVIOUS
  <2>1. Step(do, w) = RevisionEnd[Len(todo)] /\ Len(todo) \in 1 .. 4
    BY <1>1, CompleteHead
  <2>2. Len(todo) = 1 \/ Len(todo) = 2 \/ Len(todo) = 3 \/ Len(todo) = 4
    BY <2>1
  <2>3. \A id : Step(do, w) # Step("register", id)
    BY <1>1, OtherStep DEF Sending
  <2>4. Step(do, w) # Wait
    <3>1. do # "wait"
      BY <1>1 DEF Sending
    <3> QED BY <3>1, OtherStep, Zenon DEF Wait
  <2>5. Len(todo) = 4
    BY <2>1, <2>2, <2>3, <2>4, RevisionSteps
  <2>6. Step(do, w) = Step("create", "StakedTokenV2Rev4")
    BY <2>1, <2>5, RevisionSteps
  <2> QED BY <2>5, <2>6, StepFields
<1>7. ASSUME Len(todo) = 4 PROVE SentRevision'
  <2>1. do = "create" /\ w = "StakedTokenV2Rev4"
    BY <1>6, <1>7
  <2>2. CreationOf(w) = Right(w)
    BY DEF Deploying, CreationOf, Right
  <2>3. sent'[last'] = [do |-> "create", creation |-> Right(w)] /\ last' # 0
    BY <1>1, <2>1, <2>2, SentFacts
  <2> QED BY <2>1, <2>3 DEF SentRevision, Creates
<1>8. Len(todo') # 0 /\ Len(todo') # 1 /\ (Len(todo') \in 2 .. 3 => Len(todo) = 4)
  <2>1. Len(todo) <= 4 => Len(todo) = 4
    BY <1>6
  <2>2. \A n \in Nat \ {0} : (n <= 4 => n = 4) =>
           n - 1 # 0 /\ n - 1 # 1 /\ (n - 1 \in 2 .. 3 => n = 4)
    OBVIOUS
  <2> QED BY <1>3, <2>1, <2>2
<1>9. todo' # <<>>
  BY <1>3, <1>8
<1> QED BY <1>4, <1>5, <1>7, <1>8, <1>9 DEF CompleteInv

LEMMA CompleteRegisters ==
    ASSUME EntriesInv, CompleteInv, \A id : Right(id)' = Right(id), NEW w \in Ids,
           RegisterContract(w)
    PROVE  CompleteInv'
<1>1. /\ network' = network /\ sent' = sent /\ mined' = mined /\ last' = last
      /\ db' = [db EXCEPT ![w] = AddressOf(last)] /\ task' = task
      /\ todo # <<>> /\ Head(todo) = Step("register", w) /\ todo' = Tail(todo)
  BY StepFacts DEF RegisterContract, Environment, chainVars
<1> SUFFICES ASSUME Deploying PROVE CompleteInv'
  BY <1>1 DEF CompleteInv, Deploying
<1>2. /\ todo \in Seq(Steps) /\ Len(todo) \in Nat \ {0} /\ todo' \in Seq(Steps)
      /\ Len(todo') = Len(todo) - 1 /\ (todo' = <<>> <=> Len(todo') = 0)
  <2>1. Tail(todo) \in Seq(Steps) /\ Len(Tail(todo)) = Len(todo) - 1 /\ Len(todo) \in Nat \ {0}
        /\ todo \in Seq(Steps)
    BY <1>1, TodoFacts
  <2> QED BY <1>1, <2>1, NonEmpty
<1>3. db'[w] = AddressOf(last) /\ \A id \in Ids : id # w => db'[id] = db[id]
  BY <1>1 DEF EntriesInv, FilesInv
<1>4. ASSUME NEW id \in Direct
      PROVE  Has(todo', Step("register", id)) \/ db'[id] # Unregistered
  <2>1. Has(todo, Step("register", id)) \/ db[id] # Unregistered
    BY DEF CompleteInv
  <2>2. CASE id = w
    <3>1. todo[1] = Step("register", id)
      BY <1>1, <2>2, TodoFacts
    <3>2. last \in 1 .. mined
      BY <1>1, <3>1 DEF EntriesInv, MinedInv
    <3>3. last # 0
      BY <3>2, SentFacts
    <3> QED BY <1>3, <2>2, <3>3 DEF AddressOf, Unregistered, NoContract
  <2>3. CASE id # w
    <3>1. Head(todo) # Step("register", id)
      BY <1>1, <2>3, StepFields
    <3> QED BY <1>1, <1>2, <1>3, <2>1, <2>3, <3>1, TailHas, DirectIds
  <2> QED BY <2>2, <2>3
<1>5. EndsIn(todo', RevisionEnd)
  <2>1. EndsIn(todo, RevisionEnd)
    BY DEF CompleteInv
  <2> QED BY <1>1, <1>2, <2>1, TailEnds, RevisionSteps
<1>6. Len(todo) <= 4 => (Len(todo) = 1 \/ Len(todo) = 3) /\ w = "StakedTokenV2Rev4"
  <2> SUFFICES ASSUME Len(todo) <= 4
               PROVE  (Len(todo) = 1 \/ Len(todo) = 3) /\ w = "StakedTokenV2Rev4"
    OBVIOUS
  <2>1. Step("register", w) = RevisionEnd[Len(todo)] /\ Len(todo) \in 1 .. 4
    BY <1>1, CompleteHead
  <2>2. Len(todo) = 1 \/ Len(todo) = 2 \/ Len(todo) = 3 \/ Len(todo) = 4
    BY <2>1
  <2>3. Step("register", w) # Wait
    BY OtherStep, Zenon DEF Wait
  <2>4. Step("register", w) # Step("create", "StakedTokenV2Rev4")
    BY OtherStep
  <2>5. Len(todo) = 1 \/ Len(todo) = 3
    BY <2>1, <2>2, <2>3, <2>4, RevisionSteps
  <2>6. Step("register", w) = Step("register", "StakedTokenV2Rev4")
    BY <2>1, <2>5, RevisionSteps
  <2> QED BY <2>5, <2>6, StepFields
<1>7. ASSUME Len(todo) = 3 PROVE SentRevision'
  <2>1. SentRevision
    BY <1>7 DEF CompleteInv
  <2> QED BY <1>1, <2>1 DEF SentRevision, Creates
<1>8. ASSUME Len(todo) = 1 PROVE RegisteredRevision'
  <2>1. MinedRevision
    BY <1>8 DEF CompleteInv
  <2>2. w = "StakedTokenV2Rev4"
    BY <1>6, <1>8
  <2>3. db'["StakedTokenV2Rev4"] = AddressOf(last)
    BY <1>3, <2>2
  <2>4. Creates(last, "StakedTokenV2Rev4")'
    BY <1>1, <2>1 DEF MinedRevision, Creates
  <2>5. last \in 1 .. mined'
    BY <1>1, <2>1 DEF MinedRevision
  <2> QED BY <1>1, <2>3, <2>4, <2>5 DEF RegisteredRevision, AddressOf
<1>9. /\ Len(todo') = 0 => Len(todo) = 1
      /\ Len(todo') # 1 /\ (Len(todo') \in 2 .. 3 => Len(todo) = 3)
  <2>1. Len(todo) <= 4 => Len(todo) = 1 \/ Len(todo) = 3
    BY <1>6
  <2>2. \A n \in Nat \ {0} : (n <= 4 => n = 1 \/ n = 3) =>
           (n - 1 = 0 => n = 1) /\ n - 1 # 1 /\ (n - 1 \in 2 .. 3 => n = 3)
    OBVIOUS
  <2> QED BY <1>2, <2>1, <2>2
<1>10. todo' = <<>> => Len(todo) = 1
  BY <1>2, <1>9
<1> QED BY <1>4, <1>5, <1>7, <1>8, <1>9, <1>10 DEF CompleteInv

LEMMA LongProgram ==
    \A s \in Seq(Steps) : 3 < Len(s) => Len(s) \notin 2 .. 3 /\ Len(s) # 1 /\ s # <<>>
<1>1. \A s \in Seq(Steps) : Len(s) \in Nat
  OBVIOUS
<1>2. \A n \in Nat : 3 < n => n \notin 2 .. 3 /\ n # 1 /\ n # 0
  OBVIOUS
<1> QED BY <1>1, <1>2, NonEmpty

LEMMA CompleteStep == EntriesInv /\ CompleteInv /\ [Next]_vars => CompleteInv'
<1> SUFFICES ASSUME EntriesInv, CompleteInv, [Next]_vars PROVE CompleteInv'
  OBVIOUS
<1>1. \A id : Right(id)' = Right(id)
  BY RightFixed
<1>2. ASSUME NEW t \in Tasks, Start(t) PROVE CompleteInv'
  <2>1. task' = t /\ todo' = Program(t)
    BY <1>2 DEF Start
  <2> SUFFICES ASSUME t = "common-deployment" PROVE CompleteInv'
    BY <2>1 DEF CompleteInv, Deploying
  <2>2. /\ todo' \in Seq(Steps) /\ 3 < Len(todo') /\ EndsIn(todo', RevisionEnd)
        /\ \A id \in Direct : Has(todo', Step("register", id))
    BY <2>1, DeploymentProgram
  <2>4. Len(todo') \notin 2 .. 3 /\ Len(todo') # 1 /\ todo' # <<>>
    BY <2>2, LongProgram
  <2> QED BY <2>2, <2>4 DEF CompleteInv
<1>3. ASSUME NEW how \in {"finished", "failed", "killed"}, Ending(how) PROVE CompleteInv'
  <2>1. /\ task' = IF how = "finished" THEN task ELSE ""
        /\ todo' = <<>> /\ (how = "finished" => todo = <<>>)
        /\ network' = network /\ db' = db /\ sent' = sent /\ mined' = mined
    BY <1>3 DEF Ending, EndsAs, chainVars, fileVars
  <2>2. CASE how # "finished"
    BY <2>1, <2>2 DEF CompleteInv, Deploying
  <2>3. CASE how = "finished"
    <3> SUFFICES ASSUME Deploying PROVE CompleteInv'
      BY <2>1, <2>3 DEF CompleteInv, Deploying
    <3>1. todo = <<>> /\ todo' = todo /\ Len(todo') = 0
      <4>1. todo = <<>> /\ todo' = <<>>
        BY <2>1, <2>3
      <4> QED BY <4>1, NonEmpty, TodoFacts
    <3>2. RegisteredRevision
      BY <3>1 DEF CompleteInv
    <3>3. RegisteredRevision'
      BY <1>1, <2>1, <3>2 DEF RegisteredRevision, Creates, AddressOf
    <3>4. /\ EndsIn(todo', RevisionEnd)
          /\ \A id \in Direct : Has(todo', Step("register", id)) \/ db'[id] # Unregistered
      BY <2>1, <3>1 DEF CompleteInv
    <3> QED BY <3>1, <3>3, <3>4 DEF CompleteInv
  <2> QED BY <2>2, <2>3
<1>4. ASSUME NEW do, NEW x, Passing(do, x) PROVE CompleteInv'
  BY <1>1, <1>4, CompletePasses
<1>5. CASE network = "oasys"
  <2>1. network' = network
    BY RightFixed
  <2> QED BY <1>5, <2>1 DEF CompleteInv, Deploying
<1>6. ASSUME NEW w \in Ids, SendCalldata(w) \/ CreateContract(w) \/ CallProxy(w)
      PROVE  CompleteInv'
  BY <1>1, <1>6, CompleteSends
<1>7. ASSUME NEW w \in Ids, RegisterContract(w) PROVE CompleteInv'
  BY <1>1, <1>7, CompleteRegisters
<1>8. CASE Resting
  <2>1. UNCHANGED <<network, processVars, fileVars>> /\ sent' = sent /\ mined' = mined
    BY <1>8 DEF Resting, chainVars
  <2>2. Len(sent) \in Nat /\ mined \in 0 .. Len(sent)
    BY SentFacts
  <2> QED BY <1>1, <2>1, <2>2, CompleteRests
<1>9. CASE ChainStep
  <2>1. /\ UNCHANGED <<network, fileVars, processVars>>
        /\ Len(sent) \in Nat /\ Len(sent') \in Nat /\ Len(sent') <= Len(sent)
        /\ \A n \in 1 .. Len(sent') : sent'[n] = sent[n]
        /\ mined \in 0 .. Len(sent) /\ mined' \in 0 .. Len(sent') /\ mined <= mined'
    BY <1>9, ChainStepFrame
  <2> QED BY <1>1, <2>1, CompleteRests
<1> QED BY <1>2, <1>3, <1>4, <1>5, <1>6, <1>7, <1>8, <1>9, Moves

(* On oasys: an entry that is not written yet still is to be, before the     *)
(* task leaves.                                                              *)
Required == {"StakedOas", "StakedOasImpl", "StakedTokenV2Rev4"}

Due(s, id) ==
    \E i \in 1 .. Len(s) : s[i] = Step("predict", id) /\ \A j \in 1 .. i : s[j] # Leave

Exporting == task = "common-deployment" /\ network = "oasys"

ExportInv ==
    Exporting => \A id \in Required : Due(todo, id) \/ db[id] # Unregistered

LEMMA TailDue ==
    ASSUME NEW s \in Seq(Steps), s # <<>>, NEW id, Due(s, id), Head(s) # Step("predict", id)
    PROVE  Due(Tail(s), id)
<1>1. /\ Len(s) \in Nat \ {0} /\ Len(Tail(s)) = Len(s) - 1 /\ Head(s) = s[1]
      /\ \A i \in 1 .. Len(s) - 1 : Tail(s)[i] = s[i + 1]
  OBVIOUS
<1> DEFINE t == Tail(s)
<1> HIDE DEF t
<1>2. PICK i \in 1 .. Len(s) : s[i] = Step("predict", id) /\ \A j \in 1 .. i : s[j] # Leave
  BY DEF Due
<1>3. i # 1
  BY <1>1, <1>2
<1>4. i - 1 \in 1 .. Len(t) /\ t[i - 1] = s[i]
  BY <1>1, <1>2, <1>3 DEF t
<1>5. \A j \in 1 .. i - 1 : t[j] # Leave
  BY <1>1, <1>2, <1>3 DEF t
<1> QED BY <1>2, <1>4, <1>5 DEF Due, t

LEMMA DueStays == ASSUME NEW s \in Seq(Steps), s # <<>>, NEW id, Due(s, id) PROVE Head(s) # Leave
<1>1. PICK i \in 1 .. Len(s) : \A j \in 1 .. i : s[j] # Leave
  BY DEF Due
<1>2. 1 \in 1 .. i /\ Head(s) = s[1]
  OBVIOUS
<1> QED BY <1>1, <1>2

LEMMA PredictedRegistered == \A id : PredictedAddress(id) # Unregistered
<1>1. \A id : DOMAIN PredictedAddress(id) = {"salt"}
  BY DEF PredictedAddress
<1>2. DOMAIN Unregistered = {"nonce"}
  BY DEF Unregistered, NoContract
<1> QED BY <1>1, <1>2

LEMMA ExportStarts == \A id \in Required : Due(Program("common-deployment"), id)
<1>1. PICK t \in Seq(Unpredicted) : Program("common-deployment") = ExportSteps \o t
  BY DeploymentSplits
<1> DEFINE s == ExportSteps \o t
<1>2. t \in Seq(Steps)
  BY DEF Unpredicted
<1>3. ExportSteps \in Seq(Steps) /\ Len(ExportSteps) = 8
  BY FrontSteps, Zenon
<1>4. /\ Len(t) \in Nat /\ Len(s) = Len(ExportSteps) + Len(t)
      /\ \A i \in 1 .. Len(ExportSteps) : s[i] = ExportSteps[i]
  BY <1>2, <1>3, ConcatFacts, Zenon
<1> HIDE DEF s
<1>5. /\ Len(s) >= 8
      /\ s[1] = ExportSteps[1] /\ s[2] = ExportSteps[2] /\ s[3] = ExportSteps[3]
      /\ s[4] = ExportSteps[4] /\ s[5] = ExportSteps[5] /\ s[6] = ExportSteps[6]
      /\ s[7] = ExportSteps[7] /\ Len(s) \in Nat
  BY <1>3, <1>4
<1>6. \A i \in 1 .. 7 : s[i] # Leave
  <2>1. \A b : \A a \in {"write", "predict"} : Step(a, b) # Leave
    BY StepParts, NotPredicted, OthersStay
  <2>2. Check("admin") # Leave
    <3>1. Check("admin").do = "check"
      BY StepParts, Zenon DEF Check
    <3> QED BY <3>1, NotPredicted, OthersStay
  <2> QED BY <1>5, <2>1, <2>2, FrontSteps
<1>7. /\ s[3] = Step("predict", "StakedOasImpl") /\ s[5] = Step("predict", "StakedOas")
      /\ s[7] = Step("predict", "StakedTokenV2Rev4")
  BY <1>5, FrontSteps
<1>8. ASSUME NEW id, NEW k \in 1 .. 7, s[k] = Step("predict", id) PROVE Due(s, id)
  <2>1. k \in 1 .. Len(s) /\ \A j \in 1 .. k : j \in 1 .. 7
    BY <1>5
  <2>2. \A j \in 1 .. k : s[j] # Leave
    BY <1>6, <2>1
  <2> QED BY <1>8, <2>1, <2>2 DEF Due
<1>9. /\ Due(s, "StakedOasImpl") /\ Due(s, "StakedOas") /\ Due(s, "StakedTokenV2Rev4")
  <2>1. 3 \in 1 .. 7 /\ 5 \in 1 .. 7 /\ 7 \in 1 .. 7
    OBVIOUS
  <2> QED BY <1>7, <1>8, <2>1
<1> QED BY <1>1, <1>9 DEF s, Required

LEMMA ExportAdvances ==
    ASSUME EntriesInv, ExportInv, Exporting, todo # <<>>, NEW do, NEW x, Head(todo) = Step(do, x),
           todo' = Tail(todo),
           IF do = "predict" THEN x \in Ids /\ db' = [db EXCEPT ![x] = PredictedAddress(x)]
           ELSE db' = db
    PROVE  ExportInv'
<1> SUFFICES ASSUME NEW id \in Required PROVE Due(todo', id) \/ db'[id] # Unregistered
  BY DEF ExportInv, Unregistered, NoContract
<1>1. id \in Ids
  BY DEF Required, Ids, CodeOf
<1>2. CASE do = "predict" /\ x = id
  BY <1>1, <1>2, PredictedRegistered DEF EntriesInv, FilesInv
<1>3. CASE ~(do = "predict" /\ x = id)
  <2>1. Head(todo) # Step("predict", id)
    BY <1>3, StepFields
  <2>2. db'[id] = db[id]
    BY <1>1, <1>3 DEF EntriesInv, FilesInv
  <2> QED BY <2>1, <2>2, TodoFacts, TailDue DEF ExportInv
<1> QED BY <1>2, <1>3

LEMMA ExportStep == EntriesInv /\ OasysInv /\ ExportInv /\ [Next]_vars => ExportInv'
<1> SUFFICES ASSUME EntriesInv, OasysInv, ExportInv, [Next]_vars PROVE ExportInv'
  OBVIOUS
<1>0. network' = network
  BY RightFixed
<1>1. ASSUME NEW t \in Tasks, Start(t) PROVE ExportInv'
  BY <1>1, ExportStarts DEF Start, ExportInv, Exporting
<1>2. ASSUME NEW how \in {"finished", "failed", "killed"}, Ending(how) PROVE ExportInv'
  <2>1. /\ task' = IF how = "finished" THEN task ELSE ""
        /\ todo' = <<>> /\ (how = "finished" => todo = <<>>) /\ db' = db
    BY <1>2 DEF Ending, EndsAs, fileVars
  <2> QED BY <1>0, <2>1 DEF ExportInv, Exporting, Unregistered, NoContract
<1>3. CASE ~Exporting /\ task' = task
  BY <1>0, <1>3 DEF ExportInv, Exporting
<1>4. ASSUME NEW do, NEW x, Passing(do, x) PROVE ExportInv'
  <2>1. CASE Exporting
    BY <1>4, <2>1, ExportAdvances DEF Passing, Exporting
  <2> QED BY <1>3, <1>4, <2>1 DEF Passing
<1>5. CASE network = "oasys" /\ LeaveOasys
  <2>1. task' = task /\ db' = db /\ todo # <<>> /\ Head(todo) = Leave
    BY <1>5, Zenon DEF LeaveOasys, At, fileVars, Leave, Leaving
  <2>2. \A id : ~Due(todo, id)
    BY <2>1, DueStays, TodoFacts
  <2> QED BY <1>0, <2>1, <2>2 DEF ExportInv, Exporting, Unregistered, NoContract
<1>6. ASSUME NEW w \in Ids, SendCalldata(w) \/ CreateContract(w) \/ CallProxy(w) PROVE ExportInv'
  <2>1. PICK do \in Sending : /\ todo # <<>> /\ Head(todo) = Step(do, w) /\ task' = task
                              /\ todo' = Tail(todo) /\ db' = db
    BY <1>6, SendingMoves DEF fileVars
  <2>2. CASE Exporting
    BY <2>1, <2>2, ExportAdvances DEF Sending
  <2> QED BY <1>3, <2>1, <2>2
<1>7. ASSUME NEW w \in Ids, RegisterContract(w) PROVE ExportInv'
  <2>1. todo # <<>> /\ Head(todo) = Step("register", w) /\ task' = task
    BY <1>7, StepFacts DEF RegisterContract
  <2>2. 1 \in 1 .. Len(todo) /\ todo[1].do = "register"
    BY <2>1, TodoFacts, StepParts
  <2>3. ~Exporting
    <3> SUFFICES ASSUME Exporting PROVE FALSE
      OBVIOUS
    <3>1. \E j \in 1 .. 1 - 1 : todo[j] = Leave
      BY <2>2 DEF OasysInv, Exports, Exporting
    <3> QED BY <3>1
  <2> QED BY <1>3, <2>1, <2>3
<1>8. CASE Resting \/ ChainStep
  <2>1. task' = task /\ todo' = todo /\ db' = db
    BY <1>8, ChainStepFrame DEF Resting, fileVars, processVars
  <2> QED BY <1>0, <2>1 DEF ExportInv, Exporting, Unregistered, NoContract
<1> QED BY <1>1, <1>2, <1>4, <1>5, <1>6, <1>7, <1>8, Moves

(* common-deployment: when it says it has finished, the proxy, its first     *)
(* implementation and revision 4 are mined, with the code and the arguments  *)
(* of the network, and registered where they are; on oasys they are exported *)
(* so and registered where its factory creates them.                         *)
THEOREM DeploymentCompletes == Spec => []FinishedDeploymentComplete
<1>1. Init => CompleteInv /\ ExportInv
  BY DEF Init, CompleteInv, Deploying, ExportInv, Exporting
<1>2. /\ CompleteInv /\ OasysInv /\ ExportInv /\ DeploymentInv /\ DeploymentInv' /\ [Next]_vars
         => CompleteInv' /\ OasysInv' /\ ExportInv'
  BY CompleteStep, OasysStep, ExportStep DEF DeploymentInv
<1>3. CompleteInv /\ OasysInv /\ ExportInv /\ DeploymentInv => FinishedDeploymentComplete
  <2> SUFFICES ASSUME CompleteInv, OasysInv, ExportInv, DeploymentInv,
                      outcome = "finished", task = "common-deployment",
                      NEW id \in {"StakedOas", "StakedOasImpl", "StakedTokenV2Rev4"}
               PROVE  Ready(id) \/ Promised(id)
    BY DEF FinishedDeploymentComplete
  <2>1. todo = <<>> /\ EntriesInv
    BY DEF DeploymentInv, ScheduleInv, Running
  <2>2. CASE network = "oasys"
    <3>1. id \in Ids /\ id \in Required
      BY DEF Ids, CodeOf, Required
    <3>2. ~Due(todo, id)
      BY <2>1 DEF Due
    <3> QED BY <2>2, <3>1, <3>2 DEF ExportInv, Exporting, OasysInv, Exported, Promised, Right
  <2>3. CASE network # "oasys"
    <3>1. \E n \in 1 .. mined : db[id] = AddressOf(n) /\ Creates(n, id)
      <4>1. CASE id \in Direct
        <5>1. db[id] # Unregistered
          BY <2>1, <2>3, <4>1 DEF CompleteInv, Deploying, Has
        <5> QED BY <2>1, <2>3, <4>1, <5>1 DEF EntriesInv, EntryInv
      <4>2. CASE id = "StakedTokenV2Rev4"
        BY <2>1, <2>3, <4>2 DEF CompleteInv, Deploying, RegisteredRevision
      <4> QED BY <4>1, <4>2 DEF Direct
    <3>2. PICK n \in 1 .. mined : db[id] = AddressOf(n) /\ Creates(n, id)
      BY <3>1
    <3>3. sent[n].do = "create" /\ sent[n].creation = Right(id)
      BY <3>2 DEF Creates
    <3>4. CreationAt(AddressOf(n)) = Right(id)
      BY <3>2, <3>3, CreationsFound DEF Creations
    <3> QED BY <3>2, <3>4 DEF Ready, Right
  <2> QED BY <2>2, <2>3
<1> QED BY <1>1, <1>2, <1>3, OasysInit, DeploymentInit, DeploymentStep, PTL DEF Spec

-----------------------------------------------------------------------------
(* The steps of common-initialization *)

InitializationEnd ==
    <<Wait, Step("call", "StakedTokenV2Rev4"), Check("token and vault"), Check("chain id"),
      Wait, Step("call", "StakedOas"), Check("chain id")>>

LEMMA Singles ==
    ASSUME NEW S, NEW a \in S
    PROVE  <<a>> \in Seq(S) /\ Len(<<a>>) = 1 /\ <<a>>[1] = a
  OBVIOUS

LEMMA Triples ==
    ASSUME NEW S, NEW a \in S, NEW b \in S, NEW c \in S
    PROVE  <<a, b, c>> \in Seq(S) /\ Len(<<a, b, c>>) = 3
           /\ <<a, b, c>>[1] = a /\ <<a, b, c>>[2] = b /\ <<a, b, c>>[3] = c
  OBVIOUS

LEMMA SevenJoined ==
    ASSUME NEW S, NEW p \in Seq(S), NEW q \in Seq(S), NEW r \in Seq(S), NEW t \in Seq(S),
           Len(p) = 3, Len(q) = 1, Len(r) = 1, Len(t) = 2
    PROVE  /\ p \o (q \o r \o t) \in Seq(S) /\ Len(p \o (q \o r \o t)) = 7
           /\ (p \o (q \o r \o t))[1] = p[1] /\ (p \o (q \o r \o t))[2] = p[2]
           /\ (p \o (q \o r \o t))[3] = p[3] /\ (p \o (q \o r \o t))[4] = q[1]
           /\ (p \o (q \o r \o t))[5] = r[1] /\ (p \o (q \o r \o t))[6] = t[1]
           /\ (p \o (q \o r \o t))[7] = t[2]
<1>0. \A x, y \in Seq(S) :
         /\ x \o y \in Seq(S) /\ Len(x \o y) = Len(x) + Len(y)
         /\ \A i \in 1 .. Len(x) : (x \o y)[i] = x[i]
         /\ \A i \in 1 .. Len(y) : (x \o y)[Len(x) + i] = y[i]
  BY Appended
<1> DEFINE v == q \o r
           w == v \o t
           u == p \o w
<1>1. /\ v \in Seq(S) /\ Len(v) = Len(q) + Len(r)
      /\ \A i \in 1 .. Len(q) : v[i] = q[i]
      /\ \A i \in 1 .. Len(r) : v[Len(q) + i] = r[i]
  BY <1>0, Zenon
<1> HIDE DEF v
<1>2. /\ w \in Seq(S) /\ Len(w) = Len(v) + Len(t)
      /\ \A i \in 1 .. Len(v) : w[i] = v[i]
      /\ \A i \in 1 .. Len(t) : w[Len(v) + i] = t[i]
  BY <1>0, <1>1, Zenon
<1> HIDE DEF w
<1>3. /\ u \in Seq(S) /\ Len(u) = Len(p) + Len(w)
      /\ \A i \in 1 .. Len(p) : u[i] = p[i]
      /\ \A i \in 1 .. Len(w) : u[Len(p) + i] = w[i]
  BY <1>0, <1>2, Zenon
<1> HIDE DEF u
<1>4. Len(v) = 2 /\ Len(w) = 4 /\ Len(u) = 7
  BY <1>1, <1>2, <1>3
<1>5. v[1] = q[1] /\ v[2] = r[1]
  BY <1>1
<1>6. w[1] = v[1] /\ w[2] = v[2] /\ w[3] = t[1] /\ w[4] = t[2]
  BY <1>2, <1>4
<1>7. /\ u[1] = p[1] /\ u[2] = p[2] /\ u[3] = p[3]
      /\ u[4] = w[1] /\ u[5] = w[2] /\ u[6] = w[3] /\ u[7] = w[4]
  BY <1>3, <1>4
<1> QED BY <1>3, <1>4, <1>5, <1>6, <1>7 DEF u, w, v

LEMMA InitializationSteps ==
    LET e == InitializationEnd
    IN  /\ Len(e) = 7 /\ e[1] = Wait /\ e[2] = Step("call", "StakedTokenV2Rev4")
        /\ e[3] = Check("token and vault") /\ e[4] = Check("chain id")
        /\ e[5] = Wait /\ e[6] = Step("call", "StakedOas") /\ e[7] = Check("chain id")
<1>1. \A a, b, c, d, e, f, g :
         LET s == <<a, b, c, d, e, f, g>>
         IN  /\ Len(s) = 7 /\ s[1] = a /\ s[2] = b /\ s[3] = c /\ s[4] = d /\ s[5] = e
             /\ s[6] = f /\ s[7] = g
  OBVIOUS
<1> QED BY <1>1, Zenon DEF InitializationEnd

(* common-initialization initialises, waits, upgrades and waits.             *)
LEMMA InitializationProgram ==
    LET s == Program("common-initialization")
    IN  s \in Seq(Steps) /\ Len(s) = 7 /\ EndsIn(s, InitializationEnd)
<1> DEFINE s == Program("common-initialization")
           p == <<Check("chain id"), Step("call", "StakedOas"), Wait>>
           q == <<Check("chain id")>>
           r == <<Check("token and vault")>>
           t == <<Step("call", "StakedTokenV2Rev4"), Wait>>
           e == InitializationEnd
           w == Wait
           chain == Check("chain id")
           check == Check("token and vault")
           first == Step("call", "StakedOas")
           second == Step("call", "StakedTokenV2Rev4")
<1>1. s = p \o (q \o r \o t)
  BY Zenon DEF Program, CommonInitialization, InitializeStakedOas, Upgrade
<1>2. /\ w \in Steps /\ chain \in Steps /\ check \in Steps /\ first \in Steps
      /\ second \in Steps
  <2>1. {"call", "wait", "check"} \subseteq Kinds
        /\ {"StakedOas", "StakedTokenV2Rev4", "", "chain id", "token and vault"} \subseteq Names
    BY DEF Kinds, Names
  <2> QED BY <2>1, StepIsStep, Zenon DEF Wait, Check
<1>3. p \in Seq(Steps) /\ Len(p) = 3 /\ p[1] = chain /\ p[2] = first /\ p[3] = w
  BY <1>2, Triples, Zenon
<1>4. /\ q \in Seq(Steps) /\ Len(q) = 1 /\ q[1] = chain
      /\ r \in Seq(Steps) /\ Len(r) = 1 /\ r[1] = check
  BY <1>2, Singles, Zenon
<1>5. t \in Seq(Steps) /\ Len(t) = 2 /\ t[1] = second /\ t[2] = w
  BY <1>2, Pairs, Zenon
<1>6. /\ Len(e) = 7 /\ e[1] = w /\ e[2] = second /\ e[3] = check /\ e[4] = chain
      /\ e[5] = w /\ e[6] = first /\ e[7] = chain
  BY InitializationSteps, Zenon
<1> HIDE DEF s, p, q, r, t, e, w, chain, check, first, second
<1>7. /\ s \in Seq(Steps) /\ Len(s) = 7
      /\ s[1] = chain /\ s[2] = first /\ s[3] = w /\ s[4] = chain /\ s[5] = check
      /\ s[6] = second /\ s[7] = w
  BY <1>1, <1>3, <1>4, <1>5, SevenJoined
<1>8. ASSUME NEW j \in 1 .. Len(e) PROVE s[Len(s) + 1 - j] = e[j]
  <2>1. j = 1 \/ j = 2 \/ j = 3 \/ j = 4 \/ j = 5 \/ j = 6 \/ j = 7
    BY <1>6
  <2> QED BY <1>6, <1>7, <2>1
<1>9. EndsIn(s, e)
  BY <1>8 DEF EndsIn
<1> QED BY <1>7, <1>9 DEF s, e

-----------------------------------------------------------------------------
(* What a proxy runs *)

HasImplementation(to) == ProxyAt(to).implementation # NoContract
RunsAt(to, rev) == ProxyAt(to).implementation = rev /\ CodeAt(rev) = "StakedTokenV2Rev4"

InitializeTx(to, logic) ==
    [do |-> "initialize", to |-> to, logic |-> logic, data |-> InitializeData(InitializerArity("StakedOas"))]
UpgradeTx(to, rev) ==
    [do |-> "upgradeToAndCall", to |-> to, logic |-> rev,
     data |-> InitializeData(InitializerArity("StakedTokenV2Rev4"))]

LEMMA InitialisedAt ==
    ASSUME ProxiesInv, NEW to, HasImplementation(to)
    PROVE  /\ to \in DOMAIN proxies /\ ProxyAt(to) = proxies[to] /\ CodeAt(to) = PROXY
           /\ \E i, c, s : CodeAt(i) = c /\ Upgradeable(ProxyAt(to), i, c, s)
<1>1. ProxyAt(to) # FreshProxy
  BY FreshFacts DEF HasImplementation
<1>2. to \in DOMAIN proxies /\ ProxyAt(to) = proxies[to]
  BY <1>1 DEF ProxyAt
<1>3. CodeAt(to) = PROXY
  BY <1>2 DEF ProxiesInv
<1> QED BY <1>1, <1>2, <1>3, ProxyAtSound DEF Sound

LEMMA CodeNotAtZero == \A a : CodeAt(a) # "" => a # NoContract
  BY NoCodeAtZero DEF NothingAtZero

LEMMA UpgradeableRuns ==
    ASSUME NEW p, NEW i, NEW c, NEW s, Upgradeable(p, i, c, s), CodeAt(i) = c
    PROVE  p.implementation = i /\ i # NoContract /\ c # "" /\ c \in Codes
<1>1. p.implementation = i /\ c \in Codes
  BY DEF Upgradeable
<1>2. c # ""
  BY <1>1, Zenon DEF Codes
<1> QED BY <1>1, <1>2, CodeNotAtZero

\* The call of an initialiser that did not revert.
LEMMA InitializeRuns ==
    ASSUME ProxiesInv, NEW to, NEW logic, CodeAt(to) = PROXY, Succeeds(InitializeTx(to, logic))
    PROVE  Called(InitializeTx(to, logic)).implementation # NoContract
<1> DEFINE tx == InitializeTx(to, logic)
           p == ProxyAt(to)
           code == CodeAt(logic)
<1>1. tx.do = "initialize" /\ tx.to = to /\ tx.logic = logic
  BY DEF InitializeTx
<1> HIDE DEF tx
<1>2. CanInitialize(p, code, tx.data)
  <2>1. PROXY # ""
    BY Zenon DEF PROXY
  <2> QED BY <1>1, <2>1, Zenon DEF Succeeds, tx
<1>3. p.implementation = NoContract /\ code # ""
  BY <1>2 DEF CanInitialize
<1>4. p = FreshProxy
  <2>1. ~HasImplementation(to)
    BY <1>3 DEF HasImplementation
  <2>2. \A i, c, s : ~(CodeAt(i) = c /\ Upgradeable(p, i, c, s))
    BY <1>3, UpgradeableRuns
  <2> QED BY <2>2, ProxyAtSound DEF Sound
<1>5. Called(tx) = Initialize(p, logic, code, Admin, tx.data)
  BY <1>1 DEF Called
<1> HIDE DEF code, p
<1>6. Initialize(p, logic, code, Admin, tx.data).implementation = logic
  BY <1>4 DEF Initialize, RunInitializer, FreshProxy
<1>7. logic # NoContract
  BY <1>3, CodeNotAtZero DEF code
<1> QED BY <1>5, <1>6, <1>7 DEF tx

LEMMA FourthByArity ==
    \A code : InitializerArity(code) = InitializerArity("StakedTokenV2Rev4") => code = "StakedTokenV2Rev4"
  BY Arities DEF Codes

LEMMA UpgradeRuns ==
    ASSUME ProxiesInv, network \in LiveNetworks, NEW to, NEW rev, HasImplementation(to),
           Succeeds(UpgradeTx(to, rev))
    PROVE  /\ CodeAt(rev) = "StakedTokenV2Rev4"
           /\ Called(UpgradeTx(to, rev)).implementation = rev
<1> DEFINE tx == UpgradeTx(to, rev)
           p == ProxyAt(to)
           code == CodeAt(rev)
<1>1. /\ tx.do = "upgradeToAndCall" /\ tx.to = to /\ tx.logic = rev
      /\ tx.data.arity = InitializerArity("StakedTokenV2Rev4")
  BY DEF UpgradeTx, InitializeData
<1> HIDE DEF tx
<1>2. CodeAt(to) = PROXY /\ PROXY # "" /\ tx.do # "initialize"
  <2>1. PROXY # ""
    BY Zenon DEF PROXY
  <2>2. tx.do # "initialize"
    BY <1>1
  <2> QED BY <2>1, <2>2, InitialisedAt
<1>3. PICK i, c, s : CodeAt(i) = c /\ Upgradeable(p, i, c, s)
  BY InitialisedAt
<1>4. p.admin = Admin /\ Admin # ZERO_ADDRESS
      /\ p = [implementation |-> i, admin |-> Admin, lastInitializedRevision |-> Revision(c),
              slots |-> s]
  BY <1>3 DEF Upgradeable
<1>5. Signer = p.admin
  BY <1>4, SignerFacts, AdminNamed, Zenon
<1>6. CanUpgradeToAndCall(p, Signer, code, tx.data)
  <2>1. Succeeds(tx) /\ CodeAt(tx.to) # "" /\ ProxyAt(tx.to) = p /\ CodeAt(tx.logic) = code
    BY <1>1, <1>2 DEF tx
  <2> HIDE DEF p, code
  <2> QED BY <1>2, <2>1 DEF Succeeds
<1>7. CanRunInitializer(p, code, tx.data)
  BY <1>5, <1>6 DEF CanUpgradeToAndCall
<1>8. code = "StakedTokenV2Rev4"
  BY <1>1, <1>7, FourthByArity DEF CanRunInitializer
<1>9. Called(tx) = UpgradeToAndCall(p, Signer, rev, code, tx.data)
  BY <1>1, <1>2 DEF Called
<1> HIDE DEF p, code
<1>10. UpgradeToAndCall(p, Signer, rev, code, tx.data).implementation = rev
  BY <1>4, <1>5 DEF UpgradeToAndCall, RunInitializer
<1> QED BY <1>8, <1>9, <1>10 DEF tx, code

LEMMA LiveNetwork == DeploymentInv => network \in LiveNetworks
  BY Bounds DEF DeploymentInv, RestInv

\* What else a step does to a proxy that has an implementation.
LEMMA ImplementationMoves ==
    ASSUME DeploymentInv, [Next]_vars, NEW to, HasImplementation(to)
    PROVE  \/ ProxyAt(to)'.implementation = ProxyAt(to).implementation
           \/ \E logic, c, s, k, t :
                 /\ ProxyAt(to)'.implementation = logic /\ CodeAt(logic) = c /\ c \in Revisions
                 /\ CodeAt(ProxyAt(to).implementation) = k /\ Revision(c) > Revision(k)
<1>1. to \in DOMAIN proxies /\ ProxyAt(to) = proxies[to]
  BY InitialisedAt DEF DeploymentInv
<1>2. ASSUME to \in DOMAIN proxies', proxies'[to].implementation = proxies[to].implementation
      PROVE  ProxyAt(to)'.implementation = ProxyAt(to).implementation
  BY <1>1, <1>2 DEF ProxyAt
<1>3. CASE proxies' = proxies
  BY <1>1, <1>2, <1>3
<1>4. ASSUME NEW a \in DOMAIN proxies, Use(a)
      PROVE  ProxyAt(to)'.implementation = ProxyAt(to).implementation
  <2> DEFINE q == UseStorage(proxies[a], CodeAt(proxies[a].implementation))
  <2>1. /\ proxies' = [proxies EXCEPT ![a] = q]
        /\ proxies'[a].implementation = proxies[a].implementation
    BY <1>4, UseSoundAt DEF DeploymentInv
  <2> HIDE DEF q
  <2>2. /\ DOMAIN proxies' = DOMAIN proxies
        /\ \A b \in DOMAIN proxies : b # a => proxies'[b] = proxies[b]
    BY <2>1 DEF DeploymentInv, ProxiesInv
  <2> QED BY <1>1, <1>2, <2>1, <2>2
<1>5. CASE Mine /\ proxies' # proxies
  <2>1. PICK id, at, logic, tx :
          /\ id \in Callable
          /\ tx = [do |-> IF id = "StakedOas" THEN "initialize" ELSE "upgradeToAndCall",
                   to |-> at, logic |-> logic, data |-> InitializeData(InitializerArity(id))]
          /\ CodeAt(at) = PROXY /\ Succeeds(tx)
          /\ proxies' = [a \in DOMAIN proxies \cup {at} |-> IF a = at THEN Called(tx) ELSE proxies[a]]
    BY <1>5, MineCalls, LiveNetwork DEF DeploymentInv
  <2> DEFINE q == Called(tx)
             p == ProxyAt(at)
  <2>2. CASE at # to
    BY <1>1, <1>2, <2>1, <2>2
  <2>3. CASE at = to
    <3>1. ProxyAt(to)' = q
      BY <2>1, <2>3 DEF ProxyAt
    <3>2. \/ q = p
          \/ \E c, s, k, t :
                /\ c = CodeAt(logic) /\ Upgradeable(q, logic, c, s)
                /\ \/ p = FreshProxy
                   \/ /\ CodeAt(p.implementation) = k
                      /\ Revision(c) > Revision(k) /\ c \in Revisions
      BY <2>1, CalledSound, LiveNetwork DEF DeploymentInv
    <3>3. p # FreshProxy /\ p = ProxyAt(to)
      BY <2>3, FreshFacts DEF HasImplementation
    <3> HIDE DEF p, q
    <3>4. ASSUME NEW c, NEW s, NEW k, c = CodeAt(logic), Upgradeable(q, logic, c, s),
                 CodeAt(p.implementation) = k, Revision(c) > Revision(k), c \in Revisions
          PROVE  /\ ProxyAt(to)'.implementation = logic /\ CodeAt(logic) = c
                 /\ CodeAt(ProxyAt(to).implementation) = k
      BY <3>1, <3>3, <3>4 DEF Upgradeable
    <3>5. CASE q = p
      BY <3>1, <3>3, <3>5
    <3>6. CASE q # p
      BY <3>2, <3>3, <3>4, <3>6
    <3> QED BY <3>5, <3>6
  <2> QED BY <2>2, <2>3
<1> QED BY <1>3, <1>4, <1>5, ProxiesMove DEF DeploymentInv

(* A proxy keeps an implementation, and revision 4 is never replaced.        *)
LEMMA ImplementationKept ==
    ASSUME DeploymentInv, DeploymentInv', [Next]_vars, NEW to, HasImplementation(to)
    PROVE  HasImplementation(to)'
<1>1. CASE ProxyAt(to)'.implementation = ProxyAt(to).implementation
  BY <1>1 DEF HasImplementation
<1>2. ASSUME NEW logic, NEW c, ProxyAt(to)'.implementation = logic, CodeAt(logic) = c, c \in Revisions
      PROVE  HasImplementation(to)'
  <2>1. c # ""
    BY <1>2, Zenon DEF Revisions
  <2>2. logic # NoContract
    BY <1>2, <2>1, CodeNotAtZero
  <2> QED BY <1>2, <2>2 DEF HasImplementation
<1> QED BY <1>1, <1>2, ImplementationMoves

LEMMA FourthKept ==
    ASSUME DeploymentInv, DeploymentInv', [Next]_vars, NEW to, NEW rev, RunsAt(to, rev)
    PROVE  RunsAt(to, rev)'
<1>1. CodeAt(rev) = "StakedTokenV2Rev4" /\ CodeAt(rev) # ""
  BY Zenon DEF RunsAt
<1>2. CodeAt(rev)' = CodeAt(rev)
  BY <1>1, CodeStays DEF DeploymentInv
<1>3. HasImplementation(to)
  BY <1>1, CodeNotAtZero DEF RunsAt, HasImplementation
<1>4. ASSUME NEW c, NEW k, CodeAt(ProxyAt(to).implementation) = k, Revision(c) > Revision(k),
             c \in Revisions
      PROVE  FALSE
  <2>1. k = "StakedTokenV2Rev4"
    BY <1>4 DEF RunsAt
  <2> QED BY <1>4, <2>1, Arities DEF Revisions
<1>5. ProxyAt(to)'.implementation = ProxyAt(to).implementation
  BY <1>3, <1>4, ImplementationMoves
<1> QED BY <1>1, <1>2, <1>5 DEF RunsAt

(* The next transaction is a call of the proxy that does not revert.         *)
LEMMA MinedCall ==
    ASSUME Mine, NEW to, NEW tx, tx = sent[mined + 1], tx.do # "create", tx.to = to,
           CodeAt(to) = PROXY, mined + 1 \notin reverted'
    PROVE  Succeeds(tx) /\ ProxyAt(to)' = Called(tx)
<1>1. Succeeds(tx)
  BY DEF Mine
<1>2. proxies' = [a \in DOMAIN proxies \cup {to} |-> IF a = to THEN Called(tx) ELSE proxies[a]]
  BY <1>1 DEF Mine
<1> QED BY <1>1, <1>2 DEF ProxyAt

-----------------------------------------------------------------------------
(* common-initialization *)

Initialising == task = "common-initialization"

(* The call of the first initialiser is sent: it is there or was lost, and   *)
(* once mined it has reverted or done its work.  Then that of the upgrade,   *)
(* the last of all transactions.  On oasys it is done, too, when the factory *)
(* has not created the proxy, and the first call was as void.                *)
InitializeSent(to, logic) ==
    /\ last # 0 /\ CodeAt(to) = PROXY
    /\ last <= Len(sent) => sent[last] = InitializeTx(to, logic)
    /\ last <= mined => last \in reverted \/ HasImplementation(to)

Done(to, rev) == RunsAt(to, rev) \/ (network = "oasys" /\ ~HasImplementation(to))

UpgradeSent(to, rev) ==
    /\ last # 0 /\ Len(sent) <= last
    /\ last <= Len(sent) => sent[last] = UpgradeTx(to, rev)
    /\ last <= mined => last \in reverted \/ Done(to, rev)

\* What is done when n steps are left.
Initialised(n, to, logic, rev) ==
    /\ network # "oasys" => /\ n = 5 => InitializeSent(to, logic)
                            /\ n <= 4 => HasImplementation(to)
    /\ n = 1 => UpgradeSent(to, rev)
    /\ n = 0 => mined = Len(sent) /\ Done(to, rev)

InitializationInv ==
    Initialising =>
       /\ EndsIn(todo, InitializationEnd) /\ Len(todo) <= 7
       /\ \A to, logic, rev :
             /\ to = db["StakedOas"] /\ logic = db["StakedOasImpl"]
             /\ rev = db["StakedTokenV2Rev4"]
             => Initialised(Len(todo), to, logic, rev)

LEMMA TxsFixed ==
    ASSUME network' = network
    PROVE  /\ \A to, logic : InitializeTx(to, logic)' = InitializeTx(to, logic)
           /\ \A to, rev : UpgradeTx(to, rev)' = UpgradeTx(to, rev)
  BY DEF InitializeTx, UpgradeTx, InitializeData

LEMMA TxFacts ==
    \A to, logic :
       /\ InitializeTx(to, logic).do # "create" /\ InitializeTx(to, logic).to = to
       /\ UpgradeTx(to, logic).do # "create" /\ UpgradeTx(to, logic).to = to
  BY DEF InitializeTx, UpgradeTx

LEMMA ProxyStays ==
    ASSUME DeploymentInv, DeploymentInv', [Next]_vars, NEW a, NEW c, CodeAt(a) = c, c # ""
    PROVE  CodeAt(a)' = c
  BY CodeStays DEF DeploymentInv

\* Which transaction a step of the chain mines, if any.
LEMMA LastMined ==
    ASSUME DeploymentInv, ChainStep, [Next]_vars, last # 0, ~(last <= mined), last <= mined'
    PROVE  Mine /\ mined + 1 = last /\ last <= Len(sent)
<1>1. /\ Len(sent) \in Nat /\ mined \in 0 .. Len(sent) /\ last \in Nat /\ last' = last
      /\ mined' \in 0 .. Len(sent') /\ Len(sent') <= Len(sent) /\ Len(sent') \in Nat
  BY ChainStepFrame, SentFacts DEF DeploymentInv, processVars
<1>2. Mine
  <2>1. mined' # mined
    BY <1>1
  <2> QED BY <2>1, MinesOrNot DEF DeploymentInv
<1>3. mined' = mined + 1
  BY <1>2 DEF Mine
<1> QED BY <1>1, <1>2, <1>3

\* Reverted transactions stay reverted.
LEMMA RevertedStay ==
    ASSUME DeploymentInv, [Next]_vars
    PROVE  reverted \subseteq reverted'
<1>1. CASE Mine
  BY <1>1 DEF Mine
<1>2. CASE ~Mine
  BY <1>2, MinesOrNot DEF DeploymentInv
<1> QED BY <1>1, <1>2

LEMMA InitializeStaysSent ==
    ASSUME DeploymentInv, DeploymentInv', [Next]_vars, ChainStep, NEW to, NEW logic,
           InitializeSent(to, logic)
    PROVE  InitializeSent(to, logic)'
<1>1. /\ Len(sent) \in Nat /\ mined \in 0 .. Len(sent) /\ last \in Nat
      /\ mined' \in 0 .. Len(sent') /\ Len(sent') <= Len(sent) /\ Len(sent') \in Nat
      /\ \A n \in 1 .. Len(sent') : sent'[n] = sent[n]
      /\ last' = last /\ network' = network
  BY ChainStepFrame, SentFacts DEF DeploymentInv, processVars
<1>2. last # 0 /\ CodeAt(to) = PROXY /\ PROXY # ""
  BY Zenon DEF InitializeSent, PROXY
<1>3. CodeAt(to)' = PROXY
  BY <1>2, ProxyStays
<1>4. last' <= Len(sent') => sent'[last'] = InitializeTx(to, logic)'
  <2>1. InitializeTx(to, logic)' = InitializeTx(to, logic)
    BY <1>1, TxsFixed
  <2>2. last' <= Len(sent') => last \in 1 .. Len(sent') /\ last <= Len(sent)
    <3>1. last # 0
      BY DEF InitializeSent
    <3> QED BY <1>1, <3>1
  <2> QED BY <1>1, <2>1, <2>2 DEF InitializeSent
<1>5. ASSUME last <= mined' PROVE last \in reverted' \/ HasImplementation(to)'
  <2>1. CASE last <= mined
    BY <2>1, RevertedStay, ImplementationKept DEF InitializeSent
  <2>2. CASE ~(last <= mined) /\ last \notin reverted'
    <3>1. Mine /\ mined + 1 = last /\ last <= Len(sent)
      BY <1>2, <1>5, <2>2, LastMined
    <3>2. sent[mined + 1] = InitializeTx(to, logic)
      BY <3>1 DEF InitializeSent
    <3>3. /\ Succeeds(InitializeTx(to, logic))
          /\ ProxyAt(to)' = Called(InitializeTx(to, logic))
      BY <1>2, <2>2, <3>1, <3>2, MinedCall, TxFacts
    <3> QED BY <1>2, <3>3, InitializeRuns DEF HasImplementation, DeploymentInv
  <2> QED BY <2>1, <2>2
<1> QED BY <1>1, <1>2, <1>3, <1>4, <1>5 DEF InitializeSent

\* A proxy without an implementation is untouched, and stays so while nothing
\* is mined.
LEMMA UninitialisedFresh ==
    ASSUME ProxiesInv, NEW to, ~HasImplementation(to)
    PROVE  ProxyAt(to) = FreshProxy
<1> DEFINE p == ProxyAt(to)
<1>1. p.implementation = NoContract
  BY DEF HasImplementation
<1>2. Sound(p)
  BY ProxyAtSound
<1> HIDE DEF p
<1>3. \A i, c, s : ~(CodeAt(i) = c /\ Upgradeable(p, i, c, s))
  BY <1>1, UpgradeableRuns
<1> QED BY <1>2, <1>3 DEF Sound, p

LEMMA UninitialisedStays ==
    ASSUME DeploymentInv, [Next]_vars, ~Mine, NEW to, ~HasImplementation(to)
    PROVE  ~HasImplementation(to)'
<1>1. CASE proxies' = proxies
  BY <1>1 DEF HasImplementation, ProxyAt
<1>2. ASSUME NEW a \in DOMAIN proxies, Use(a) PROVE ~HasImplementation(to)'
  <2> DEFINE q == UseStorage(proxies[a], CodeAt(proxies[a].implementation))
  <2>1. /\ proxies' = [proxies EXCEPT ![a] = q]
        /\ proxies'[a].implementation = proxies[a].implementation
    BY <1>2, UseSoundAt DEF DeploymentInv
  <2> HIDE DEF q
  <2>2. /\ DOMAIN proxies' = DOMAIN proxies
        /\ \A b \in DOMAIN proxies : b # a => proxies'[b] = proxies[b]
    BY <2>1 DEF DeploymentInv, ProxiesInv
  <2>3. ProxyAt(to)'.implementation = ProxyAt(to).implementation
    BY <2>1, <2>2 DEF ProxyAt
  <2> QED BY <2>3 DEF HasImplementation
<1> QED BY <1>1, <1>2, ProxiesMove DEF DeploymentInv

LEMMA DoneStays ==
    ASSUME DeploymentInv, DeploymentInv', [Next]_vars, ~Mine, NEW to, NEW rev, Done(to, rev)
    PROVE  Done(to, rev)'
<1>1. network' = network
  BY RightFixed
<1>2. RunsAt(to, rev) => RunsAt(to, rev)'
  BY FourthKept
<1> QED BY <1>1, <1>2, UninitialisedStays DEF Done

\* The call of the upgrade is mined and has not reverted.
LEMMA UpgradeMined ==
    ASSUME DeploymentInv, DeploymentInv', [Next]_vars, Mine, NEW to, NEW rev,
           sent[mined + 1] = UpgradeTx(to, rev), mined + 1 \notin reverted',
           network # "oasys" => HasImplementation(to)
    PROVE  Done(to, rev)'
<1> DEFINE tx == UpgradeTx(to, rev)
<1>1. tx.do = "upgradeToAndCall" /\ tx.to = to /\ tx.logic = rev /\ tx = sent[mined + 1]
  BY DEF UpgradeTx
<1>2. CASE HasImplementation(to)
  <2>1. CodeAt(to) = PROXY
    BY <1>2, InitialisedAt DEF DeploymentInv
  <2>2. Succeeds(tx) /\ ProxyAt(to)' = Called(tx)
    BY <2>1, MinedCall, TxFacts
  <2>3. CodeAt(rev) = "StakedTokenV2Rev4" /\ ProxyAt(to)'.implementation = rev
    BY <1>2, <2>2, UpgradeRuns, LiveNetwork DEF DeploymentInv
  <2>4. CodeAt(rev)' = "StakedTokenV2Rev4"
    <3>1. "StakedTokenV2Rev4" # ""
      BY Zenon
    <3> QED BY <2>3, <3>1, ProxyStays
  <2> QED BY <2>3, <2>4 DEF Done, RunsAt
<1>3. CASE ~HasImplementation(to)
  <2>1. network' = network /\ network = "oasys"
    BY <1>3, RightFixed
  <2>2. ProxyAt(to) = FreshProxy
    BY <1>3, UninitialisedFresh DEF DeploymentInv
  <2> HIDE DEF tx
  <2>3. CASE CodeAt(to) = PROXY
    <3>1. tx.do # "create" /\ tx.do # "initialize"
      BY <1>1
    <3>2. ProxyAt(to)' = Called(tx)
      BY <1>1, <2>3, <3>1, MinedCall
    <3>3. Called(tx) = UpgradeToAndCall(FreshProxy, Signer, rev, CodeAt(rev), tx.data)
      BY <1>1, <2>2, <3>1, Zenon DEF Called
    <3>4. Called(tx) = FreshProxy
      BY <3>3, FreshFacts, SignerFacts DEF UpgradeToAndCall
    <3>5. ~HasImplementation(to)'
      BY <3>2, <3>4, FreshFacts DEF HasImplementation
    <3> QED BY <2>1, <3>5 DEF Done
  <2>4. CASE CodeAt(to) # PROXY
    <3>1. tx.do # "create"
      BY <1>1
    <3>2. proxies' = proxies
      BY <1>1, <2>4, <3>1 DEF Mine
    <3>3. ~HasImplementation(to)'
      BY <1>3, <3>2 DEF HasImplementation, ProxyAt
    <3> QED BY <2>1, <3>3 DEF Done
  <2> QED BY <2>3, <2>4
<1> QED BY <1>2, <1>3

LEMMA UpgradeStaysSent ==
    ASSUME DeploymentInv, DeploymentInv', [Next]_vars, ChainStep, NEW to, NEW rev,
           UpgradeSent(to, rev), network # "oasys" => HasImplementation(to)
    PROVE  UpgradeSent(to, rev)'
<1>1. /\ Len(sent) \in Nat /\ mined \in 0 .. Len(sent) /\ last \in Nat
      /\ mined' \in 0 .. Len(sent') /\ Len(sent') <= Len(sent) /\ Len(sent') \in Nat
      /\ \A n \in 1 .. Len(sent') : sent'[n] = sent[n]
      /\ last' = last /\ network' = network
  BY ChainStepFrame, SentFacts DEF DeploymentInv, processVars
<1>2. last # 0 /\ Len(sent) <= last
  BY DEF UpgradeSent
<1>3. Len(sent') <= last'
  BY <1>1, <1>2
<1>4. last' <= Len(sent') => sent'[last'] = UpgradeTx(to, rev)'
  <2>1. UpgradeTx(to, rev)' = UpgradeTx(to, rev)
    BY <1>1, TxsFixed
  <2>2. last' <= Len(sent') => last \in 1 .. Len(sent') /\ last <= Len(sent)
    BY <1>1, <1>2
  <2> QED BY <1>1, <2>1, <2>2 DEF UpgradeSent
<1>5. ASSUME last <= mined' PROVE last \in reverted' \/ Done(to, rev)'
  <2>1. CASE last <= mined
    <3>1. ~Mine
      BY <1>1, <1>2, <2>1 DEF Mine
    <3> QED BY <2>1, <3>1, RevertedStay, DoneStays DEF UpgradeSent
  <2>2. CASE ~(last <= mined) /\ last \notin reverted'
    <3>1. Mine /\ mined + 1 = last /\ last <= Len(sent)
      BY <1>2, <1>5, <2>2, LastMined
    <3>2. sent[mined + 1] = UpgradeTx(to, rev)
      BY <3>1 DEF UpgradeSent
    <3> QED BY <2>2, <3>1, <3>2, UpgradeMined
  <2> QED BY <2>1, <2>2
<1> QED BY <1>1, <1>2, <1>3, <1>4, <1>5 DEF UpgradeSent

LEMMA StepKind ==
    /\ \A a, b : Step(a, b) = Wait => a = "wait"
    /\ \A a, b, what : Step(a, b) = Check(what) => a = "check"
  BY OtherStep, Zenon DEF Wait, Check

LEMMA InitializationKinds ==
    ASSUME NEW do, NEW x, NEW n \in 1 .. 7, Step(do, x) = InitializationEnd[n]
    PROVE  /\ do \in {"check", "wait", "call"}
           /\ do = "wait" => n = 1 \/ n = 5
           /\ do = "call" => (n = 2 /\ x = "StakedTokenV2Rev4") \/ (n = 6 /\ x = "StakedOas")
           /\ do = "check" => n = 3 \/ n = 4 \/ n = 7
<1>1. n = 1 \/ n = 2 \/ n = 3 \/ n = 4 \/ n = 5 \/ n = 6 \/ n = 7
  OBVIOUS
<1>2. /\ n = 1 \/ n = 5 => Step(do, x) = Wait
      /\ n = 2 => Step(do, x) = Step("call", "StakedTokenV2Rev4")
      /\ n = 6 => Step(do, x) = Step("call", "StakedOas")
      /\ n = 3 \/ n = 4 \/ n = 7 => \E what : Step(do, x) = Check(what)
  BY InitializationSteps, Zenon
<1>3. n = 1 \/ n = 5 => do = "wait"
  BY <1>2, StepKind
<1>4. n = 3 \/ n = 4 \/ n = 7 => do = "check"
  BY <1>2, StepKind
<1>5. /\ n = 2 => do = "call" /\ x = "StakedTokenV2Rev4"
      /\ n = 6 => do = "call" /\ x = "StakedOas"
  BY <1>2, StepFields
<1> QED BY <1>1, <1>3, <1>4, <1>5

LEMMA InitializationHead ==
    ASSUME DeploymentInv, InitializationInv, Initialising, todo # <<>>,
           NEW do, NEW x, Head(todo) = Step(do, x)
    PROVE  /\ Len(todo) \in 1 .. 7
           /\ do \in {"check", "wait", "call"}
           /\ do = "wait" => Len(todo) = 1 \/ Len(todo) = 5
           /\ do = "call" => \/ Len(todo) = 2 /\ x = "StakedTokenV2Rev4"
                             \/ Len(todo) = 6 /\ x = "StakedOas"
           /\ do = "check" => Len(todo) = 3 \/ Len(todo) = 4 \/ Len(todo) = 7
<1>1. /\ todo \in Seq(Steps) /\ Len(todo) \in Nat /\ Len(todo) # 0 /\ Len(todo) <= 7
      /\ EndsIn(todo, InitializationEnd)
  BY TodoFacts DEF InitializationInv, DeploymentInv
<1>2. Len(InitializationEnd) = 7
  BY InitializationSteps, Zenon
<1>3. Len(todo) \in 1 .. 7 /\ Head(todo) = InitializationEnd[Len(todo)]
  <2>1. \A n, m : n \in Nat /\ n # 0 /\ n <= 7 /\ m = 7 => n \in 1 .. 7 /\ n \in 1 .. m
    OBVIOUS
  <2>2. Len(todo) \in 1 .. 7 /\ Len(todo) \in 1 .. Len(InitializationEnd)
    BY <1>1, <1>2, <2>1, Zenon
  <2> QED BY <1>1, <2>2, HeadEnds
<1> QED BY <1>3, InitializationKinds

\* A step of the task leaves one step less, and the entries as they are.
LEMMA InitializationAdvances ==
    ASSUME DeploymentInv, InitializationInv, Initialising, todo # <<>>, todo' = Tail(todo),
           network' = network, task' = task, db' = db,
           \A n \in Nat : \A to, logic, rev :
             /\ to = db["StakedOas"] /\ logic = db["StakedOasImpl"]
             /\ rev = db["StakedTokenV2Rev4"]
             /\ Len(todo) = n + 1 /\ Initialised(n + 1, to, logic, rev)
             => Initialised(n, to, logic, rev)'
    PROVE  InitializationInv'
<1>1. /\ todo \in Seq(Steps) /\ Len(todo) \in Nat /\ Len(todo') = Len(todo) - 1
      /\ EndsIn(todo, InitializationEnd) /\ Len(todo) <= 7
  BY TodoFacts DEF InitializationInv, DeploymentInv
<1>2. Len(InitializationEnd) \in Nat
  <2>1. Len(InitializationEnd) = 7
    BY InitializationSteps, Zenon
  <2> QED BY <2>1
<1>3. EndsIn(todo', InitializationEnd)
  BY <1>1, <1>2, TailEnds
<1>0. \A n \in Nat : n <= 7 => n - 1 <= 7 /\ (n # 0 => n - 1 \in Nat /\ n = (n - 1) + 1)
  OBVIOUS
<1>4. Len(todo') <= 7
  BY <1>0, <1>1, Zenon
<1>5. ASSUME NEW to, NEW logic, NEW rev, to = db'["StakedOas"], logic = db'["StakedOasImpl"],
             rev = db'["StakedTokenV2Rev4"]
      PROVE  Initialised(Len(todo), to, logic, rev)'
  <2>1. Initialised(Len(todo), to, logic, rev)
    BY <1>5 DEF InitializationInv
  <2>2. PICK n \in Nat : Len(todo) = n + 1 /\ Len(todo') = n
    <3>1. Len(todo) # 0
      BY TodoFacts DEF DeploymentInv
    <3>2. Len(todo) - 1 \in Nat /\ Len(todo) = (Len(todo) - 1) + 1
      BY <1>0, <1>1, <3>1, Zenon
    <3> QED BY <1>1, <3>2, Zenon
  <2>3. Initialised(n, to, logic, rev)'
    BY <1>5, <2>1, <2>2
  <2> QED BY <2>2, <2>3 DEF Initialised
<1> QED BY <1>3, <1>4, <1>5 DEF InitializationInv

LEMMA InitializationPasses ==
    ASSUME DeploymentInv, DeploymentInv', [Next]_vars, InitializationInv,
           NEW do, NEW x, Passing(do, x)
    PROVE  InitializationInv'
<1>1. /\ task' = task /\ todo' = Tail(todo) /\ last' = last /\ network' = network
      /\ todo # <<>> /\ Head(todo) = Step(do, x)
      /\ do \notin {"send", "create", "call", "register"}
      /\ do = "wait" => last \in 1 .. mined /\ last \notin reverted
  BY DEF Passing
<1> SUFFICES ASSUME Initialising PROVE InitializationInv'
  BY <1>1 DEF InitializationInv, Initialising
<1>3. /\ \/ do = "wait" /\ (Len(todo) = 1 \/ Len(todo) = 5)
         \/ Len(todo) = 3 \/ Len(todo) = 4 \/ Len(todo) = 7
      /\ do # "predict"
  BY <1>1, InitializationHead
<1>2. /\ db' = db /\ sent' = sent /\ mined' = mined
      /\ Len(sent) \in Nat /\ mined \in 0 .. Len(sent) /\ last \in Nat
  BY <1>3, SentFacts DEF Passing, chainVars, DeploymentInv
<1>4. ASSUME NEW n \in Nat, NEW to, NEW logic, NEW rev, Len(todo) = n + 1,
             Initialised(n + 1, to, logic, rev)
      PROVE  Initialised(n, to, logic, rev)'
  <2>1. CASE n = 4
    <3>1. last <= mined /\ last \notin reverted
      <4>1. do = "wait"
        BY <1>3, <1>4, <2>1
      <4> QED BY <1>1, <4>1, SentFacts DEF DeploymentInv
    <3>2. network # "oasys" => HasImplementation(to)
      BY <1>4, <2>1, <3>1 DEF Initialised, InitializeSent
    <3>3. network' # "oasys" => HasImplementation(to)'
      BY <1>1, <3>2, ImplementationKept
    <3> QED BY <2>1, <3>3 DEF Initialised
  <2>2. CASE n = 0
    <3>1. last <= mined /\ last \notin reverted
      <4>1. do = "wait"
        BY <1>3, <1>4, <2>2
      <4> QED BY <1>1, <4>1, SentFacts DEF DeploymentInv
    <3>2. /\ network # "oasys" => HasImplementation(to)
          /\ Len(sent) <= last /\ Done(to, rev)
      BY <1>4, <2>2, <3>1 DEF Initialised, UpgradeSent
    <3>3. mined = Len(sent) /\ ~Mine
      BY <1>2, <3>1, <3>2 DEF Mine
    <3>4. /\ network' # "oasys" => HasImplementation(to)'
          /\ Done(to, rev)'
      BY <1>1, <3>2, <3>3, DoneStays, ImplementationKept
    <3> QED BY <1>2, <2>2, <3>3, <3>4 DEF Initialised
  <2>3. CASE n = 2 \/ n = 3
    <3>1. network # "oasys" => HasImplementation(to)
      BY <1>4, <2>3 DEF Initialised
    <3>2. network' # "oasys" => HasImplementation(to)'
      BY <1>1, <3>1, ImplementationKept
    <3> QED BY <2>3, <3>2 DEF Initialised
  <2>4. CASE n = 6
    BY <2>4 DEF Initialised
  <2>5. n = 0 \/ n = 2 \/ n = 3 \/ n = 4 \/ n = 6
    BY <1>3, <1>4
  <2> QED BY <2>1, <2>2, <2>3, <2>4, <2>5
<1> QED BY <1>1, <1>2, <1>4, InitializationAdvances

LEMMA CallThrows ==
    \A x : ~Throws(Step("call", x)) => CallOf(x).to # Unregistered /\ Succeeds(CallOf(x))
<1> SUFFICES ASSUME NEW x, ~Throws(Step("call", x))
             PROVE  CallOf(x).to # Unregistered /\ Succeeds(CallOf(x))
  OBVIOUS
<1>1. Step("call", x).do = "call" /\ Step("call", x).id = x
  BY DEF Step
<1>2. Unregistered \notin {CallOf(x).to, CallOf(x).logic} /\ Succeeds(CallOf(x))
  BY <1>1, Zenon DEF Throws
<1> QED BY <1>2

LEMMA CallsOf ==
    /\ CallOf("StakedOas") = InitializeTx(db["StakedOas"], db["StakedOasImpl"])
    /\ CallOf("StakedTokenV2Rev4") = UpgradeTx(db["StakedOas"], db["StakedTokenV2Rev4"])
  BY DEF CallOf, InitializeCall, UpgradeCall, InitializeTx, UpgradeTx

LEMMA InitializationSends ==
    ASSUME DeploymentInv, DeploymentInv', [Next]_vars, InitializationInv, NEW w \in Ids,
           SendCalldata(w) \/ CreateContract(w) \/ CallProxy(w)
    PROVE  InitializationInv'
<1>1. PICK do, tx :
              /\ do \in Sending
              /\ todo # <<>> /\ Head(todo) = Step(do, w) /\ todo' = Tail(todo)
              /\ ~Throws(Step(do, w))
              /\ UNCHANGED <<network, fileVars, task, mined, reverted>>
              /\ sent' = Append(sent, tx) /\ last' = Len(sent) + 1
              /\ do = "call" => tx = CallOf(w)
  BY SendingMoves DEF DeploymentInv
<1>2. task' = task /\ db' = db /\ network' = network /\ mined' = mined
  BY <1>1 DEF fileVars
<1> SUFFICES ASSUME Initialising PROVE InitializationInv'
  BY <1>2 DEF InitializationInv, Initialising
<1>3. /\ do = "call"
      /\ \/ Len(todo) = 2 /\ w = "StakedTokenV2Rev4"
         \/ Len(todo) = 6 /\ w = "StakedOas"
  <2>1. do = "call"
    BY <1>1, InitializationHead DEF Sending
  <2>2. \/ Len(todo) = 2 /\ w = "StakedTokenV2Rev4"
        \/ Len(todo) = 6 /\ w = "StakedOas"
    BY <1>1, <2>1, InitializationHead
  <2> QED BY <2>1, <2>2
<1>4. /\ tx = CallOf(w) /\ CallOf(w).to # Unregistered /\ Succeeds(CallOf(w))
  BY <1>1, <1>3, CallThrows
<1>5. /\ last' # 0 /\ ~(last' <= mined') /\ sent'[last'] = tx /\ Len(sent') <= last'
  BY <1>1, <1>2, SentFacts DEF DeploymentInv
<1>6. ASSUME NEW n \in Nat, NEW to, NEW logic, NEW rev,
             to = db["StakedOas"], logic = db["StakedOasImpl"], rev = db["StakedTokenV2Rev4"],
             Len(todo) = n + 1, Initialised(n + 1, to, logic, rev)
      PROVE  Initialised(n, to, logic, rev)'
  <2>1. CASE Len(todo) = 6 /\ w = "StakedOas" /\ network # "oasys"
    <3>1. tx = InitializeTx(to, logic) /\ to # Unregistered
      BY <1>4, <1>6, <2>1, CallsOf, TxFacts
    <3>2. CodeAt(to) = PROXY
      BY <1>6, <2>1, <3>1, EntryReady, ReadyCode DEF DeploymentInv, Direct, Ids, CodeOf
    <3>3. CodeAt(to)' = PROXY
      <4>1. PROXY # ""
        BY Zenon DEF PROXY
      <4> QED BY <3>2, <4>1, ProxyStays
    <3>4. sent'[last'] = InitializeTx(to, logic)'
      <4>1. InitializeTx(to, logic)' = InitializeTx(to, logic)
        BY <1>2, TxsFixed
      <4> QED BY <1>5, <3>1, <4>1
    <3>5. InitializeSent(to, logic)'
      BY <1>5, <3>3, <3>4 DEF InitializeSent
    <3>6. n = 5
      <4>1. n \in Nat /\ n + 1 = 6
        BY <1>6, <2>1
      <4> QED BY <4>1
    <3> QED BY <3>5, <3>6 DEF Initialised
  <2>2. CASE Len(todo) = 2 /\ w = "StakedTokenV2Rev4"
    <3>1. tx = UpgradeTx(to, rev)
      BY <1>4, <1>6, <2>2, CallsOf
    <3>2. n = 1 /\ (network # "oasys" => HasImplementation(to))
      <4>1. n \in Nat /\ n + 1 = 2
        BY <1>6, <2>2
      <4>2. n = 1
        BY <4>1
      <4>3. n + 1 <= 4
        BY <4>2
      <4> QED BY <1>6, <4>2, <4>3 DEF Initialised
    <3>3. sent'[last'] = UpgradeTx(to, rev)'
      <4>1. UpgradeTx(to, rev)' = UpgradeTx(to, rev)
        BY <1>2, TxsFixed
      <4> QED BY <1>5, <3>1, <4>1
    <3>4. UpgradeSent(to, rev)'
      BY <1>5, <3>3 DEF UpgradeSent
    <3>5. network' # "oasys" => HasImplementation(to)'
      BY <1>2, <3>2, ImplementationKept
    <3> QED BY <3>2, <3>4, <3>5 DEF Initialised
  <2>3. CASE Len(todo) = 6 /\ network = "oasys"
    <3>1. n = 5
      <4>1. n \in Nat /\ n + 1 = 6
        BY <1>6, <2>3
      <4> QED BY <4>1
    <3> QED BY <1>2, <2>3, <3>1 DEF Initialised
  <2> QED BY <1>3, <2>1, <2>2, <2>3
<1> QED BY <1>1, <1>2, <1>6, InitializationAdvances

\* The process rests while the chain takes a step, or nothing happens.
LEMMA InitializationRests ==
    ASSUME DeploymentInv, DeploymentInv', [Next]_vars, InitializationInv, Resting \/ ChainStep
    PROVE  InitializationInv'
<1>1. /\ task' = task /\ todo' = todo /\ last' = last /\ network' = network /\ db' = db
  <2>1. UNCHANGED <<network, fileVars, processVars>>
    BY ChainStepFrame DEF DeploymentInv, Resting
  <2> QED BY <2>1 DEF fileVars, processVars
<1> SUFFICES ASSUME Initialising PROVE InitializationInv'
  BY <1>1 DEF InitializationInv, Initialising
<1>2. EndsIn(todo', InitializationEnd) /\ Len(todo') <= 7
  BY <1>1 DEF InitializationInv
<1>3. ASSUME NEW to, NEW logic, NEW rev,
             to = db["StakedOas"], logic = db["StakedOasImpl"], rev = db["StakedTokenV2Rev4"]
      PROVE  Initialised(Len(todo), to, logic, rev)'
  <2> DEFINE n == Len(todo)
  <2>1. n \in Nat /\ n' = n /\ Initialised(n, to, logic, rev)
    BY <1>1, <1>3, TodoFacts DEF InitializationInv, DeploymentInv
  <2> HIDE DEF n
  <2>2. network # "oasys" /\ n <= 4 => HasImplementation(to)'
    BY <2>1, ImplementationKept DEF Initialised
  <2>3. network # "oasys" /\ n = 5 => InitializeSent(to, logic)'
    <3> SUFFICES ASSUME InitializeSent(to, logic) PROVE InitializeSent(to, logic)'
      BY <2>1 DEF Initialised
    <3>1. CASE ChainStep
      BY <3>1, InitializeStaysSent
    <3>2. CASE Resting
      <4>1. /\ sent' = sent /\ mined' = mined /\ reverted' = reverted /\ proxies' = proxies
            /\ last' = last
        BY <1>1, <3>2 DEF Resting, chainVars
      <4>2. CodeAt(to)' = PROXY
        <5>1. CodeAt(to) = PROXY /\ PROXY # ""
          BY Zenon DEF InitializeSent, PROXY
        <5> QED BY <5>1, ProxyStays
      <4>3. InitializeTx(to, logic)' = InitializeTx(to, logic)
        BY <1>1, TxsFixed
      <4>4. HasImplementation(to) => HasImplementation(to)'
        BY ImplementationKept
      <4> QED BY <4>1, <4>2, <4>3, <4>4 DEF InitializeSent
    <3> QED BY <3>1, <3>2
  <2>4. n = 1 => UpgradeSent(to, rev)'
    <3> SUFFICES ASSUME UpgradeSent(to, rev), network # "oasys" => HasImplementation(to)
                 PROVE  UpgradeSent(to, rev)'
      <4>1. n = 1 => n <= 4
        OBVIOUS
      <4> QED BY <2>1, <4>1 DEF Initialised
    <3>1. CASE ChainStep
      BY <3>1, UpgradeStaysSent
    <3>2. CASE Resting
      <4>1. /\ sent' = sent /\ mined' = mined /\ reverted' = reverted /\ proxies' = proxies
            /\ last' = last
        BY <1>1, <3>2 DEF Resting, chainVars
      <4>2. UpgradeTx(to, rev)' = UpgradeTx(to, rev)
        BY <1>1, TxsFixed
      <4>3. ~Mine
        BY <4>1, SentFacts DEF Mine, DeploymentInv
      <4>4. Done(to, rev) => Done(to, rev)'
        BY <4>3, DoneStays
      <4> QED BY <4>1, <4>2, <4>4 DEF UpgradeSent
    <3> QED BY <3>1, <3>2
  <2>5. n = 0 => (mined = Len(sent) /\ Done(to, rev))'
    <3> SUFFICES ASSUME mined = Len(sent), Done(to, rev)
                 PROVE  mined' = Len(sent') /\ Done(to, rev)'
      BY <2>1 DEF Initialised
    <3>1. ~Mine
      BY SentFacts DEF Mine, DeploymentInv
    <3>2. mined' = Len(sent')
      <4>1. CASE ChainStep
        <5>1. mined \in Nat /\ mined <= mined' /\ mined' \in 0 .. Len(sent')
              /\ Len(sent') <= Len(sent) /\ Len(sent') \in Nat
          BY <4>1, ChainStepFrame DEF DeploymentInv
        <5> QED BY <5>1
      <4>2. CASE Resting
        BY <4>2 DEF Resting, chainVars
      <4> QED BY <4>1, <4>2
    <3> QED BY <3>1, <3>2, DoneStays
  <2> QED BY <1>1, <2>1, <2>2, <2>3, <2>4, <2>5 DEF Initialised, n
<1> QED BY <1>1, <1>2, <1>3 DEF InitializationInv

LEMMA InitializationStep ==
    DeploymentInv /\ DeploymentInv' /\ InitializationInv /\ [Next]_vars => InitializationInv'
<1> SUFFICES ASSUME DeploymentInv, DeploymentInv', InitializationInv, [Next]_vars
             PROVE  InitializationInv'
  OBVIOUS
<1>1. ASSUME NEW t \in Tasks, Start(t) PROVE InitializationInv'
  <2>1. task' = t /\ todo' = Program(t)
    BY <1>1 DEF Start
  <2> SUFFICES ASSUME t = "common-initialization" PROVE InitializationInv'
    BY <2>1 DEF InitializationInv, Initialising
  <2>2. Len(todo') = 7 /\ EndsIn(todo', InitializationEnd)
    BY <2>1, InitializationProgram
  <2>3. \A to, logic, rev : Initialised(Len(todo), to, logic, rev)'
    BY <2>2 DEF Initialised
  <2> QED BY <2>2, <2>3 DEF InitializationInv
<1>2. ASSUME NEW how \in {"finished", "failed", "killed"}, Ending(how) PROVE InitializationInv'
  <2>1. /\ task' = IF how = "finished" THEN task ELSE ""
        /\ todo' = <<>> /\ (how = "finished" => todo = <<>>)
        /\ network' = network /\ db' = db
    BY <1>2 DEF Ending, EndsAs, fileVars
  <2>2. CASE how # "finished"
    BY <2>1, <2>2 DEF InitializationInv, Initialising
  <2>3. CASE how = "finished"
    <3> SUFFICES ASSUME Initialising PROVE InitializationInv'
      BY <2>1, <2>3 DEF InitializationInv, Initialising
    <3>1. todo = <<>> /\ todo' = <<>>
      BY <2>1, <2>3
    <3>2. Len(todo) = 0 /\ Len(todo') = 0
      BY <3>1, TodoFacts DEF DeploymentInv
    <3>3. ASSUME NEW to, NEW logic, NEW rev,
                 to = db["StakedOas"], logic = db["StakedOasImpl"], rev = db["StakedTokenV2Rev4"]
          PROVE  Initialised(Len(todo), to, logic, rev)'
      <4>1. /\ network # "oasys" => HasImplementation(to)
            /\ mined = Len(sent) /\ Done(to, rev)
        BY <3>2, <3>3 DEF InitializationInv, Initialised
      <4>2. mined' = mined /\ sent' = sent
        BY <1>2 DEF Ending, EndsAs, chainVars
      <4>3. ~Mine
        BY <4>1, SentFacts DEF Mine, DeploymentInv
      <4>4. /\ network' # "oasys" => HasImplementation(to)'
            /\ Done(to, rev)'
        BY <2>1, <4>1, <4>3, DoneStays, ImplementationKept
      <4> QED BY <3>2, <4>1, <4>2, <4>4 DEF Initialised
    <3>4. EndsIn(todo', InitializationEnd) /\ Len(todo') <= 7
      BY <3>1, <3>2 DEF InitializationInv
    <3> QED BY <2>1, <3>3, <3>4 DEF InitializationInv
  <2> QED BY <2>2, <2>3
<1>3. ASSUME NEW do, NEW x, Passing(do, x) PROVE InitializationInv'
  BY <1>3, InitializationPasses
<1>4. CASE LeaveOasys
  <2>1. /\ task' = task /\ todo # <<>> /\ Head(todo) = Step(Leaving, "")
        /\ Leaving \notin {"check", "wait", "call"}
    BY <1>4, NotPredicted, OthersStay, Zenon DEF LeaveOasys, At, Leaving
  <2> SUFFICES ASSUME Initialising PROVE FALSE
    BY <2>1 DEF InitializationInv, Initialising
  <2> QED BY <2>1, InitializationHead
<1>5. ASSUME NEW w \in Ids, SendCalldata(w) \/ CreateContract(w) \/ CallProxy(w)
      PROVE  InitializationInv'
  BY <1>5, InitializationSends
<1>6. ASSUME NEW w \in Ids, RegisterContract(w) PROVE InitializationInv'
  <2>1. /\ network' = network /\ task' = task
        /\ todo # <<>> /\ Head(todo) = Step("register", w)
    BY <1>6, StepFacts DEF RegisterContract, Environment, DeploymentInv
  <2> SUFFICES ASSUME Initialising PROVE FALSE
    BY <2>1 DEF InitializationInv, Initialising
  <2> QED BY <2>1, InitializationHead
<1>7. CASE Resting \/ ChainStep
  BY <1>7, InitializationRests
<1> QED BY <1>1, <1>2, <1>3, <1>4, <1>5, <1>6, <1>7, Moves DEF DeploymentInv

\* The three slots of the token variables.
LEMMA TokenSlots ==
    ASSUME NEW s, NEW x, NEW y, s = [k \in Slots |-> s[k]], s[1] = x, s[2] = x, s[3] = y
    PROVE  SubSeq(s, 1, 3) = <<x>> \o <<x, y>>
  BY DEF Slots

(* common-initialization: when it says it has finished, the proxy runs       *)
(* revision 4 with the admin, the token and the vault of the network,        *)
(* whatever was killed, lost or done before; or, on oasys, nothing has       *)
(* happened to the proxy.                                                    *)
THEOREM InitializationIsReal == Spec => []FinishedInitializationReal
<1>1. Init => InitializationInv
  BY DEF Init, InitializationInv, Initialising
<1>2. InitializationInv /\ DeploymentInv => FinishedInitializationReal
  <2> SUFFICES ASSUME InitializationInv, DeploymentInv, outcome = "finished", Initialising
               PROVE  LET proxy == ProxyAt(db["StakedOas"])
                      IN  \/ /\ RunsRevision4
                             /\ proxy.admin = Admin
                             /\ SubSeq(proxy.slots, 1, 3)
                                  = <<GetTokenPerNetwork(network)>> \o TokenArgs
                          \/ network = "oasys" /\ proxy = FreshProxy
    BY DEF FinishedInitializationReal, Initialising
  <2> DEFINE to == db["StakedOas"]
             rev == db["StakedTokenV2Rev4"]
             p == ProxyAt(to)
  <2>1. Len(todo) = 0
    BY TodoFacts DEF DeploymentInv, ScheduleInv, Running
  <2>2. Done(to, rev)
    BY <2>1 DEF InitializationInv, Initialised
  <2>3. CASE ~RunsAt(to, rev)
    <3>1. network = "oasys" /\ ~HasImplementation(to)
      BY <2>2, <2>3 DEF Done
    <3>2. p = FreshProxy
      BY <3>1, UninitialisedFresh DEF DeploymentInv
    <3> QED BY <3>1, <3>2
  <2> SUFFICES ASSUME RunsAt(to, rev)
               PROVE  /\ RunsRevision4
                      /\ p.admin = Admin
                      /\ SubSeq(p.slots, 1, 3) = <<GetTokenPerNetwork(network)>> \o TokenArgs
    BY <2>3
  <2>4. RunsAt(to, rev) /\ HasImplementation(to)
    <3>1. CodeAt(rev) # ""
      BY Zenon DEF RunsAt
    <3> QED BY <3>1, CodeNotAtZero DEF RunsAt, HasImplementation
  <2>5. PICK i, c, s : CodeAt(i) = c /\ Upgradeable(p, i, c, s)
    BY <2>4, InitialisedAt DEF DeploymentInv
  <2>6. /\ p.implementation = i /\ p.admin = Admin /\ p.lastInitializedRevision = Revision(c)
        /\ p.slots = s /\ Kept(c, s)
    BY <2>5 DEF Upgradeable
  <2>7. i = rev /\ c = "StakedTokenV2Rev4"
    BY <2>4, <2>5, <2>6 DEF RunsAt
  <2>8. RunsRevision4
    BY <2>4, <2>5, <2>6, <2>7, Arities DEF RunsRevision4, RunsAt
  <2>9. SubSeq(s, 1, 3) = <<GetTokenPerNetwork(network)>> \o TokenArgs
    BY <2>6, <2>7, TokenSlots DEF Kept, TokenArgs
  <2> QED BY <2>6, <2>8, <2>9
<1>3. InitializationInv /\ DeploymentInv /\ DeploymentInv' /\ [Next]_vars => InitializationInv'
  BY InitializationStep
<1> QED BY <1>1, <1>2, <1>3, DeploymentInit, DeploymentStep, PTL DEF Spec

-----------------------------------------------------------------------------
(* How long a task goes on *)

(* A verification goes on only within a step of a running task.              *)
VerifyingRuns == verifying => Running /\ todo # <<>>

LEMMA VerifyingStarts == Init => VerifyingRuns
  BY DEF Init, VerifyingRuns, VerificationInit

LEMMA VerifyingStep == VerifyingRuns /\ [Next]_vars => VerifyingRuns'
<1> SUFFICES ASSUME VerifyingRuns, [Next]_vars PROVE VerifyingRuns'
  OBVIOUS
<1>1. CASE UNCHANGED vars
  BY <1>1 DEF vars, processVars, verificationVars, VerifyingRuns, Running
<1>2. ASSUME NEW t \in Tasks, Start(t) PROVE VerifyingRuns'
  BY <1>2 DEF Start, verificationVars, VerifyingRuns
<1>3. ASSUME NEW do, NEW x, At(do, x), UNCHANGED verificationVars PROVE VerifyingRuns'
  BY <1>3 DEF At, verificationVars, VerifyingRuns
<1>4. CASE PassCheck \/ LeaveOasys \/ WaitForReceipt
  BY <1>3, <1>4 DEF PassCheck, LeaveOasys, WaitForReceipt, Takes
<1>5. ASSUME NEW w \in Ids, \/ WriteCalldata(w) \/ RegisterPredicted(w) \/ RegisterContract(w)
                            \/ SendCalldata(w) \/ CreateContract(w) \/ CallProxy(w)
      PROVE  VerifyingRuns'
  BY <1>3, <1>5 DEF WriteCalldata, RegisterPredicted, RegisterContract, SendCalldata,
                    CreateContract, CallProxy, SendTransaction, Takes
<1>6. ASSUME NEW w \in Ids, Verify(w) PROVE VerifyingRuns'
  <2>1. CASE network \in SUPPORTED_ETHERSCAN_NETWORKS
    BY <1>6, <2>1 DEF Verify, At, VerifyingRuns, Running
  <2>2. CASE network \notin SUPPORTED_ETHERSCAN_NETWORKS
    BY <1>3, <1>6, <2>2 DEF Verify
  <2> QED BY <2>1, <2>2
<1>7. CASE VerificationRound
  BY <1>7 DEF VerificationRound, VerifyingRuns, Running
<1>8. CASE Finish \/ Fail \/ Kill
  BY <1>8 DEF Finish, Fail, Kill, EndsAs, EndVerification, VerifyingRuns
<1>9. CASE ChainStep
  <2>1. UNCHANGED <<outcome, todo, verifying>>
    BY <1>9 DEF ChainStep, Mine, LoseMempool, FactoryDeploys, Use, processVars, verificationVars
  <2> QED BY <2>1 DEF VerifyingRuns, Running
<1> QED BY <1>1, <1>2, <1>4, <1>5, <1>6, <1>7, <1>8, <1>9 DEF Next, ProcessStep, ChainStep

(* The steps a task has left at most: six for each awaited one, which may be *)
(* a verification of four rounds that is given up, and the last, which ends  *)
(* it.                                                                       *)
Work ==
    6 * Len(todo) + (IF verifying THEN times - 5 ELSE 0) + (IF Running THEN 1 ELSE 0)

Lasting == EntriesInv /\ VerificationInv /\ ScheduleInv /\ VerifyingRuns

LEMMA WorkFacts ==
    ASSUME Lasting
    PROVE  /\ Len(todo) \in Nat /\ times \in 0 .. 4 /\ Work \in Nat
           /\ todo # <<>> => Len(Tail(todo)) = Len(todo) - 1 /\ Len(todo) >= 1
           /\ ~Running => Work = 0
<1>1. /\ Len(todo) \in Nat /\ (todo = <<>> <=> Len(todo) = 0)
      /\ todo # <<>> => Len(Tail(todo)) = Len(todo) - 1
  BY TodoFacts DEF Lasting
<1>2. times \in 0 .. 4
  BY DEF Lasting, VerificationInv, VerificationTypeOK, MaxTimes
<1>3. verifying => Running /\ todo # <<>>
  BY DEF Lasting, VerifyingRuns
<1>4. ~Running => todo = <<>>
  BY DEF Lasting, ScheduleInv
<1> QED BY <1>1, <1>2, <1>3, <1>4 DEF Work

(* No task goes on for ever but by waiting: whatever the explorer answers,   *)
(* each step of a process leaves it less to do, and nothing but starting a   *)
(* task ever leaves more.  This is TaskEnds up to the fairness of the steps. *)
TasksShorten ==
    [][/\ ProcessStep => Work \in Nat /\ Work' \in Nat /\ Work' < Work
       /\ (\E t \in Tasks : Start(t)) \/ Work' <= Work]_vars

WorkTyped == Work \in Nat

LEMMA WorkNow == Lasting => WorkTyped
  BY WorkFacts DEF WorkTyped

LEMMA WorkThen == Lasting' => WorkTyped'
  BY WorkNow, PTL

LEMMA WorkShrinks == ASSUME Lasting, ProcessStep PROVE Work' < Work
<1>1. /\ Len(todo) \in Nat /\ times \in 0 .. 4 /\ Work \in Nat
      /\ todo # <<>> => Len(Tail(todo)) = Len(todo) - 1 /\ Len(todo) >= 1
      /\ ~Running => Work = 0
  BY WorkFacts
<1>2. ASSUME Running, todo # <<>>, ~verifying, Running', todo' = Tail(todo), ~verifying'
      PROVE  Work' < Work
  BY <1>1, <1>2 DEF Work
<1>3. ASSUME NEW do, NEW x, At(do, x), Continue, UNCHANGED verificationVars
      PROVE  Work' < Work
  BY <1>2, <1>3 DEF At, Continue, verificationVars, Running
<1>4. CASE PassCheck \/ WaitForReceipt
  BY <1>3, <1>4 DEF PassCheck, WaitForReceipt, Takes
<1>5. ASSUME NEW w \in Ids, \/ WriteCalldata(w) \/ RegisterPredicted(w) \/ RegisterContract(w)
                            \/ SendCalldata(w) \/ CreateContract(w) \/ CallProxy(w)
      PROVE  Work' < Work
  BY <1>3, <1>5 DEF WriteCalldata, RegisterPredicted, RegisterContract, SendCalldata,
                    CreateContract, CallProxy, SendTransaction, Takes
<1>6. CASE LeaveOasys
  <2>1. /\ Running /\ todo # <<>> /\ ~verifying /\ ~verifying' /\ Running'
        /\ todo' = IF network = "oasys" THEN <<>> ELSE Tail(todo)
    BY <1>6 DEF LeaveOasys, At, verificationVars, Running
  <2>2. Len(<<>>) = 0
    OBVIOUS
  <2>3. Len(todo') < Len(todo) /\ Len(todo') \in Nat
    BY <1>1, <2>1, <2>2
  <2> QED BY <1>1, <2>1, <2>3 DEF Work
<1>7. ASSUME NEW w \in Ids, Verify(w) PROVE Work' < Work
  <2>1. CASE network \in SUPPORTED_ETHERSCAN_NETWORKS
    <3>1. /\ Running /\ ~verifying /\ todo' = todo /\ Running' /\ verifying' = TRUE /\ times' = 4
      BY <1>7, <2>1 DEF Verify, At, StartVerification, MaxTimes, Running
    <3> QED BY <1>1, <3>1 DEF Work
  <2>2. CASE network \notin SUPPORTED_ETHERSCAN_NETWORKS
    BY <1>3, <1>7, <2>2 DEF Verify
  <2> QED BY <2>1, <2>2
<1>8. CASE VerificationRound
  <2>1. /\ verifying /\ Running /\ todo # <<>> /\ Running'
        /\ todo' = IF verifying' THEN todo ELSE Tail(todo)
    BY <1>8 DEF VerificationRound, Lasting, VerifyingRuns, Running
  <2>2. verifying' => times' = times - 1
    BY <1>8 DEF VerificationRound, Attempt, GiveUp
  <2>3. CASE verifying'
    BY <1>1, <2>1, <2>2, <2>3 DEF Work
  <2>4. CASE ~verifying'
    <3>1. Len(todo') = Len(todo) - 1
      BY <1>1, <2>1, <2>4
    <3> QED BY <1>1, <2>1, <2>4, <3>1 DEF Work
  <2> QED BY <2>3, <2>4
<1>9. CASE Finish \/ Fail
  <2>1. Running /\ ~Running' /\ todo' = <<>> /\ ~verifying'
    BY <1>9 DEF Finish, Fail, EndsAs, EndVerification, Running
  <2>2. Work' = 0
    BY <2>1 DEF Work
  <2>3. Work >= 1
    <3>1. verifying => todo # <<>>
      BY DEF Lasting, VerifyingRuns
    <3> QED BY <1>1, <2>1, <3>1 DEF Work
  <2> QED BY <1>1, <2>2, <2>3
<1> QED BY <1>4, <1>5, <1>6, <1>7, <1>8, <1>9 DEF ProcessStep

(* TasksShorten for all tasks and networks, whatever is killed or lost.      *)
THEOREM TaskStepsAreFinite == Spec => TasksShorten
<1>1. Lasting /\ Lasting' /\ [Next]_vars =>
        [/\ ProcessStep => Work \in Nat /\ Work' \in Nat /\ Work' < Work
         /\ (\E t \in Tasks : Start(t)) \/ Work' <= Work]_vars
  <2> SUFFICES ASSUME Lasting, Lasting', [Next]_vars, ~(\E t \in Tasks : Start(t))
               PROVE  /\ ProcessStep => Work \in Nat /\ Work' \in Nat /\ Work' < Work
                      /\ Work' <= Work
    BY WorkNow, WorkThen, WorkShrinks DEF WorkTyped
  <2>0. Work \in Nat /\ Work' \in Nat /\ (ProcessStep => Work' < Work)
    BY WorkNow, WorkThen, WorkShrinks DEF WorkTyped
  <2>1. ASSUME ProcessStep PROVE Work' <= Work
    BY <2>0, <2>1
  <2>2. ASSUME Kill PROVE Work' <= Work
    <3>1. todo' = <<>> /\ ~verifying' /\ ~Running'
      BY <2>2 DEF Kill, EndsAs, EndVerification, Running
    <3>2. Work' = 0
      BY <3>1 DEF Work
    <3> QED BY <2>0, <3>2
  <2>3. ASSUME ChainStep \/ UNCHANGED vars PROVE Work' <= Work
    <3>1. UNCHANGED <<outcome, todo, verifying, times>>
      BY <2>3 DEF ChainStep, Mine, LoseMempool, FactoryDeploys, Use, processVars,
                  verificationVars, vars
    <3> QED BY <2>0, <3>1 DEF Work, Running
  <2>4. Work' <= Work
    BY <2>1, <2>2, <2>3 DEF Next, ChainStep
  <2> QED BY <2>0, <2>4
<1> QED BY <1>1, VerifyingStarts, VerifyingStep, DeploymentInit, DeploymentStep, PTL
        DEF Spec, TasksShorten, Lasting, DeploymentInv

=============================================================================
