----------------------- MODULE SignedApprovalsProofs -----------------------
(***************************************************************************)
(* Theorems about SignedApprovals, whatever the users sign and whoever     *)
(* submits it: a signature acts once, and approvals and signatures change  *)
(* nothing of the voting power that the holders' own calls could not.      *)
(***************************************************************************)
EXTENDS SignedApprovals, GovernancePowerProofs

(* What was accepted of a user, in the order of his nonces.                  *)
AcceptedInOrder ==
    \A u \in Users :
        /\ Len(accepted[u]) = nonces[u]
        /\ \A i \in 1 .. Len(accepted[u]) :
              Recovers(accepted[u][i], u) /\ accepted[u][i].nonce = i - 1

SignedInv == SignedTypeOK /\ AcceptedInOrder

-----------------------------------------------------------------------------
(* A signature that recovers is one that a user made.                        *)
LEMMA SignedByUser ==
    ASSUME NEW data, NEW signer, Recovers(data, signer)
    PROVE  signer \in Users /\ data \in TypedData
<1>1. GetSignatureFromTypedData(signer, data) \in [signer : Users, data : TypedData]
  BY SignaturesAssumption DEF Recovers
<1> QED BY <1>1 DEF GetSignatureFromTypedData

LEMMA PermitFields ==
    ASSUME NEW data \in TypedData, data.primaryType = "Permit"
    PROVE  data.owner \in Users /\ data.spender \in Users /\ data.value \in Nat
  BY DEF TypedData

LEMMA DelegationFields ==
    ASSUME NEW data \in TypedData, data.primaryType # "Permit"
    PROVE  /\ data.delegatee \in Users
           /\ data.primaryType = "DelegateByType" => data.type \in Types
  BY DEF TypedData

LEMMA ApprovalTyped ==
    ASSUME SignedTypeOK, NEW owner \in Users, NEW spender \in Users, NEW amount \in Nat,
           ApproveTo(owner, spender, amount)
    PROVE  allowance' \in [Users -> [Users -> Nat]]
  BY DEF SignedTypeOK, ApproveTo

(* Using up the current nonce keeps what was accepted in order.              *)
LEMMA UseKeepsOrder ==
    ASSUME SignedInv, NEW signer, NEW data, Recovers(data, signer),
           data.nonce = nonces[signer], UseNonce(signer, data)
    PROVE  /\ nonces' \in [Users -> Nat]
           /\ accepted' \in [Users -> Seq(TypedData)]
           /\ AcceptedInOrder'
<1> DEFINE s == accepted[signer]
<1>1. signer \in Users /\ data \in TypedData
  BY SignedByUser
<1>2. /\ s \in Seq(TypedData) /\ Len(s) \in Nat
      /\ Append(s, data) \in Seq(TypedData)
      /\ Len(Append(s, data)) = Len(s) + 1
      /\ Append(s, data)[Len(s) + 1] = data
      /\ \A i \in 1 .. Len(s) : Append(s, data)[i] = s[i]
  BY <1>1 DEF SignedInv, SignedTypeOK
<1>3. /\ nonces' = [nonces EXCEPT ![signer] = nonces[signer] + 1]
      /\ accepted' = [accepted EXCEPT ![signer] = Append(s, data)]
  BY DEF UseNonce
<1>4. nonces' \in [Users -> Nat] /\ accepted' \in [Users -> Seq(TypedData)]
  BY <1>1, <1>2, <1>3 DEF SignedInv, SignedTypeOK
<1>5. /\ nonces'[signer] = nonces[signer] + 1 /\ accepted'[signer] = Append(s, data)
      /\ \A u \in Users : u # signer => nonces'[u] = nonces[u] /\ accepted'[u] = accepted[u]
  BY <1>1, <1>3 DEF SignedInv, SignedTypeOK
<1>6. /\ Len(s) = nonces[signer]
      /\ \A i \in 1 .. Len(s) : Recovers(s[i], signer) /\ s[i].nonce = i - 1
  BY <1>1 DEF SignedInv, AcceptedInOrder
<1> HIDE DEF s
<1>7. /\ Len(accepted'[signer]) = nonces'[signer]
      /\ \A i \in 1 .. Len(accepted'[signer]) :
            Recovers(accepted'[signer][i], signer) /\ accepted'[signer][i].nonce = i - 1
  <2>1. Len(accepted'[signer]) = Len(s) + 1
    BY <1>2, <1>5
  <2>2. ASSUME NEW i \in 1 .. Len(s) + 1
        PROVE  Recovers(accepted'[signer][i], signer) /\ accepted'[signer][i].nonce = i - 1
    <3>1. CASE i = Len(s) + 1
      BY <1>2, <1>5, <1>6, <3>1
    <3>2. CASE i # Len(s) + 1
      <4>1. i \in 1 .. Len(s)
        BY <1>2, <3>2
      <4> QED BY <1>2, <1>5, <1>6, <4>1
    <3> QED BY <3>1, <3>2
  <2> QED BY <1>5, <1>6, <2>1, <2>2
<1>8. ASSUME NEW u \in Users
      PROVE  /\ Len(accepted'[u]) = nonces'[u]
             /\ \A i \in 1 .. Len(accepted'[u]) :
                   Recovers(accepted'[u][i], u) /\ accepted'[u][i].nonce = i - 1
  BY <1>5, <1>7, <1>8 DEF SignedInv, AcceptedInOrder
<1>9. AcceptedInOrder'
  BY <1>8 DEF AcceptedInOrder, Recovers
<1> QED BY <1>4, <1>9

LEMMA SubmitKeeps ==
    ASSUME SignedInv, NEW signature \in Signatures, Submit(signature)
    PROVE  SignedInv'
<1> DEFINE signer == signature.signer
           data == signature.data
<1>1. signer \in Users /\ data \in TypedData
  BY SignaturesAssumption
<1>2. data.primaryType \in {"Permit", "DelegateByType", "Delegate"}
  BY <1>1 DEF TypedData
<1>3. CASE data.primaryType = "Permit"
  <2> DEFINE signed == BuildPermitParams(data.owner, data.spender, nonces[data.owner],
                                         data.deadline, data.value)
  <2>1. Permit(data.owner, data.spender, data.value, data.deadline)
    BY <1>3 DEF Submit
  <2>2. /\ Recovers(signed, data.owner) /\ UseNonce(data.owner, signed)
        /\ ApproveTo(data.owner, data.spender, data.value)
    BY <2>1 DEF Permit
  <2>3. signed.nonce = nonces[data.owner]
    BY DEF BuildPermitParams
  <2> HIDE DEF signed
  <2>4. allowance' \in [Users -> [Users -> Nat]]
    BY <1>1, <1>3, <2>2, PermitFields, ApprovalTyped DEF SignedInv
  <2> QED BY <2>2, <2>3, <2>4, UseKeepsOrder DEF SignedInv, SignedTypeOK
<1>4. CASE data.primaryType = "DelegateByType"
  <2> DEFINE signed == BuildDelegateByTypeParams(data.delegatee, data.type, data.nonce,
                                                 data.expiry)
  <2>1. DelegateByTypeBySig(signer, data.delegatee, data.type, data.nonce, data.expiry)
    BY <1>4 DEF Submit
  <2>2. /\ Recovers(signed, signer) /\ UseNonce(signer, signed)
        /\ data.nonce = nonces[signer] /\ allowance' = allowance
    BY <2>1 DEF DelegateByTypeBySig
  <2>3. signed.nonce = nonces[signer]
    BY <2>2 DEF BuildDelegateByTypeParams
  <2> HIDE DEF signed, signer
  <2> QED BY <2>2, <2>3, UseKeepsOrder DEF SignedInv, SignedTypeOK
<1>5. CASE data.primaryType = "Delegate"
  <2> DEFINE signed == BuildDelegateParams(data.delegatee, data.nonce, data.expiry)
  <2>1. DelegateBySig(signer, data.delegatee, data.nonce, data.expiry)
    BY <1>5 DEF Submit
  <2>2. /\ Recovers(signed, signer) /\ UseNonce(signer, signed)
        /\ data.nonce = nonces[signer] /\ allowance' = allowance
    BY <2>1 DEF DelegateBySig
  <2>3. signed.nonce = nonces[signer]
    BY <2>2 DEF BuildDelegateParams
  <2> HIDE DEF signed, signer
  <2> QED BY <2>2, <2>3, UseKeepsOrder DEF SignedInv, SignedTypeOK
<1> QED BY <1>2, <1>3, <1>4, <1>5

LEMMA SignedInvInit == SignedInit => SignedInv
<1> SUFFICES ASSUME SignedInit PROVE SignedInv
  OBVIOUS
<1>1. \A u \in Users : accepted[u] = <<>> /\ nonces[u] = 0
  BY DEF SignedInit
<1>2. SignedTypeOK
  BY DEF SignedInit, SignedTypeOK
<1>3. AcceptedInOrder
  BY <1>1 DEF AcceptedInOrder
<1> QED BY <1>2, <1>3 DEF SignedInv

(* Steps that touch neither nonces nor what was accepted.                    *)
LEMMA OrderFromUnchanged ==
    ASSUME SignedInv, UNCHANGED <<nonces, accepted>>,
           allowance' \in [Users -> [Users -> Nat]]
    PROVE  SignedInv'
<1>1. nonces' = nonces /\ accepted' = accepted
  OBVIOUS
<1>2. AcceptedInOrder'
  BY <1>1 DEF SignedInv, AcceptedInOrder, Recovers
<1> QED BY <1>1, <1>2 DEF SignedInv, SignedTypeOK

LEMMA SignedInvStep == SignedInv /\ [SignedNext]_signedVars => SignedInv'
<1> SUFFICES ASSUME SignedInv, [SignedNext]_signedVars PROVE SignedInv'
  OBVIOUS
<1> USE SignaturesAssumption, GovernanceAssumption
<1>1. allowance \in [Users -> [Users -> Nat]]
  BY DEF SignedInv, SignedTypeOK
<1>2. CASE UNCHANGED approvalVars
  BY <1>1, <1>2, OrderFromUnchanged DEF approvalVars
<1>3. ASSUME NEW u \in Users, NEW s \in Spenders, NEW n \in Amounts,
             \/ Approve(u, s, n) \/ IncreaseAllowance(u, s, n) \/ DecreaseAllowance(u, s, n)
      PROVE  SignedInv'
  <2>1. u \in Users /\ s \in Users /\ n \in Nat /\ allowance[u][s] \in Nat
    BY <1>1
  <2>2. PICK amount \in Nat : ApproveTo(u, s, amount) /\ UNCHANGED <<nonces, accepted>>
    <3>1. CASE Approve(u, s, n)
      BY <2>1, <3>1 DEF Approve
    <3>2. CASE IncreaseAllowance(u, s, n)
      <4>1. allowance[u][s] + n \in Nat
        BY <2>1
      <4> QED BY <3>2, <4>1 DEF IncreaseAllowance
    <3>3. CASE DecreaseAllowance(u, s, n)
      <4>1. allowance[u][s] - n \in Nat
        BY <2>1, <3>3 DEF DecreaseAllowance
      <4> QED BY <3>3, <4>1 DEF DecreaseAllowance
    <3> QED BY <1>3, <3>1, <3>2, <3>3
  <2> QED BY <2>1, <2>2, ApprovalTyped, OrderFromUnchanged DEF SignedInv
<1>4. ASSUME NEW s \in Spenders, NEW u \in Users, NEW v \in Users, NEW n \in Amounts,
             TransferFrom(s, u, v, n)
      PROVE  SignedInv'
  <2>1. s \in Users /\ n \in Nat /\ allowance[u][s] \in Nat
    BY <1>1
  <2>2. n <= allowance[u][s] /\ ApproveTo(u, s, allowance[u][s] - n)
        /\ UNCHANGED <<nonces, accepted>>
    BY <1>4 DEF TransferFrom
  <2>3. allowance[u][s] - n \in Nat
    BY <2>1, <2>2
  <2> QED BY <2>1, <2>2, <2>3, ApprovalTyped, OrderFromUnchanged DEF SignedInv
<1>5. CASE \E signature \in Signatures : Submit(signature)
  BY <1>5, SubmitKeeps
<1> QED BY <1>2, <1>3, <1>4, <1>5 DEF SignedNext, signedVars

(* The books of approvals keep their types: no allowance goes below zero     *)
(* (decreaseAllowance, transferFrom).                                        *)
THEOREM SignedTypeCorrect == SignedSpec => []SignedTypeOK
<1>1. SignedInv => SignedTypeOK
  BY DEF SignedInv
<1> QED BY <1>1, SignedInvInit, SignedInvStep, PTL DEF SignedSpec

(* No signature acts twice, out of order, or for another than its signer:    *)
(* permit, delegateByTypeBySig and delegateBySig use up one nonce per owner. *)
THEOREM SignedOnce == SignedSpec => []SignaturesActOnce
<1>1. SignedInv => SignaturesActOnce
  BY DEF SignedInv, AcceptedInOrder, SignaturesActOnce
<1> QED BY <1>1, SignedInvInit, SignedInvStep, PTL DEF SignedSpec

-----------------------------------------------------------------------------
LEMMA SignedStepIsPowerStep == [SignedNext]_signedVars => [Next]_vars
<1> SUFFICES ASSUME [SignedNext]_signedVars PROVE [Next]_vars
  OBVIOUS
<1>1. CASE Next \/ UNCHANGED signedVars
  BY <1>1 DEF signedVars
<1>2. ASSUME NEW u \in Users, NEW s \in Spenders, NEW n \in Amounts,
             \/ Approve(u, s, n) \/ IncreaseAllowance(u, s, n) \/ DecreaseAllowance(u, s, n)
      PROVE  UNCHANGED vars
  BY <1>2 DEF Approve, IncreaseAllowance, DecreaseAllowance
<1>3. ASSUME NEW s \in Spenders, NEW u \in Users, NEW v \in Users, NEW n \in Amounts,
             TransferFrom(s, u, v, n)
      PROVE  Next
  BY <1>3 DEF TransferFrom, Next
<1>4. ASSUME NEW signature \in Signatures, Submit(signature)
      PROVE  [Next]_vars
  <2> DEFINE signer == signature.signer
             data == signature.data
  <2>1. signer \in Users /\ data \in TypedData
    BY SignaturesAssumption
  <2>2. data.primaryType \in {"Permit", "DelegateByType", "Delegate"}
    BY <2>1 DEF TypedData
  <2>3. CASE data.primaryType = "Permit"
    <3>1. Permit(data.owner, data.spender, data.value, data.deadline)
      BY <1>4, <2>3 DEF Submit
    <3> QED BY <3>1 DEF Permit
  <2>4. CASE data.primaryType = "DelegateByType"
    <3>1. DelegateByTypeBySig(signer, data.delegatee, data.type, data.nonce, data.expiry)
      BY <1>4, <2>4 DEF Submit
    <3>2. Delegate(signer, data.delegatee, {data.type})
      BY <3>1 DEF DelegateByTypeBySig
    <3>3. data.delegatee \in Users /\ data.type \in Types
      BY <2>1, <2>4, DelegationFields
    <3> QED BY <2>1, <3>2, <3>3 DEF Next
  <2>5. CASE data.primaryType = "Delegate"
    <3>1. DelegateBySig(signer, data.delegatee, data.nonce, data.expiry)
      BY <1>4, <2>5 DEF Submit
    <3>2. Delegate(signer, data.delegatee, Types)
      BY <3>1 DEF DelegateBySig
    <3>3. data.delegatee \in Users
      BY <2>1, <2>5, DelegationFields
    <3> QED BY <2>1, <3>2, <3>3 DEF Next
  <2> QED BY <2>2, <2>3, <2>4, <2>5
<1> QED BY <1>1, <1>2, <1>3, <1>4 DEF SignedNext

(* SignedApprovals implements GovernancePower: by signature, or by an        *)
(* allowance, nothing happens to power and balances that a holder's own call *)
(* could not have done.                                                      *)
THEOREM SignedImplementsPower == SignedSpec => Spec
<1>1. SignedInit => Init
  BY DEF SignedInit
<1> QED BY <1>1, SignedStepIsPowerStep, PTL DEF SignedSpec, Spec

(* getPowerAtBlock of a block that is over stays what it is also with        *)
(* signatures and allowances, for a token installed before anybody staked.   *)
THEOREM SignedPastPowerFixed == InitialStake = 0 => (SignedSpec => PastPowerIsFixed)
  BY SignedImplementsPower, PastPowerFixed

(* RecordedPastIsFixed also with signatures and allowances, for every        *)
(* initial stake: a signature kept back and submitted late rewrites nothing  *)
(* of a block that is over, neither for its signer nor for the delegatee.    *)
THEOREM SignedRecordedPastFixed == SignedSpec => RecordedPastIsFixed
  BY SignedImplementsPower, RecordedPastFixed

(* PowerIsDelegated also with signatures and allowances: a delegation by     *)
(* signature moves the power of its signer, and of the types it names, as    *)
(* his own call would.                                                       *)
THEOREM SignedPowerDelegated == SignedSpec => []PowerIsDelegated
  BY SignedImplementsPower, PowerStaysDelegated

(* No signature is held up by the books of power: what delegateBySig and     *)
(* delegateByTypeBySig move is always there, whatever the signer delegated,  *)
(* received, spent or approved between signing and submission.               *)
THEOREM SignedLocksNobody == SignedSpec => []PowerNeverLocks
  BY SignedImplementsPower, PowerLocksNobody

(* What the function a signature was made for requires of it.                *)
Accepts(signature) ==
    LET data == signature.data
    IN  CASE data.primaryType = "Permit" ->
               /\ height <= data.deadline
               /\ Recovers(BuildPermitParams(data.owner, data.spender, nonces[data.owner],
                                             data.deadline, data.value), data.owner)
          [] data.primaryType = "DelegateByType" ->
               /\ Recovers(BuildDelegateByTypeParams(data.delegatee, data.type, data.nonce,
                                                     data.expiry), signature.signer)
               /\ data.nonce = nonces[signature.signer] /\ height <= data.expiry
               /\ CanMovePower(data.type, GetDelegatee(data.type, signature.signer),
                               data.delegatee, balance[signature.signer])
          [] data.primaryType = "Delegate" ->
               /\ Recovers(BuildDelegateParams(data.delegatee, data.nonce, data.expiry),
                           signature.signer)
               /\ data.nonce = nonces[signature.signer] /\ height <= data.expiry
               /\ \A t \in Types : CanMovePower(t, GetDelegatee(t, signature.signer),
                                                data.delegatee, balance[signature.signer])

FreshSignatureAccepted ==
    \A signature \in Signatures :
        (/\ signature.data.nonce = nonces[signature.signer]
         /\ height <= Deadline(signature.data)
         /\ signature.data.primaryType = "Permit" => signature.data.owner = signature.signer)
          => Accepts(signature)

(* FreshSignatureActs without ENABLED, for any set of signatures: one with   *)
(* its signer's current nonce passes every check until its deadline.         *)
THEOREM SignedFreshAccepted == SignedSpec => []FreshSignatureAccepted
<1>1. PowerNeverLocks => FreshSignatureAccepted
  <2> SUFFICES ASSUME PowerNeverLocks, NEW signature \in Signatures,
                      signature.data.nonce = nonces[signature.signer],
                      height <= Deadline(signature.data),
                      signature.data.primaryType = "Permit" =>
                         signature.data.owner = signature.signer
               PROVE  Accepts(signature)
    BY DEF FreshSignatureAccepted
  <2> DEFINE data == signature.data
             signer == signature.signer
  <2>1. signer \in Users /\ data \in TypedData /\ signature = [signer |-> signer, data |-> data]
    BY SignaturesAssumption
  <2>2. CASE data.primaryType = "Permit"
    <3>1. data = BuildPermitParams(data.owner, data.spender, data.nonce, data.deadline, data.value)
      BY <2>1, <2>2 DEF TypedData, BuildPermitParams
    <3>2. Recovers(data, data.owner) /\ data.nonce = nonces[data.owner]
      BY <2>1, <2>2 DEF Recovers, GetSignatureFromTypedData
    <3> QED BY <2>2, <3>1, <3>2 DEF Accepts, Deadline
  <2>3. CASE data.primaryType = "DelegateByType"
    <3>1. /\ data = BuildDelegateByTypeParams(data.delegatee, data.type, data.nonce, data.expiry)
          /\ data.delegatee \in Users /\ data.type \in Types
      BY <2>1, <2>3 DEF TypedData, BuildDelegateByTypeParams
    <3>2. Recovers(data, signer)
      BY <2>1 DEF Recovers, GetSignatureFromTypedData
    <3>3. CanMovePower(data.type, GetDelegatee(data.type, signer), data.delegatee, balance[signer])
      BY <2>1, <3>1 DEF PowerNeverLocks
    <3> QED BY <2>3, <3>1, <3>2, <3>3 DEF Accepts, Deadline
  <2>4. CASE data.primaryType = "Delegate"
    <3>1. /\ data = BuildDelegateParams(data.delegatee, data.nonce, data.expiry)
          /\ data.delegatee \in Users
      BY <2>1, <2>4 DEF TypedData, BuildDelegateParams
    <3>2. Recovers(data, signer)
      BY <2>1 DEF Recovers, GetSignatureFromTypedData
    <3>3. ASSUME NEW t \in Types
          PROVE  CanMovePower(t, GetDelegatee(t, signer), data.delegatee, balance[signer])
      BY <2>1, <3>1 DEF PowerNeverLocks
    <3> QED BY <2>4, <3>1, <3>2, <3>3 DEF Accepts, Deadline
  <2> QED BY <2>1, <2>2, <2>3, <2>4 DEF TypedData
<1> QED BY <1>1, SignedLocksNobody, PTL

=============================================================================
