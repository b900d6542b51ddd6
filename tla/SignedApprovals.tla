--------------------------- MODULE SignedApprovals ---------------------------
(***************************************************************************)
(* Approvals and delegations in V2, V3, Rev3 and Rev4, by the owner's own  *)
(* call or by anybody who submits what the owner signed: permit,           *)
(* delegateByTypeBySig and delegateBySig, which share a nonce per owner,   *)
(* over the token and the power of GovernancePower.                        *)
(*                                                                         *)
(* What is signed is the typed data of contracts-helpers.ts.  Whoever has  *)
(* a signature may submit it whenever he likes and as often as he likes.   *)
(* ecrecover names the signer of exactly the data the contract rebuilds    *)
(* from its arguments; from other data, or with the domain of another      *)
(* chain or contract, it names an address that holds and signed nothing,   *)
(* and no user notices.  A block takes one unit of time.                   *)
(***************************************************************************)
EXTENDS GovernancePower

CONSTANTS Signatures,   \* all that the users ever sign
          Spenders,     \* the users approved by a call
          MaxAllowance  \* type(uint256).max

VARIABLES nonces,     \* _nonces
          allowance,  \* _allowances
          accepted    \* history: the signatures that acted, by signer

approvalVars == <<nonces, allowance, accepted>>
signedVars == <<vars, approvalVars>>

-----------------------------------------------------------------------------
(* The typed data *)

BuildPermitParams(owner, spender, nonce, deadline, value) ==
    [primaryType |-> "Permit", owner |-> owner, spender |-> spender,
     value |-> value, nonce |-> nonce, deadline |-> deadline]

BuildDelegateByTypeParams(delegatee, type, nonce, expiry) ==
    [primaryType |-> "DelegateByType", delegatee |-> delegatee, type |-> type,
     nonce |-> nonce, expiry |-> expiry]

BuildDelegateParams(delegatee, nonce, expiry) ==
    [primaryType |-> "Delegate", delegatee |-> delegatee, nonce |-> nonce,
     expiry |-> expiry]

TypedData ==
    [primaryType : {"Permit"}, owner : Users, spender : Users, value : Nat,
     nonce : Nat, deadline : Nat]
    \cup [primaryType : {"DelegateByType"}, delegatee : Users, type : Types,
          nonce : Nat, expiry : Nat]
    \cup [primaryType : {"Delegate"}, delegatee : Users, nonce : Nat, expiry : Nat]

GetSignatureFromTypedData(signer, data) == [signer |-> signer, data |-> data]

\* ecrecover(digest of the data, signature) = signer
Recovers(data, signer) == GetSignatureFromTypedData(signer, data) \in Signatures

ASSUME SignaturesAssumption ==
    /\ Spenders \subseteq Users
    /\ MaxAllowance \in Nat
    /\ Signatures \subseteq [signer : Users, data : TypedData]

SignedInit ==
    /\ Init
    /\ nonces = [u \in Users |-> 0]
    /\ allowance = [u \in Users |-> [v \in Users |-> 0]]
    /\ accepted = [u \in Users |-> <<>>]

-----------------------------------------------------------------------------
(* Approvals *)

ApproveTo(owner, spender, amount) ==
    allowance' = [allowance EXCEPT ![owner] = [@ EXCEPT ![spender] = amount]]

Approve(owner, spender, amount) ==
    /\ ApproveTo(owner, spender, amount)
    /\ UNCHANGED <<vars, nonces, accepted>>

IncreaseAllowance(owner, spender, addedValue) ==
    /\ allowance[owner][spender] + addedValue <= MaxAllowance
    /\ ApproveTo(owner, spender, allowance[owner][spender] + addedValue)
    /\ UNCHANGED <<vars, nonces, accepted>>

\* Faulty: no check for underflow.
DecreaseAllowanceUnchecked(owner, spender, subtractedValue) ==
    /\ ApproveTo(owner, spender, allowance[owner][spender] - subtractedValue)
    /\ UNCHANGED <<vars, nonces, accepted>>

DecreaseAllowance(owner, spender, subtractedValue) ==
    /\ subtractedValue <= allowance[owner][spender]
    /\ ApproveTo(owner, spender, allowance[owner][spender] - subtractedValue)
    /\ UNCHANGED <<vars, nonces, accepted>>

TransferFrom(spender, sender, recipient, amount) ==
    /\ Transfer(sender, recipient, amount)
    /\ amount <= allowance[sender][spender]
    /\ ApproveTo(sender, spender, allowance[sender][spender] - amount)
    /\ UNCHANGED <<nonces, accepted>>

-----------------------------------------------------------------------------
(* Signatures *)

\* The nonce is used up, and history is written.
UseNonce(signer, data) ==
    /\ nonces' = [nonces EXCEPT ![signer] = @ + 1]
    /\ accepted' = [accepted EXCEPT ![signer] = Append(@, data)]

Permit(owner, spender, value, deadline) ==
    LET data == BuildPermitParams(owner, spender, nonces[owner], deadline, value)
    IN  /\ height <= deadline
        /\ Recovers(data, owner)
        /\ UseNonce(owner, data)
        /\ ApproveTo(owner, spender, value)
        /\ UNCHANGED vars

DelegateByTypeBySig(signatory, delegatee, type, nonce, expiry) ==
    LET data == BuildDelegateByTypeParams(delegatee, type, nonce, expiry)
    IN  /\ Recovers(data, signatory)
        /\ nonce = nonces[signatory]
        /\ height <= expiry
        /\ UseNonce(signatory, data)
        /\ Delegate(signatory, delegatee, {type})
        /\ UNCHANGED allowance

\* Faulty: the nonce is compared, but not used up.
DelegateBySigAgain(signatory, delegatee, nonce, expiry) ==
    LET data == BuildDelegateParams(delegatee, nonce, expiry)
    IN  /\ Recovers(data, signatory)
        /\ nonce = nonces[signatory]
        /\ height <= expiry
        /\ accepted' = [accepted EXCEPT ![signatory] = Append(@, data)]
        /\ Len(accepted[signatory]) < 2    \* keeps the faulty history finite
        /\ Delegate(signatory, delegatee, Types)
        /\ UNCHANGED <<nonces, allowance>>

\* Faulty: it expires a block early.
DelegateBySigEarly(signatory, delegatee, nonce, expiry) ==
    LET data == BuildDelegateParams(delegatee, nonce, expiry)
    IN  /\ Recovers(data, signatory)
        /\ nonce = nonces[signatory]
        /\ height < expiry
        /\ UseNonce(signatory, data)
        /\ Delegate(signatory, delegatee, Types)
        /\ UNCHANGED allowance

DelegateBySig(signatory, delegatee, nonce, expiry) ==
    LET data == BuildDelegateParams(delegatee, nonce, expiry)
    IN  /\ Recovers(data, signatory)
        /\ nonce = nonces[signatory]
        /\ height <= expiry
        /\ UseNonce(signatory, data)
        /\ Delegate(signatory, delegatee, Types)
        /\ UNCHANGED allowance

\* Anybody submits the signature, with the arguments it was made for.
Submit(signature) ==
    LET data == signature.data
    IN  CASE data.primaryType = "Permit" ->
               Permit(data.owner, data.spender, data.value, data.deadline)
          [] data.primaryType = "DelegateByType" ->
               DelegateByTypeBySig(signature.signer, data.delegatee, data.type,
                                   data.nonce, data.expiry)
          [] data.primaryType = "Delegate" ->
               DelegateBySig(signature.signer, data.delegatee, data.nonce, data.expiry)

SignedNext ==
    \/ Next /\ UNCHANGED approvalVars
    \/ \E u \in Users, s \in Spenders, n \in Amounts :
          \/ Approve(u, s, n)
          \/ IncreaseAllowance(u, s, n)
          \/ DecreaseAllowance(u, s, n)
    \/ \E s \in Spenders, u, v \in Users, n \in Amounts : TransferFrom(s, u, v, n)
    \/ \E signature \in Signatures : Submit(signature)

SignedSpec == SignedInit /\ [][SignedNext]_signedVars

-----------------------------------------------------------------------------
(***************************************************************************)
(* The types of the books of approvals.                                    *)
(***************************************************************************)
SignedTypeOK ==
    /\ nonces \in [Users -> Nat]
    /\ allowance \in [Users -> [Users -> Nat]]
    /\ accepted \in [Users -> Seq(TypedData)]

(***************************************************************************)
(* A signature acts for the one who signed it, at most once and in the     *)
(* order of the nonces, whichever of the three functions the others were   *)
(* submitted to (permit, delegateByTypeBySig, delegateBySig).              *)
(***************************************************************************)
SignaturesActOnce ==
    \A u \in Users : \A i \in 1 .. Len(accepted[u]) :
        /\ Recovers(accepted[u][i], u)
        /\ accepted[u][i].nonce = i - 1

Deadline(data) == IF data.primaryType = "Permit" THEN data.deadline ELSE data.expiry

(***************************************************************************)
(* Up to and including its deadline a signature with the owner's current   *)
(* nonce is accepted, whatever he delegated, received or spent meanwhile.  *)
(***************************************************************************)
FreshSignatureActs ==
    \A signature \in Signatures :
        LET data == signature.data
        IN  (/\ data.nonce = nonces[signature.signer]
             /\ height <= Deadline(data)
             /\ data.primaryType = "Permit" => data.owner = signature.signer)
              => ENABLED Submit(signature)

=============================================================================
