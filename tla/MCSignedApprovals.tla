-------------------------- MODULE MCSignedApprovals --------------------------
(***************************************************************************)
(* A small instance of SignedApprovals: the same holder signs a permit and *)
(* two delegations for one nonce and another delegation for the next, and  *)
(* the second holder signs a permit in the name of the first.              *)
(***************************************************************************)
EXTENDS SignedApprovals, TLC

CONSTANTS u1, u2, VOTING_POWER, PROPOSITION_POWER

MCSignatures ==
    {GetSignatureFromTypedData(u1, BuildPermitParams(u1, u2, 0, 1, 1)),
     GetSignatureFromTypedData(u1, BuildDelegateByTypeParams(u2, VOTING_POWER, 0, 2)),
     GetSignatureFromTypedData(u1, BuildDelegateParams(u2, 0, 1)),
     GetSignatureFromTypedData(u1, BuildDelegateByTypeParams(u1, PROPOSITION_POWER, 1, 2)),
     GetSignatureFromTypedData(u2, BuildPermitParams(u1, u2, 0, 2, 1))}

=============================================================================
