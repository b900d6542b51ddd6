--------------------------- MODULE GovernancePower ---------------------------
(***************************************************************************)
(* Voting and proposition power of StakedTokenV2 and V3 (and Rev3/Rev4):   *)
(* GovernancePowerDelegationERC20.sol and the hook _beforeTokenTransfer,   *)
(* which moves power between delegatees before balances change.  Mint and  *)
(* Burn are what stake and redeem do to the receipts; how much a user may  *)
(* stake or redeem, and when, is StakedToken's.                            *)
(*                                                                         *)
(* A value fits its uint128, as any supply of the token does.  The search  *)
(* is ValueAt, which SnapshotSearch shows the code's loop to compute.      *)
(***************************************************************************)
EXTENDS Snapshots, FiniteSets, Functions

CONSTANTS Users, NoOne,   \* NoOne is address(0)
          Types,          \* VOTING_POWER and PROPOSITION_POWER
          Amounts,        \* amounts a caller may pass
          InitialStake,   \* what each user holds when this code is installed
          Snapshotted,    \* the types whose snapshots the code before it kept
          StartBlock, MaxBlock, MaxSupply  \* bounds

ASSUME GovernanceAssumption ==
    /\ NoOne \notin Users
    /\ IsFiniteSet(Users)
    /\ Amounts \subseteq Nat
    /\ InitialStake \in Nat
    /\ Snapshotted \subseteq Types
    /\ StartBlock \in Nat \ {0}
    /\ MaxBlock \in Nat
    /\ MaxSupply \in Nat

VARIABLES height,      \* block.number
          balance,
          totalSupply,
          delegates,   \* the chosen delegatee, NoOne if never chosen
          snapshots    \* the power of a delegatee, by block

vars == <<height, balance, totalSupply, delegates, snapshots>>

TypeOK ==
    /\ height \in Nat
    /\ balance \in [Users -> Nat]
    /\ totalSupply \in Nat
    /\ delegates \in [Types -> [Users -> Users \cup {NoOne}]]
    /\ snapshots \in [Types -> [Users -> Seq(Snapshot)]]

\* A V1 holder brings his balance; V1 kept balance snapshots, which V2 takes
\* for the voting power, and none for the proposition power.
Init ==
    /\ height = StartBlock
    /\ balance = [u \in Users |-> InitialStake]
    /\ totalSupply = InitialStake * Cardinality(Users)
    /\ delegates = [t \in Types |-> [u \in Users |-> NoOne]]
    /\ snapshots = [t \in Types |-> [u \in Users |->
                      IF t \in Snapshotted /\ InitialStake # 0
                        THEN <<[blockNumber |-> 1, value |-> InitialStake]>>
                        ELSE <<>>]]

-----------------------------------------------------------------------------
(* Helpers *)

\* _getDelegatee: a user who never delegated is his own delegatee.  For
\* address(0), on one side of a mint or a burn, the hook finds address(0).
GetDelegatee(t, u) ==
    IF u = NoOne \/ delegates[t][u] = NoOne THEN u ELSE delegates[t][u]

\* The latest snapshot, or the balance of a user who has none.
CurrentPower(t, u) ==
    IF snapshots[t][u] = <<>> THEN balance[u] ELSE Latest(snapshots[t][u]).value

\* _moveDelegatesByType: nothing to do between a delegatee and himself.
MovedPower(t, from, to, amount) ==
    IF from = to
      THEN snapshots[t]
      ELSE [u \in Users |->
              CASE u = from ->
                     WriteSnapshot(snapshots[t][u], height, CurrentPower(t, u) - amount)
                [] u = to ->
                     WriteSnapshot(snapshots[t][u], height, CurrentPower(t, u) + amount)
                [] OTHER -> snapshots[t][u]]

\* previous.sub(amount) does not underflow.
CanMovePower(t, from, to, amount) ==
    from # NoOne /\ from # to => amount <= CurrentPower(t, from)

\* Faulty: the recipient himself, not his delegatee, gets the power.
BeforeTokenTransferToHolder(from, to, amount) ==
    /\ \A t \in Types : CanMovePower(t, GetDelegatee(t, from), to, amount)
    /\ snapshots' = [t \in Types |-> MovedPower(t, GetDelegatee(t, from), to, amount)]

\* _beforeTokenTransfer: each type of power moves between its own delegatees.
BeforeTokenTransfer(from, to, amount) ==
    /\ \A t \in Types :
         CanMovePower(t, GetDelegatee(t, from), GetDelegatee(t, to), amount)
    /\ snapshots' =
         [t \in Types |-> MovedPower(t, GetDelegatee(t, from), GetDelegatee(t, to), amount)]

-----------------------------------------------------------------------------
(* Transactions *)

Mint(to, amount) ==
    /\ amount # 0
    /\ totalSupply + amount <= MaxSupply
    /\ BeforeTokenTransfer(NoOne, to, amount)
    /\ totalSupply' = totalSupply + amount
    /\ balance' = [balance EXCEPT ![to] = @ + amount]
    /\ UNCHANGED <<height, delegates>>

Burn(from, amount) ==
    /\ amount # 0
    /\ amount <= balance[from] /\ amount <= totalSupply
    /\ BeforeTokenTransfer(from, NoOne, amount)
    /\ totalSupply' = totalSupply - amount
    /\ balance' = [balance EXCEPT ![from] = @ - amount]
    /\ UNCHANGED <<height, delegates>>

\* Faulty: nothing keeps a sender from moving more than he has.
TransferUnchecked(from, to, amount) ==
    /\ BeforeTokenTransfer(from, to, amount)
    /\ balance' = [[balance EXCEPT ![from] = @ - amount] EXCEPT ![to] = @ + amount]
    /\ UNCHANGED <<height, totalSupply, delegates>>

Transfer(from, to, amount) ==
    /\ amount <= balance[from]
    /\ BeforeTokenTransfer(from, to, amount)
    /\ balance' = [[balance EXCEPT ![from] = @ - amount] EXCEPT ![to] = @ + amount]
    /\ UNCHANGED <<height, totalSupply, delegates>>

\* Faulty: the power is taken from the delegator, not from his delegatee.
DelegateFromSelf(u, to, types) ==
    /\ \A t \in types : CanMovePower(t, u, to, balance[u])
    /\ delegates' = [t \in Types |-> IF t \in types
                                       THEN [delegates[t] EXCEPT ![u] = to]
                                       ELSE delegates[t]]
    /\ snapshots' = [t \in Types |-> IF t \in types
                                       THEN MovedPower(t, u, to, balance[u])
                                       ELSE snapshots[t]]
    /\ UNCHANGED <<height, balance, totalSupply>>

\* Faulty: the delegatee of every type changes, the power of one moves.
DelegateEveryType(u, to, types) ==
    /\ \A t \in types : CanMovePower(t, GetDelegatee(t, u), to, balance[u])
    /\ delegates' = [t \in Types |-> [delegates[t] EXCEPT ![u] = to]]
    /\ snapshots' = [t \in Types |-> IF t \in types
                                       THEN MovedPower(t, GetDelegatee(t, u), to, balance[u])
                                       ELSE snapshots[t]]
    /\ UNCHANGED <<height, balance, totalSupply>>

\* delegateByType for one type, delegate for both: the whole balance of the
\* delegator moves.
Delegate(u, to, types) ==
    /\ \A t \in types : CanMovePower(t, GetDelegatee(t, u), to, balance[u])
    /\ delegates' = [t \in Types |-> IF t \in types
                                       THEN [delegates[t] EXCEPT ![u] = to]
                                       ELSE delegates[t]]
    /\ snapshots' = [t \in Types |-> IF t \in types
                                       THEN MovedPower(t, GetDelegatee(t, u), to, balance[u])
                                       ELSE snapshots[t]]
    /\ UNCHANGED <<height, balance, totalSupply>>

NextBlock ==
    /\ height < MaxBlock
    /\ height' = height + 1
    /\ UNCHANGED <<balance, totalSupply, delegates, snapshots>>

Next ==
    \/ \E u \in Users, n \in Amounts : Mint(u, n)
    \/ \E u \in Users, n \in Amounts : Burn(u, n)
    \/ \E u, v \in Users, n \in Amounts : Transfer(u, v, n)
    \/ \E u, v \in Users, t \in Types : Delegate(u, v, {t})
    \/ \E u, v \in Users : Delegate(u, v, Types)
    \/ NextBlock

Spec == Init /\ [][Next]_vars

-----------------------------------------------------------------------------
(* The views, and what they should say *)

GetPowerAtBlock(t, u, block) ==
    IF snapshots[t][u] = <<>> THEN balance[u] ELSE ValueAt(snapshots[t][u], block)

\* It ignores the block it is asked for.
TotalSupplyAt(block) == totalSupply

(***************************************************************************)
(* The search relies on snapshots in order of their blocks, none later     *)
(* than the current one and one a block at most, however many transactions *)
(* of a block write to a user's history.                                   *)
(***************************************************************************)
HistoriesOrdered ==
    \A t \in Types, u \in Users :
        LET s == snapshots[t][u]
        IN  Increasing(s) /\ (s # <<>> => Latest(s).blockNumber <= height)

(***************************************************************************)
(* Of each type a user's current power is the sum of the balances of those *)
(* who chose him for that type, or nobody and are him: what moves the one  *)
(* type never touches the other (for a token installed before any stake).  *)
(***************************************************************************)
PowerIsDelegated ==
    \A t \in Types, u \in Users :
        CurrentPower(t, u) =
            SumFunctionOnSet(balance, {v \in Users : GetDelegatee(t, v) = u})

(***************************************************************************)
(* Power never stands in the way of a holder: no underflow in the books of *)
(* a delegatee (or in his own) reverts a transfer or a redemption of what  *)
(* he has, or a new delegation, whoever delegated to whom before.          *)
(***************************************************************************)
PowerNeverLocks ==
    \A u \in Users, v \in Users \cup {NoOne}, t \in Types :
        /\ CanMovePower(t, GetDelegatee(t, u), GetDelegatee(t, v), balance[u])
        /\ CanMovePower(t, GetDelegatee(t, u), v, balance[u])

(***************************************************************************)
(* getPowerAtBlock: the power of a user at a block that is over (since     *)
(* this code was installed) is settled; later transfers and delegations do *)
(* not rewrite it.                                                         *)
(***************************************************************************)
PastPowerIsFixed ==
    [][\A t \in Types, u \in Users, b \in StartBlock .. height - 1 :
         GetPowerAtBlock(t, u, b)' = GetPowerAtBlock(t, u, b)]_vars

(***************************************************************************)
(* totalSupplyAt, documented as the total supply at a certain block: for a *)
(* block that is over it should not move any more.                         *)
(***************************************************************************)
PastSupplyIsFixed ==
    [][\A b \in 0 .. height - 1 : TotalSupplyAt(b)' = TotalSupplyAt(b)]_vars

\* What the views say, as the power of every user in every block so far.
Promise == INSTANCE VotingPower WITH
    delegatee <- [t \in Types |-> [u \in Users |-> GetDelegatee(t, u)]],
    power     <- [t \in Types |-> [u \in Users |->
                    [b \in 0 .. height |-> GetPowerAtBlock(t, u, b)]]]

(***************************************************************************)
(* In every block a user's power is the balance delegated to him at its    *)
(* end, and stays so: the snapshots implement VotingPower.                 *)
(***************************************************************************)
ImplementsVotingPower == Promise!Spec

=============================================================================
