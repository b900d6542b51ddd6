------------------------ MODULE StakedTokenAccounting ------------------------
(***************************************************************************)
(* Properties of StakedToken that add up over the holders: where the       *)
(* staked tokens are, and who is owed which part of the rewards released.  *)
(***************************************************************************)
EXTENDS StakedToken, Functions

TotalOwed == SumFunction([u \in Holders |-> Owed(u)])

PaidOut == VaultFunds - token[Vault]

(***************************************************************************)
(* Receipts and tokens move together in stake, redeem and _transfer, a     *)
(* transfer to oneself and a redemption to the contract included: the      *)
(* receipts add up to totalSupply, and the contract holds a staked token   *)
(* for every one of them.                                                  *)
(***************************************************************************)
ReceiptsBacked ==
    /\ SumFunction(balance) = totalSupply
    /\ token[This] >= totalSupply

(***************************************************************************)
(* What was claimed and what is still owed never exceeds what the schedule *)
(* released to stakers: no sequence of settlements, rate changes, idle     *)
(* periods without stake or calls after DISTRIBUTION_END pays a second     *)
(* twice.  It needs reports of totalStaked that are not too low.           *)
(***************************************************************************)
RewardsWithinEmission ==
    PaidOut + TotalOwed <= released

(***************************************************************************)
(* And nothing released is lost: where no division rounds, claims and      *)
(* debts add up to all that was released, however often holders settle,    *)
(* swap their receipts or change the rate in between.                      *)
(***************************************************************************)
EveryRewardOwed ==
    PaidOut + TotalOwed = released

\* The one asset is the staked token itself.
Stream == INSTANCE StreamedRewards WITH
    Users  <- Holders,
    Assets <- {This},
    stake  <- [a \in {This} |-> balance],
    rate   <- [a \in {This} |-> asset.emissionPerSecond],
    owed   <- [u \in Holders |-> Owed(u)]

(***************************************************************************)
(* What each holder is owed grows every second by his share of the rate,   *)
(* to within what the divisions round, and by nothing once the             *)
(* distribution is over; nothing he or anybody else calls changes it, but  *)
(* his own claim.  However long nobody touches the asset, its one index    *)
(* implements StreamedRewards.  It needs exact reports of totalStaked.     *)
(***************************************************************************)
ImplementsStreamedRewards == Stream!Spec

=============================================================================
