------------------------- MODULE DistributionManager -------------------------
(***************************************************************************)
(* The reward arithmetic of stake/DistributionManager.sol: an asset hands  *)
(* out emissionPerSecond reward tokens to its stakers until                *)
(* DISTRIBUTION_END, in proportion to what each has staked.  It keeps one  *)
(* index per asset (rewards per staked token since the start, scaled by    *)
(* UNIT = 10**PRECISION) and one index per user, the asset's index when    *)
(* the user was last settled.                                              *)
(*                                                                         *)
(* The contract is abstract: StakedToken and IncentivesController inherit  *)
(* it, and their modules carry its state.  SafeMath's overflow checks are  *)
(* left out (no amount comes near 2^256); its underflow checks are guards. *)
(***************************************************************************)
EXTENDS Integers

CONSTANTS DISTRIBUTION_END,  \* rewards accrue up to this timestamp
          UNIT               \* 10**PRECISION, the scale of an index

ASSUME DistributionAssumption == /\ DISTRIBUTION_END \in Nat
                                 /\ UNIT \in Nat \ {0}

(***************************************************************************)
(* AssetData without its users mapping, which is a variable of its own in  *)
(* the modules that use this one; an asset nobody configured is all zero.  *)
(***************************************************************************)
AssetData == [emissionPerSecond : Nat, lastUpdateTimestamp : Nat, index : Nat]

NoAsset == [emissionPerSecond |-> 0, lastUpdateTimestamp |-> 0, index |-> 0]

Lesser(m, n) == IF m <= n THEN m ELSE n

\* Faulty: accrual is not stopped by the end of the distribution.
IdleIgnoringEnd(asset, totalBalance, t) ==
    \/ asset.emissionPerSecond = 0
    \/ totalBalance = 0
    \/ asset.lastUpdateTimestamp = t

\* Nothing accrues: no rate, no stake, no time, or the distribution is over.
Idle(asset, totalBalance, t) ==
    \/ asset.emissionPerSecond = 0
    \/ totalBalance = 0
    \/ asset.lastUpdateTimestamp = t
    \/ asset.lastUpdateTimestamp >= DISTRIBUTION_END

\* Faulty: the clock is not capped at the end of the distribution.
TimeDeltaUncapped(asset, t) == t - asset.lastUpdateTimestamp

\* The seconds since the last update that still belong to the distribution.
TimeDelta(asset, t) == Lesser(t, DISTRIBUTION_END) - asset.lastUpdateTimestamp

\* currentTimestamp.sub(lastUpdateTimestamp) does not underflow.
CanUpdate(asset, totalBalance, t) ==
    Idle(asset, totalBalance, t) \/ TimeDelta(asset, t) >= 0

\* Faulty: the index starts over instead of adding up.
GetAssetIndexRestarted(asset, totalBalance, t) ==
    IF Idle(asset, totalBalance, t)
      THEN asset.index
      ELSE (asset.emissionPerSecond * TimeDelta(asset, t) * UNIT) \div totalBalance

GetAssetIndex(asset, totalBalance, t) ==
    IF Idle(asset, totalBalance, t)
      THEN asset.index
      ELSE asset.index + (asset.emissionPerSecond * TimeDelta(asset, t) * UNIT)
                           \div totalBalance

UpdateAssetState(asset, totalStaked, t) ==
    [asset EXCEPT !.index = GetAssetIndex(asset, totalStaked, t),
                  !.lastUpdateTimestamp = t]

GetRewards(principal, reserveIndex, userIndex) ==
    (principal * (reserveIndex - userIndex)) \div UNIT

\* What settling a user at newIndex adds to the rewards he may claim.
AccruedRewards(stakedByUser, newIndex, userIndex) ==
    IF userIndex # newIndex /\ stakedByUser # 0
      THEN GetRewards(stakedByUser, newIndex, userIndex)
      ELSE 0

\* reserveIndex.sub(userIndex) does not underflow.
CanAccrue(stakedByUser, newIndex, userIndex) ==
    stakedByUser # 0 => userIndex <= newIndex

=============================================================================
