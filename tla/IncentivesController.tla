------------------------- MODULE IncentivesController -------------------------
(***************************************************************************)
(* stake/IncentivesController.sol: rewards for the holders of the lending  *)
(* pool's tokens, several assets at once, on the arithmetic of             *)
(* DistributionManager.  An asset calls handleAction before a balance      *)
(* changes; a user claims over a list of assets of his choice, and may     *)
(* have the claim staked in PSM (a StakedToken) with an extra reward.      *)
(*                                                                         *)
(* External: the assets' balances (poolBalance), the reward token's ledger *)
(* (token) and what PSM credits for a stake (psmStake).  The calls to      *)
(* getScaledUserBalanceAndSupply are views and cannot call back.           *)
(* `outstanding' and `payouts' are history.                                *)
(***************************************************************************)
EXTENDS DistributionManager, Sequences, SequencesExt

CONSTANTS Users, Assets,
          Recipients,        \* whom claims are paid to; the three below may be too
          This, Vault, PSM,  \* the controller, REWARDS_VAULT and the safety module
          EXTRA_PSM_REWARD,  \* in percent
          Emissions, Amounts, VaultFunds,
          MaxList,           \* bound: assets named in one call
          MaxBalance,        \* bound: what a user holds of an asset
          StartTime, MaxTime

ASSUME IncentivesAssumption ==
    /\ IsFiniteSet(Users) /\ IsFiniteSet(Assets) /\ IsFiniteSet(Recipients)
    /\ This # Vault /\ This # PSM /\ Vault # PSM
    /\ EXTRA_PSM_REWARD \in Nat
    /\ Emissions \subseteq Nat
    /\ Amounts \subseteq Nat
    /\ {VaultFunds, MaxList, MaxBalance, StartTime, MaxTime} \subseteq Nat

VARIABLES now,
          poolBalance,            \* scaled balances, by asset and user
          poolSupply,             \* scaled supply, by asset
          assets, userIndex,      \* the distribution, by asset (and user)
          usersUnclaimedRewards,
          initialized,            \* lastInitializedRevision reached REVISION
          token, psmStake,
          outstanding,            \* rewards released and not yet claimed
          payouts                 \* what claims paid without staking, by recipient

pool == <<poolBalance, poolSupply>>
distribution == <<assets, userIndex, usersUnclaimedRewards>>
ledgers == <<token, psmStake>>
vars == <<now, pool, distribution, initialized, ledgers, outstanding, payouts>>

Lists == SeqOf(Assets, MaxList)

TypeOK ==
    /\ now \in Nat
    /\ poolBalance \in [Assets -> [Users -> Nat]]
    /\ poolSupply \in [Assets -> Nat]
    /\ assets \in [Assets -> AssetData]
    /\ userIndex \in [Assets -> [Users -> Nat]]
    /\ usersUnclaimedRewards \in [Users -> Nat]
    /\ initialized \in BOOLEAN
    /\ token \in [Recipients \cup {This, Vault, PSM} -> Nat]
    /\ psmStake \in [Recipients -> Nat]
    /\ outstanding \in Nat
    /\ payouts \in [Recipients -> Nat]

Init ==
    /\ now = StartTime
    /\ poolBalance = [a \in Assets |-> [u \in Users |-> 0]]
    /\ poolSupply = [a \in Assets |-> 0]
    /\ assets = [a \in Assets |-> NoAsset]
    /\ userIndex = [a \in Assets |-> [u \in Users |-> 0]]
    /\ usersUnclaimedRewards = [u \in Users |-> 0]
    /\ initialized = FALSE
    /\ token = [x \in Recipients \cup {This, Vault, PSM} |-> IF x = Vault THEN VaultFunds ELSE 0]
    /\ psmStake = [r \in Recipients |-> 0]
    /\ outstanding = 0
    /\ payouts = [r \in Recipients |-> 0]

-----------------------------------------------------------------------------
(* Settling a user *)

(***************************************************************************)
(* What a loop over a list carries along: the distribution of the user it  *)
(* settles, the rewards accrued so far, and whether every subtraction was  *)
(* possible (if not, the call reverts).                                    *)
(***************************************************************************)
Unsettled(u) == [assets |-> assets, index |-> [a \in Assets |-> userIndex[a][u]],
                 accrued |-> 0, ok |-> TRUE]

\* Faulty: the user's index stays where it was.
SettledKeepingIndex(s, a, stakedByUser, totalStaked) ==
    LET asset == UpdateAssetState(s.assets[a], totalStaked, now)
    IN  [assets  |-> [s.assets EXCEPT ![a] = asset],
         index   |-> s.index,
         accrued |-> s.accrued + AccruedRewards(stakedByUser, asset.index, s.index[a]),
         ok      |-> /\ s.ok
                     /\ CanUpdate(s.assets[a], totalStaked, now)
                     /\ CanAccrue(stakedByUser, asset.index, s.index[a])]

\* _updateUserAssetInternal, on top of what the loop did before.
Settled(s, a, stakedByUser, totalStaked) ==
    LET asset == UpdateAssetState(s.assets[a], totalStaked, now)
    IN  [assets  |-> [s.assets EXCEPT ![a] = asset],
         index   |-> [s.index EXCEPT ![a] = asset.index],
         accrued |-> s.accrued + AccruedRewards(stakedByUser, asset.index, s.index[a]),
         ok      |-> /\ s.ok
                     /\ CanUpdate(s.assets[a], totalStaked, now)
                     /\ CanAccrue(stakedByUser, asset.index, s.index[a])]

\* _claimRewards: asset by asset; a list may name an asset twice.
SettledOver(u, list) ==
    LET upTo[i \in 0 .. Len(list)] ==
          IF i = 0
            THEN Unsettled(u)
            ELSE Settled(upTo[i - 1], list[i], poolBalance[list[i]][u], poolSupply[list[i]])
    IN  upTo[Len(list)]

StoreDistribution(u, s) ==
    /\ s.ok
    /\ assets' = s.assets
    /\ userIndex' = [a \in Assets |-> [userIndex[a] EXCEPT ![u] = s.index[a]]]

-----------------------------------------------------------------------------
(* Transactions *)

Initialize ==
    /\ ~initialized
    /\ initialized' = TRUE
    /\ UNCHANGED <<now, pool, distribution, ledgers, outstanding, payouts>>

\* Faulty: what accrued is not kept.
HandleActionForgetting(a, u, userBalance, totalSupply) ==
    /\ StoreDistribution(u, Settled(Unsettled(u), a, userBalance, totalSupply))
    /\ UNCHANGED usersUnclaimedRewards

HandleAction(a, u, userBalance, totalSupply) ==
    LET s == Settled(Unsettled(u), a, userBalance, totalSupply)
    IN  /\ StoreDistribution(u, s)
        /\ usersUnclaimedRewards' = [usersUnclaimedRewards EXCEPT ![u] = @ + s.accrued]

\* The asset reports the balance and the supply from before the change.
PoolAction(a, u, newBalance) ==
    /\ newBalance # poolBalance[a][u]
    /\ HandleAction(a, u, poolBalance[a][u], poolSupply[a])
    /\ poolBalance' = [poolBalance EXCEPT ![a][u] = newBalance]
    /\ poolSupply' = [poolSupply EXCEPT ![a] = @ - poolBalance[a][u] + newBalance]
    /\ UNCHANGED <<now, initialized, ledgers, outstanding, payouts>>

\* Faulty: a claim takes whatever was asked for.
AmountAsked(amount, unclaimedRewards) == amount

\* A claim of more than there is takes all of it.
AmountToClaim(amount, unclaimedRewards) == Lesser(amount, unclaimedRewards)

WithExtra(amount) == amount + (amount * EXTRA_PSM_REWARD) \div 100

\* Faulty: the extra reward is drawn from the vault and not staked.
PayStakedWithoutExtra(to, amount) ==
    /\ initialized
    /\ WithExtra(amount) <= token[Vault]
    /\ token' = [token EXCEPT ![Vault] = @ - WithExtra(amount), ![PSM] = @ + amount,
                              ![This] = @ + WithExtra(amount) - amount]
    /\ psmStake' = [psmStake EXCEPT ![to] = @ + amount]
    /\ UNCHANGED payouts

\* Drawn from the vault into the controller, and by PSM.stake from there: only
\* initialize approves PSM to do so.
PayStaked(to, amount) ==
    /\ initialized
    /\ WithExtra(amount) <= token[Vault]
    /\ token' = [token EXCEPT ![Vault] = @ - WithExtra(amount), ![PSM] = @ + WithExtra(amount)]
    /\ psmStake' = [psmStake EXCEPT ![to] = @ + WithExtra(amount)]
    /\ UNCHANGED payouts

\* Whoever `to' is: paid to the vault itself, the tokens stay where they are.
PayOut(to, amount) ==
    /\ amount <= token[Vault]
    /\ token' = [[token EXCEPT ![Vault] = @ - amount] EXCEPT ![to] = @ + amount]
    /\ payouts' = [payouts EXCEPT ![to] = @ + amount]
    /\ UNCHANGED psmStake

\* A claim of 0 returns at once; one that finds nothing has settled the user,
\* but pays nothing.
ClaimRewards(u, list, amount, to, stake) ==
    LET s                == SettledOver(u, list)
        unclaimedRewards == usersUnclaimedRewards[u] + s.accrued
        amountToClaim    == AmountToClaim(amount, unclaimedRewards)
    IN  /\ amount # 0
        /\ StoreDistribution(u, s)
        /\ usersUnclaimedRewards' =
             [usersUnclaimedRewards EXCEPT ![u] = unclaimedRewards - amountToClaim]
        /\ \/ unclaimedRewards = 0 /\ UNCHANGED <<ledgers, payouts>>
           \/ unclaimedRewards # 0 /\ stake /\ PayStaked(to, amountToClaim)
           \/ unclaimedRewards # 0 /\ ~stake /\ PayOut(to, amountToClaim)
        /\ outstanding' = outstanding - amountToClaim
        /\ UNCHANGED <<now, pool, initialized>>

\* configureAssets for one asset; the emission manager reports its supply.
Configured(s, a, emission) ==
    [assets |-> [s.assets EXCEPT ![a] =
                   [UpdateAssetState(@, poolSupply[a], now)
                      EXCEPT !.emissionPerSecond = emission]],
     ok     |-> s.ok /\ CanUpdate(s.assets[a], poolSupply[a], now)]

\* Asset by asset, with one rate for all of them.
ConfiguredOver(list, emission) ==
    LET upTo[i \in 0 .. Len(list)] ==
          IF i = 0
            THEN [assets |-> assets, ok |-> TRUE]
            ELSE Configured(upTo[i - 1], list[i], emission)
    IN  upTo[Len(list)]

ConfigureAssets(list, emission) ==
    LET s == ConfiguredOver(list, emission)
    IN  /\ s.ok
        /\ assets' = s.assets
        /\ UNCHANGED <<now, pool, userIndex, usersUnclaimedRewards, initialized,
                       ledgers, outstanding, payouts>>

\* A second passes; every asset somebody holds releases its rate.
AdvanceTime ==
    /\ now < MaxTime
    /\ now' = now + 1
    /\ outstanding' = outstanding + SumFunction([a \in Assets |->
                      IF poolSupply[a] # 0 /\ now < DISTRIBUTION_END
                        THEN assets[a].emissionPerSecond
                        ELSE 0])
    /\ UNCHANGED <<pool, distribution, initialized, ledgers, payouts>>

Next ==
    \/ Initialize
    \/ \E a \in Assets, u \in Users, b \in 0 .. MaxBalance : PoolAction(a, u, b)
    \/ \E u \in Users, to \in Recipients, list \in Lists, n \in Amounts, stake \in BOOLEAN :
         ClaimRewards(u, list, n, to, stake)
    \/ \E list \in Lists, e \in Emissions : ConfigureAssets(list, e)
    \/ AdvanceTime

Spec == Init /\ [][Next]_vars

-----------------------------------------------------------------------------
(* Properties *)

\* getRewardsBalance over all assets, each named once.
Owed(u) ==
    usersUnclaimedRewards[u]
      + SumFunction([a \in Assets |->
          GetRewards(poolBalance[a][u], GetAssetIndex(assets[a], poolSupply[a], now),
                     userIndex[a][u])])

(***************************************************************************)
(* Where no division rounds, what is owed to users adds up to what the     *)
(* assets released and nobody claimed yet, whatever lists users claim over *)
(* (an asset named twice in one included), and however balances and rates  *)
(* change.                                                                 *)
(***************************************************************************)
EveryRewardOwed ==
    SumFunction([u \in Users |-> Owed(u)]) = outstanding

(***************************************************************************)
(* However the divisions round, users are never owed more than the assets  *)
(* released and nobody claimed yet: each division is rounded down, and an  *)
(* asset named twice in a list, or updated twice in a second, accrues its  *)
(* rewards once.                                                           *)
(***************************************************************************)
RewardsWithinReleased ==
    SumFunction([u \in Users |-> Owed(u)]) <= outstanding

PaidOutTo(x) == IF x \in Recipients THEN payouts[x] ELSE 0

(***************************************************************************)
(* Only a user's own claim lowers what he is owed, and then the vault pays *)
(* that much, or that much and the extra reward of a staked claim, unless  *)
(* he has it paid to the vault itself; nothing a user or an asset does     *)
(* moves rewards between users or assets.                                  *)
(***************************************************************************)
OnlyClaimsArePaid ==
    [][now' = now =>
         \/ UNCHANGED token /\ \A u \in Users : Owed(u)' = Owed(u)
         \/ \E u \in Users :
              LET lowered == Owed(u) - Owed(u)'
                  paid    == token[Vault] - token'[Vault]
              IN  /\ lowered > 0
                  /\ \/ paid \in {lowered, WithExtra(lowered)}
                     \/ paid = 0 /\ PaidOutTo(Vault)' = PaidOutTo(Vault) + lowered
                  /\ \A v \in Users \ {u} : Owed(v)' = Owed(v)]_vars

(***************************************************************************)
(* Of a staked claim nothing stays behind, neither in the controller nor,  *)
(* unaccounted, in PSM, however claims of either sort follow one another:  *)
(* the controller holds what claims had paid out to it by name, and PSM    *)
(* that and what it credits as somebody's stake, to the unit.              *)
(***************************************************************************)
OnlyPayoutsStay ==
    /\ token[This] = PaidOutTo(This)
    /\ token[PSM] = PaidOutTo(PSM) + SumFunction(psmStake)

Stream == INSTANCE StreamedRewards WITH
    stake <- poolBalance,
    rate  <- [a \in Assets |-> assets[a].emissionPerSecond],
    owed  <- [u \in Users |-> Owed(u)]

(***************************************************************************)
(* What each user is owed grows every second by his shares in all assets,  *)
(* to within what the divisions round, and by nothing once the             *)
(* distribution is over; no balance that moves, list that is claimed over  *)
(* or rate that is set changes it, but the claims made for him: the        *)
(* indices implement StreamedRewards.                                      *)
(***************************************************************************)
ImplementsStreamedRewards == Stream!Spec

=============================================================================
