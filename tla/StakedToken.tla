----------------------------- MODULE StakedToken -----------------------------
(***************************************************************************)
(* The staked token of stake/StakedToken.sol (StakedTokenV2, StakedTokenV3 *)
(* and the Rev3/Rev4 proposals keep this logic): users lock STAKED_TOKEN   *)
(* and hold a transferable receipt (balance), earn rewards paid from a     *)
(* vault, and may redeem only in the window that opens COOLDOWN_SECONDS    *)
(* after they called cooldown().                                           *)
(*                                                                         *)
(* One action is one transaction that succeeds: every require, SafeMath    *)
(* underflow and failed token transfer reverts the whole transaction, so   *)
(* it is a guard.  As in the deployments, STAKED_TOKEN and REWARD_TOKEN    *)
(* are the same token; its ledger, an external contract, is `token'.       *)
(* `released', `activation' and `refreshed' are history, which the code does *)
(* not keep.                                                               *)
(***************************************************************************)
EXTENDS DistributionManager, FiniteSets

CONSTANTS Callers,           \* accounts that send transactions
          This, Vault,       \* the contract itself, and REWARDS_VAULT
          COOLDOWN_SECONDS, UNSTAKE_WINDOW,
          Amounts,           \* the amounts a caller may pass
          MAX_UINT,          \* type(uint256).max, "all my rewards" in a claim
          Emissions,         \* the rates the emission manager may set
          ReportErrors,      \* how far the totalStaked he reports is off
          Funds, VaultFunds, \* what each caller and the vault own at first
          StartTime, MaxTime \* bounds of the clock

Holders == Callers \cup {This}

ASSUME StakedTokenAssumption ==
    /\ This \notin Callers
    /\ Vault \notin Holders
    /\ COOLDOWN_SECONDS \in Nat
    /\ UNSTAKE_WINDOW \in Nat
    /\ Amounts \subseteq Nat
    /\ MAX_UINT \in Nat
    /\ Emissions \subseteq Nat
    /\ ReportErrors \subseteq Int
    /\ Funds \in Nat
    /\ VaultFunds \in Nat
    /\ StartTime \in Nat
    /\ MaxTime \in Nat

\* There are finitely many addresses.
ASSUME AccountsAssumption == IsFiniteSet(Callers)

\* block.timestamp is Unix time: any real clock is far beyond both periods.
ASSUME ClockAssumption == StartTime > COOLDOWN_SECONDS + UNSTAKE_WINDOW

VARIABLES now,                  \* block.timestamp
          token,                \* balances of STAKED_TOKEN = REWARD_TOKEN
          balance,              \* balanceOf: the receipts
          totalSupply,
          asset,                \* assets[address(this)]
          userIndex,            \* assets[address(this)].users
          stakerRewardsToClaim,
          stakersCooldowns,
          released,             \* rewards the schedule released to stakers
          activation,           \* when a holder last called cooldown(), 0 if
                                \* not since he last had nothing staked
          refreshed             \* when he last received stake or receipts
                                \* since that call; at first, its time

accounts == <<token, balance, totalSupply>>
rewards == <<asset, userIndex, stakerRewardsToClaim>>
history == <<activation, refreshed>>
vars == <<now, accounts, rewards, stakersCooldowns, released, history>>

TypeOK ==
    /\ now \in Nat
    /\ token \in [Holders \cup {Vault} -> Nat]
    /\ balance \in [Holders -> Nat]
    /\ totalSupply \in Nat
    /\ asset \in AssetData
    /\ userIndex \in [Holders -> Nat]
    /\ stakerRewardsToClaim \in [Holders -> Nat]
    /\ stakersCooldowns \in [Holders -> Nat]
    /\ released \in Nat
    /\ activation \in [Holders -> Nat]
    /\ refreshed \in [Holders -> Nat]

Init ==
    /\ now = StartTime
    /\ token = [a \in Holders \cup {Vault} |->
                  CASE a = Vault -> VaultFunds [] a = This -> 0 [] OTHER -> Funds]
    /\ balance = [u \in Holders |-> 0]
    /\ totalSupply = 0
    /\ asset = NoAsset
    /\ userIndex = [u \in Holders |-> 0]
    /\ stakerRewardsToClaim = [u \in Holders |-> 0]
    /\ stakersCooldowns = [u \in Holders |-> 0]
    /\ released = 0
    /\ activation = [u \in Holders |-> 0]
    /\ refreshed = [u \in Holders |-> 0]

-----------------------------------------------------------------------------
(* Helpers *)

\* Faulty: both balances are read before either is written.
MoveFromCache(ledger, from, to, amount) ==
    [ledger EXCEPT ![from] = ledger[from] - amount, ![to] = ledger[to] + amount]

Move(ledger, from, to, amount) ==
    [[ledger EXCEPT ![from] = @ - amount] EXCEPT ![to] = @ + amount]

\* The asset as every call but configureAssets leaves it: brought up to date
\* with the supply before the call.  A second update in the same call is idle.
settled == UpdateAssetState(asset, totalSupply, now)

\* Faulty: rewards are computed from the index before the update.
AccruedAtOldIndex(u) == AccruedRewards(balance[u], asset.index, userIndex[u])

Accrued(u) == AccruedRewards(balance[u], settled.index, userIndex[u])

CanSettle(u) ==
    /\ CanUpdate(asset, totalSupply, now)
    /\ CanAccrue(balance[u], settled.index, userIndex[u])

\* _updateCurrentUnclaimedRewards of every user in `users', storage updated.
Settle(users) ==
    /\ \A u \in users : CanSettle(u)
    /\ asset' = settled
    /\ userIndex' = [u \in Holders |->
                       IF u \in users THEN settled.index ELSE userIndex[u]]
    /\ stakerRewardsToClaim' =
         [u \in Holders |-> IF u \in users
                              THEN stakerRewardsToClaim[u] + Accrued(u)
                              ELSE stakerRewardsToClaim[u]]

minimalValidCooldown == now - COOLDOWN_SECONDS - UNSTAKE_WINDOW

WeightedAverage(a, f, b, t) == (a * f + b * t) \div (a + b)

\* Faulty: a sender without a cooldown (timestamp 0) is averaged as he is.
NextCooldownOfAnySender(fromCooldown, amount, to) ==
    LET toCooldown == stakersCooldowns[to]
    IN  IF toCooldown = 0 \/ minimalValidCooldown > toCooldown
          THEN 0
          ELSE WeightedAverage(amount, fromCooldown, balance[to], toCooldown)

\* getNextCooldownTimestamp: where the cooldown of `to' goes when he receives
\* `amount' from somebody whose own cooldown is fromCooldown.
NextCooldown(fromCooldown, amount, to) ==
    LET toCooldown == stakersCooldowns[to]
        validFrom  == IF minimalValidCooldown > fromCooldown THEN now ELSE fromCooldown
    IN  IF toCooldown = 0 \/ minimalValidCooldown > toCooldown
          THEN 0
          ELSE IF validFrom < toCooldown
                 THEN toCooldown
                 ELSE WeightedAverage(amount, validFrom, balance[to], toCooldown)

\* Faulty: an emptied account keeps its cooldown.
CooldownKeptWhenLeaving(u, amount) == stakersCooldowns[u]

\* A holder whose whole balance leaves takes no cooldown into his next stake.
CooldownAfterLeaving(u, amount) ==
    IF balance[u] = amount THEN 0 ELSE stakersCooldowns[u]

\* Faulty: redeem burns what was asked for.
AmountAsked(u, amount) == amount

\* redeem clips: asking for more than the balance redeems all of it.
AmountToRedeem(u, amount) == Lesser(amount, balance[u])

\* The average is over some stake: div(0) reverts.
CanAverage(amount, to) == stakersCooldowns[to] # 0 => amount + balance[to] # 0

\* Faulty: the window closes a second early.
WindowClosedEarly(u) ==
    /\ now > stakersCooldowns[u] + COOLDOWN_SECONDS
    /\ now - (stakersCooldowns[u] + COOLDOWN_SECONDS) < UNSTAKE_WINDOW

\* Faulty: the window, once open, stays open.
WindowNeverCloses(u) ==
    now > stakersCooldowns[u] + COOLDOWN_SECONDS

WindowOpen(u) ==
    /\ now > stakersCooldowns[u] + COOLDOWN_SECONDS
    /\ now - (stakersCooldowns[u] + COOLDOWN_SECONDS) <= UNSTAKE_WINDOW

\* History: an activation counts only while the holder has something staked.
ForgetActivations(refreshedNow) ==
    /\ activation' = [u \in Holders |-> IF balance'[u] = 0 THEN 0 ELSE activation[u]]
    /\ refreshed' = [u \in Holders |-> IF balance'[u] = 0 THEN 0 ELSE refreshedNow[u]]

RefreshedByReceipt(u, amount) ==
    [refreshed EXCEPT ![u] = IF amount # 0 /\ activation[u] # 0 THEN now ELSE @]

-----------------------------------------------------------------------------
(* Transactions *)

Stake(sender, onBehalfOf, amount) ==
    /\ amount # 0
    /\ token[sender] >= amount
    /\ CanAverage(amount, onBehalfOf)
    /\ Settle({onBehalfOf})
    /\ stakersCooldowns' =
         [stakersCooldowns EXCEPT ![onBehalfOf] = NextCooldown(0, amount, onBehalfOf)]
    /\ balance' = [balance EXCEPT ![onBehalfOf] = @ + amount]
    /\ totalSupply' = totalSupply + amount
    /\ token' = Move(token, sender, This, amount)
    /\ refreshed' = RefreshedByReceipt(onBehalfOf, amount)
    /\ UNCHANGED <<now, released, activation>>

Redeem(sender, to, amount) ==
    LET amountToRedeem == AmountToRedeem(sender, amount)
    IN  /\ amount # 0
        /\ WindowOpen(sender)
        /\ amountToRedeem <= totalSupply
        /\ amountToRedeem <= token[This]
        /\ Settle({sender})
        /\ balance' = [balance EXCEPT ![sender] = @ - amountToRedeem]
        /\ totalSupply' = totalSupply - amountToRedeem
        /\ stakersCooldowns' =
             [stakersCooldowns EXCEPT
                ![sender] = CooldownAfterLeaving(sender, amountToRedeem)]
        /\ token' = Move(token, This, to, amountToRedeem)
        /\ ForgetActivations(refreshed)
        /\ UNCHANGED <<now, released>>

Cooldown(sender) ==
    /\ balance[sender] # 0
    /\ stakersCooldowns' = [stakersCooldowns EXCEPT ![sender] = now]
    /\ activation' = [activation EXCEPT ![sender] = now]
    /\ refreshed' = [refreshed EXCEPT ![sender] = now]
    /\ UNCHANGED <<now, accounts, rewards, released>>

\* updateStorage is FALSE here: the total, not the accrued part, is stored.
ClaimRewards(sender, to, amount) ==
    LET newTotalRewards == stakerRewardsToClaim[sender] + Accrued(sender)
        amountToClaim   == IF amount = MAX_UINT THEN newTotalRewards ELSE amount
    IN  /\ CanSettle(sender)
        /\ amountToClaim <= newTotalRewards
        /\ amountToClaim <= token[Vault]
        /\ asset' = settled
        /\ userIndex' = [userIndex EXCEPT ![sender] = settled.index]
        /\ stakerRewardsToClaim' =
             [stakerRewardsToClaim EXCEPT ![sender] = newTotalRewards - amountToClaim]
        /\ token' = Move(token, Vault, to, amountToClaim)
        /\ UNCHANGED <<now, balance, totalSupply, stakersCooldowns, released, history>>

\* _transfer: reached by transfer and transferFrom.
Transfer(from, to, amount) ==
    /\ amount <= balance[from]
    /\ from # to => CanAverage(amount, to)
    /\ Settle({from, to})
    /\ stakersCooldowns' =
         IF from = to
           THEN stakersCooldowns
           ELSE [stakersCooldowns EXCEPT
                   ![to] = NextCooldown(stakersCooldowns[from], amount, to),
                   ![from] = CooldownAfterLeaving(from, amount)]
    /\ balance' = Move(balance, from, to, amount)
    /\ ForgetActivations(IF from = to THEN refreshed ELSE RefreshedByReceipt(to, amount))
    /\ UNCHANGED <<now, token, totalSupply, released>>

\* Faulty: a new rate is set before the old one has accrued.
ConfigureAssetsUnsettled(emission, err) ==
    /\ totalSupply + err >= 0
    /\ asset' = [asset EXCEPT !.emissionPerSecond = emission]
    /\ UNCHANGED <<now, accounts, userIndex, stakerRewardsToClaim,
                   stakersCooldowns, released, history>>

\* The emission manager reports the total stake himself (totalStaked); the
\* report is off by `err' when the supply moved before the call was mined.
ConfigureAssets(emission, err) ==
    LET reported == totalSupply + err
    IN  /\ reported >= 0
        /\ CanUpdate(asset, reported, now)
        /\ asset' = [UpdateAssetState(asset, reported, now)
                       EXCEPT !.emissionPerSecond = emission]
        /\ UNCHANGED <<now, accounts, userIndex, stakerRewardsToClaim,
                       stakersCooldowns, released, history>>

\* A second passes; the schedule releases its rate to whoever is staking.
AdvanceTime ==
    /\ now < MaxTime
    /\ now' = now + 1
    /\ released' = IF totalSupply # 0 /\ now < DISTRIBUTION_END
                     THEN released + asset.emissionPerSecond
                     ELSE released
    /\ UNCHANGED <<accounts, rewards, stakersCooldowns, history>>

Next ==
    \/ \E u \in Callers, v \in Holders, a \in Amounts : Stake(u, v, a)
    \/ \E u \in Callers, v \in Holders, a \in Amounts : Redeem(u, v, a)
    \/ \E u \in Callers : Cooldown(u)
    \/ \E u \in Callers, v \in Holders, a \in Amounts : ClaimRewards(u, v, a)
    \/ \E u \in Callers, v \in Holders, a \in Amounts : Transfer(u, v, a)
    \/ \E e \in Emissions, err \in ReportErrors : ConfigureAssets(e, err)
    \/ AdvanceTime

Spec == Init /\ [][Next]_vars

-----------------------------------------------------------------------------
(* Properties of one holder; those that add up are in StakedTokenAccounting *)

(***************************************************************************)
(* Whatever receipts he gets or gives away, a running cooldown is never    *)
(* earlier than the holder's own cooldown() call, made since he last had   *)
(* nothing staked, nor later than what he last received since: it does not *)
(* outlive an emptied balance, and no average of getNextCooldownTimestamp  *)
(* moves it back, or further than the second in which it was made.         *)
(***************************************************************************)
CooldownSinceActivation ==
    \A u \in Holders :
        stakersCooldowns[u] # 0 =>
            /\ balance[u] # 0
            /\ activation[u] # 0
            /\ activation[u] <= stakersCooldowns[u]
            /\ stakersCooldowns[u] <= refreshed[u]
            /\ refreshed[u] <= now

(***************************************************************************)
(* Receiving receipts or stake (stake on his behalf, transfer) never       *)
(* brings a holder's window closer: his cooldown moves later or is reset.  *)
(***************************************************************************)
ReceiptNeverShortensCooldown ==
    [][\A u \in Holders : \/ stakersCooldowns'[u] = 0
                          \/ stakersCooldowns'[u] >= stakersCooldowns[u]]_vars

(***************************************************************************)
(* Stake leaves the contract (the supply falls, redeem) only in a window   *)
(* of its holder's own: more than COOLDOWN_SECONDS after he called         *)
(* cooldown() himself, since he last had nothing staked, however the stake *)
(* reached him; and a cooldown he let lapse lets nothing out: no later     *)
(* than COOLDOWN_SECONDS and UNSTAKE_WINDOW after that call, or after what *)
(* he last received since, which may have moved his cooldown on.           *)
(***************************************************************************)
ExitOnlyInOwnWindow ==
    [][totalSupply' < totalSupply =>
         \A u \in Holders : balance'[u] < balance[u] =>
             /\ activation[u] # 0
             /\ now > activation[u] + COOLDOWN_SECONDS
             /\ now <= refreshed[u] + COOLDOWN_SECONDS + UNSTAKE_WINDOW]_vars

(***************************************************************************)
(* No settled index runs ahead of the asset's, which never falls, and the  *)
(* asset was never updated in the future: SafeMath's subtractions in       *)
(* _getRewards and _getAssetIndex do not revert, whatever the emission     *)
(* manager reports as the total stake.                                     *)
(***************************************************************************)
IndicesOrdered ==
    /\ asset.lastUpdateTimestamp <= now
    /\ \A u \in Holders : userIndex[u] <= asset.index

\* getTotalRewardsBalance: what u could claim now.
Owed(u) == stakerRewardsToClaim[u]
             + GetRewards(balance[u], GetAssetIndex(asset, totalSupply, now), userIndex[u])

(***************************************************************************)
(* A call moves no rewards: whatever anybody stakes, redeems, transfers or *)
(* reconfigures, what each holder is owed stays as it was, to the unit; a  *)
(* claim lowers the debt to one holder by exactly what the vault paid.  It *)
(* needs reports of totalStaked that are exact.                            *)
(***************************************************************************)
CallsMoveNoRewards ==
    [][now' = now =>
         \/ \A u \in Holders : Owed(u)' = Owed(u)
         \/ \E u \in Callers :
              /\ Owed(u) - Owed(u)' = token[Vault] - token'[Vault]
              /\ \A v \in Holders \ {u} : Owed(v)' = Owed(v)]_vars

\* Counted in seconds since the cooldown, whatever the guard of redeem says.
MayLeave(u) ==
    now - stakersCooldowns[u] \in COOLDOWN_SECONDS + 1 .. COOLDOWN_SECONDS + UNSTAKE_WINDOW

(***************************************************************************)
(* No underflow locks a stake in: redeem of the whole balance goes through *)
(* in each of the UNSTAKE_WINDOW seconds that follow the cooldown, the     *)
(* last one included, and a transfer at any time.                          *)
(***************************************************************************)
StakeNeverLocked ==
    \A u \in Callers : balance[u] # 0 =>
        /\ MayLeave(u) => ENABLED Redeem(u, u, balance[u])
        /\ \A v \in Holders : ENABLED Transfer(u, v, balance[u])

=============================================================================
