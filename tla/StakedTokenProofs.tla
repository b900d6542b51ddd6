-------------------------- MODULE StakedTokenProofs --------------------------
(***************************************************************************)
(* Theorems about StakedToken and the sums of StakedTokenAccounting, for   *)
(* any callers, amounts, rates, reports, scale of the indices, cooldown    *)
(* and window.                                                             *)
(***************************************************************************)
EXTENDS StakedTokenAccounting, DistributionManagerProofs, Sums

-----------------------------------------------------------------------------
(* Settling *)

(* What Settle, the first part of most transactions, does to the rewards. *)
LEMMA SettledState ==
    ASSUME TypeOK, NEW users \in SUBSET Holders, users # {}, Settle(users)
    PROVE  /\ asset' \in AssetData
           /\ asset'.lastUpdateTimestamp = now
           /\ asset'.index >= asset.index
           /\ userIndex' \in [Holders -> Nat]
           /\ \A u \in Holders : userIndex'[u] \in {userIndex[u], asset'.index}
           /\ stakerRewardsToClaim' \in [Holders -> Nat]
<1>1. PICK u \in users : CanSettle(u)
  BY DEF Settle
<1>2. CanUpdate(asset, totalSupply, now)
  BY <1>1 DEF CanSettle
<1>3. /\ settled \in AssetData
      /\ settled.lastUpdateTimestamp = now
      /\ settled.index >= asset.index
  BY <1>2, UpdatedAsset DEF TypeOK, settled
<1>4. settled.index \in Nat
  BY <1>3 DEF AssetData
<1>5. /\ userIndex' \in [Holders -> Nat]
      /\ \A v \in Holders : userIndex'[v] \in {userIndex[v], settled.index}
  BY <1>4 DEF TypeOK, Settle
<1>6. ASSUME NEW v \in users
      PROVE  Accrued(v) \in Nat
  <2>1. CanAccrue(balance[v], settled.index, userIndex[v])
    BY DEF Settle, CanSettle
  <2> QED BY <1>4, <2>1, AccruedNat DEF TypeOK, Accrued
<1>7. stakerRewardsToClaim' \in [Holders -> Nat]
  BY <1>6 DEF TypeOK, Settle
<1> QED BY <1>3, <1>5, <1>7 DEF Settle

(* The same for a claim, which settles its sender and stores the rest. *)
LEMMA ClaimedState ==
    ASSUME TypeOK, NEW u \in Holders, NEW v \in Holders, NEW n \in Nat,
           ClaimRewards(u, v, n)
    PROVE  /\ asset' \in AssetData
           /\ asset'.lastUpdateTimestamp = now
           /\ asset'.index >= asset.index
           /\ userIndex' \in [Holders -> Nat]
           /\ \A w \in Holders : userIndex'[w] \in {userIndex[w], asset'.index}
           /\ stakerRewardsToClaim' \in [Holders -> Nat]
           /\ token' \in [Holders \cup {Vault} -> Nat]
<1> DEFINE total == stakerRewardsToClaim[u] + Accrued(u)
           paid  == IF n = MAX_UINT THEN total ELSE n
<1>1. /\ CanSettle(u)
      /\ paid <= total /\ paid <= token[Vault]
      /\ asset' = settled
      /\ userIndex' = [userIndex EXCEPT ![u] = settled.index]
      /\ stakerRewardsToClaim' = [stakerRewardsToClaim EXCEPT ![u] = total - paid]
      /\ token' = Move(token, Vault, v, paid)
  BY DEF ClaimRewards
<1>2. /\ settled \in AssetData
      /\ settled.lastUpdateTimestamp = now
      /\ settled.index >= asset.index
  BY <1>1, UpdatedAsset DEF TypeOK, CanSettle, settled
<1>3. settled.index \in Nat
  BY <1>2 DEF AssetData
<1>4. Accrued(u) \in Nat
  BY <1>1, <1>3, AccruedNat DEF TypeOK, CanSettle, Accrued
<1>5. total \in Nat /\ paid \in Nat /\ total - paid \in Nat
  BY <1>1, <1>4 DEF TypeOK
<1> HIDE DEF total, paid
<1>6. stakerRewardsToClaim' \in [Holders -> Nat]
  BY <1>1, <1>5 DEF TypeOK
<1>7. token' \in [Holders \cup {Vault} -> Nat]
  BY <1>1, <1>5, StakedTokenAssumption DEF TypeOK, Move
<1> QED BY <1>1, <1>2, <1>3, <1>6, <1>7 DEF TypeOK

-----------------------------------------------------------------------------
(* The ledgers *)

(* Moving no more than the sender has keeps every account a natural number. *)
LEMMA MoveTyped ==
    ASSUME NEW S, NEW ledger \in [S -> Nat], NEW a \in S, NEW b \in S,
           NEW n \in Nat, n <= ledger[a]
    PROVE  /\ Move(ledger, a, b, n) \in [S -> Nat]
           /\ \A c \in S \ {a, b} : Move(ledger, a, b, n)[c] = ledger[c]
           /\ Move(ledger, a, b, n)[b] >= ledger[b]
           /\ a # b => /\ Move(ledger, a, b, n)[a] = ledger[a] - n
                       /\ Move(ledger, a, b, n)[b] = ledger[b] + n
  BY DEF Move

-----------------------------------------------------------------------------
(* The cooldown arithmetic *)

(* The average of two timestamps lies between them. *)
LEMMA AverageBetween ==
    ASSUME NEW a \in Nat, NEW b \in Nat, NEW f \in Nat, NEW t \in Nat,
           a + b # 0, t <= f
    PROVE  /\ WeightedAverage(a, f, b, t) \in Nat
           /\ t <= WeightedAverage(a, f, b, t)
           /\ WeightedAverage(a, f, b, t) <= f
<1>1. /\ a * f \in Nat /\ b * t \in Nat /\ a * t \in Nat /\ b * f \in Nat
  BY ProductNat
<1>2. a * t <= a * f /\ b * t <= b * f
  OBVIOUS
<1>3. t * (a + b) = a * t + b * t /\ f * (a + b) = a * f + b * f
  OBVIOUS
<1> QED BY <1>1, <1>2, <1>3, DivBounds DEF WeightedAverage

(* Receiving leaves a holder without a cooldown or with one no earlier than  *)
(* the one he had, and not in the future if the sender's is not.             *)
LEMMA NextCooldownBounds ==
    ASSUME TypeOK, NEW f \in Nat, NEW n \in Nat, NEW u \in Holders,
           CanAverage(n, u)
    PROVE  /\ NextCooldown(f, n, u) \in Nat
           /\ NextCooldown(f, n, u) # 0 =>
                /\ stakersCooldowns[u] # 0
                /\ stakersCooldowns[u] <= NextCooldown(f, n, u)
                /\ f <= now /\ stakersCooldowns[u] <= now
                     => NextCooldown(f, n, u) <= now
                /\ n = 0 => NextCooldown(f, n, u) = stakersCooldowns[u]
<1> DEFINE t == stakersCooldowns[u]
           from == IF minimalValidCooldown > f THEN now ELSE f
<1>1. /\ now \in Nat /\ t \in Nat /\ balance[u] \in Nat
      /\ from \in Nat /\ (f <= now => from <= now)
  BY DEF TypeOK
<1>2. minimalValidCooldown \in Int
  BY <1>1, StakedTokenAssumption DEF minimalValidCooldown
<1>3. CASE t = 0
  BY <1>3 DEF NextCooldown
<1>4. CASE t # 0 /\ minimalValidCooldown > t
  BY <1>4, <1>1, <1>2 DEF NextCooldown
<1>5. CASE t # 0 /\ minimalValidCooldown <= t /\ from < t
  <2>1. NextCooldown(f, n, u) = t
    BY <1>5, <1>1, <1>2 DEF NextCooldown
  <2> QED BY <1>1, <1>5, <2>1
<1>6. CASE t # 0 /\ minimalValidCooldown <= t /\ t <= from
  <2>1. NextCooldown(f, n, u) = WeightedAverage(n, from, balance[u], t)
    BY <1>6, <1>1, <1>2 DEF NextCooldown
  <2>2. n + balance[u] # 0
    BY <1>6 DEF CanAverage
  <2>3. /\ WeightedAverage(n, from, balance[u], t) \in Nat
        /\ t <= WeightedAverage(n, from, balance[u], t)
        /\ WeightedAverage(n, from, balance[u], t) <= from
    BY <1>1, <1>6, <2>2, AverageBetween
  <2>4. n = 0 => WeightedAverage(n, from, balance[u], t) = t
    <3>1. n = 0 => n * from = n * t
      BY <1>1
    <3>2. n = 0 => WeightedAverage(n, from, balance[u], t)
                     = WeightedAverage(n, t, balance[u], t)
      BY <3>1 DEF WeightedAverage
    <3>3. /\ WeightedAverage(n, t, balance[u], t) \in Nat
          /\ t <= WeightedAverage(n, t, balance[u], t)
          /\ WeightedAverage(n, t, balance[u], t) <= t
      <4>1. balance[u] \in Nat /\ t \in Nat /\ t <= t
        BY <1>1
      <4> HIDE DEF t
      <4> QED BY <2>2, <4>1, AverageBetween
    <3> QED BY <1>1, <3>2, <3>3
  <2> QED BY <1>1, <1>6, <2>1, <2>3, <2>4
<1> QED BY <1>1, <1>2, <1>3, <1>4, <1>5, <1>6

-----------------------------------------------------------------------------
(* Type correctness *)

LEMMA HoldersFacts ==
    /\ Callers \subseteq Holders /\ This \in Holders
    /\ Holders \subseteq Holders \cup {Vault} /\ Vault \in Holders \cup {Vault}
    /\ Vault \notin Holders /\ This # Vault
  BY StakedTokenAssumption DEF Holders

LEMMA InitTyped == Init => TypeOK
  BY StakedTokenAssumption, HoldersFacts DEF Init, TypeOK, AssetData, NoAsset

LEMMA ReceiptTyped ==
    ASSUME TypeOK, NEW u \in Holders, NEW n \in Nat
    PROVE  /\ RefreshedByReceipt(u, n) \in [Holders -> Nat]
           /\ \A w \in Holders : RefreshedByReceipt(u, n)[w] =
                IF w = u /\ n # 0 /\ activation[u] # 0 THEN now ELSE refreshed[w]
  BY DEF TypeOK, RefreshedByReceipt

LEMMA StakeTyped ==
    ASSUME TypeOK, NEW s \in Callers, NEW u \in Holders, NEW n \in Amounts,
           Stake(s, u, n)
    PROVE  TypeOK'
<1>1. n \in Nat /\ s \in Holders /\ s \in Holders \cup {Vault}
  BY StakedTokenAssumption, HoldersFacts
<1>2. /\ asset' \in AssetData
      /\ userIndex' \in [Holders -> Nat]
      /\ stakerRewardsToClaim' \in [Holders -> Nat]
  BY SettledState DEF Stake
<1>3. stakersCooldowns' \in [Holders -> Nat]
  BY <1>1, NextCooldownBounds DEF Stake, TypeOK
<1>4. token' \in [Holders \cup {Vault} -> Nat]
  BY <1>1, HoldersFacts, MoveTyped DEF Stake, TypeOK
<1>5. balance' \in [Holders -> Nat] /\ totalSupply' \in Nat
  BY <1>1 DEF Stake, TypeOK
<1>6. refreshed' \in [Holders -> Nat]
  BY <1>1, ReceiptTyped DEF Stake
<1> QED BY <1>2, <1>3, <1>4, <1>5, <1>6 DEF Stake, TypeOK

LEMMA RedeemTyped ==
    ASSUME TypeOK, NEW s \in Callers, NEW u \in Holders, NEW n \in Amounts,
           Redeem(s, u, n)
    PROVE  TypeOK'
<1> DEFINE m == AmountToRedeem(s, n)
<1>1. s \in Holders /\ n \in Nat
  BY StakedTokenAssumption, HoldersFacts
<1>2. m \in Nat /\ m <= balance[s] /\ m <= totalSupply /\ m <= token[This]
  BY <1>1 DEF Redeem, TypeOK, AmountToRedeem, Lesser
<1>3. /\ asset' \in AssetData
      /\ userIndex' \in [Holders -> Nat]
      /\ stakerRewardsToClaim' \in [Holders -> Nat]
  BY <1>1, SettledState DEF Redeem
<1>4. token' = Move(token, This, u, m)
  BY DEF Redeem
<1>5. balance' = [balance EXCEPT ![s] = @ - m] /\ totalSupply' = totalSupply - m
  BY DEF Redeem
<1> HIDE DEF m
<1>6. token' \in [Holders \cup {Vault} -> Nat]
  BY <1>2, <1>4, HoldersFacts, MoveTyped DEF TypeOK
<1>7. balance' \in [Holders -> Nat] /\ totalSupply' \in Nat
  BY <1>1, <1>2, <1>5 DEF TypeOK
<1>8. stakersCooldowns' \in [Holders -> Nat]
  BY <1>1 DEF Redeem, TypeOK, CooldownAfterLeaving
<1>9. activation' \in [Holders -> Nat] /\ refreshed' \in [Holders -> Nat]
  BY DEF Redeem, TypeOK, ForgetActivations
<1>10. UNCHANGED <<now, released>>
  BY DEF Redeem
<1> QED BY <1>3, <1>6, <1>7, <1>8, <1>9, <1>10 DEF TypeOK

LEMMA TransferTyped ==
    ASSUME TypeOK, NEW s \in Callers, NEW u \in Holders, NEW n \in Amounts,
           Transfer(s, u, n)
    PROVE  TypeOK'
<1>1. s \in Holders /\ n \in Nat /\ n <= balance[s]
  BY StakedTokenAssumption, HoldersFacts DEF Transfer
<1>2. /\ asset' \in AssetData
      /\ userIndex' \in [Holders -> Nat]
      /\ stakerRewardsToClaim' \in [Holders -> Nat]
  BY <1>1, SettledState DEF Transfer
<1>3. stakersCooldowns' \in [Holders -> Nat]
  <2>1. CASE s = u
    BY <2>1 DEF Transfer, TypeOK
  <2>2. CASE s # u
    <3>1. stakersCooldowns[s] \in Nat
      BY <1>1 DEF TypeOK
    <3>2. NextCooldown(stakersCooldowns[s], n, u) \in Nat
      BY <1>1, <2>2, <3>1, NextCooldownBounds DEF Transfer
    <3>3. CooldownAfterLeaving(s, n) \in Nat
      BY <3>1 DEF CooldownAfterLeaving
    <3> QED BY <2>2, <3>2, <3>3 DEF Transfer, TypeOK
  <2> QED BY <2>1, <2>2
<1>4. balance' \in [Holders -> Nat]
  BY <1>1, MoveTyped DEF Transfer, TypeOK
<1>5. activation' \in [Holders -> Nat]
  BY DEF Transfer, TypeOK, ForgetActivations
<1>6. refreshed' \in [Holders -> Nat]
  <2> DEFINE next == IF s = u THEN refreshed ELSE RefreshedByReceipt(u, n)
  <2>1. next \in [Holders -> Nat]
    BY <1>1, ReceiptTyped DEF TypeOK
  <2>2. ForgetActivations(next)
    BY DEF Transfer
  <2> HIDE DEF next
  <2> QED BY <2>1, <2>2 DEF ForgetActivations
<1> QED BY <1>2, <1>3, <1>4, <1>5, <1>6 DEF Transfer, TypeOK

LEMMA NextTyped == TypeOK /\ [Next]_vars => TypeOK'
<1> SUFFICES ASSUME TypeOK, [Next]_vars PROVE TypeOK'
  OBVIOUS
<1>1. ASSUME NEW s \in Callers, NEW u \in Holders, NEW n \in Amounts, Stake(s, u, n)
      PROVE  TypeOK'
  BY <1>1, StakeTyped
<1>2. ASSUME NEW s \in Callers, NEW u \in Holders, NEW n \in Amounts, Redeem(s, u, n)
      PROVE  TypeOK'
  BY <1>2, RedeemTyped
<1>3. ASSUME NEW s \in Callers, Cooldown(s)
      PROVE  TypeOK'
  BY <1>3 DEF Cooldown, TypeOK, accounts, rewards
<1>4. ASSUME NEW s \in Callers, NEW u \in Holders, NEW n \in Amounts,
             ClaimRewards(s, u, n)
      PROVE  TypeOK'
  BY <1>4, ClaimedState, StakedTokenAssumption, HoldersFacts
     DEF ClaimRewards, TypeOK, history
<1>5. ASSUME NEW s \in Callers, NEW u \in Holders, NEW n \in Amounts, Transfer(s, u, n)
      PROVE  TypeOK'
  BY <1>5, TransferTyped
<1>6. ASSUME NEW e \in Emissions, NEW err \in ReportErrors, ConfigureAssets(e, err)
      PROVE  TypeOK'
  <2>1. e \in Nat /\ err \in Int /\ totalSupply + err \in Nat
    BY <1>6, StakedTokenAssumption DEF ConfigureAssets, TypeOK
  <2>2. UpdateAssetState(asset, totalSupply + err, now) \in AssetData
    BY <1>6, <2>1, UpdatedAsset DEF ConfigureAssets, TypeOK
  <2>3. asset' \in AssetData
    BY <1>6, <2>1, <2>2 DEF ConfigureAssets, AssetData
  <2> QED BY <1>6, <2>3 DEF ConfigureAssets, TypeOK, accounts, history
<1>7. CASE AdvanceTime
  BY <1>7 DEF AdvanceTime, TypeOK, AssetData, accounts, rewards, history
<1>8. CASE UNCHANGED vars
  BY <1>8 DEF vars, TypeOK, accounts, rewards, history
<1> QED BY <1>1, <1>2, <1>3, <1>4, <1>5, <1>6, <1>7, <1>8 DEF Next

(* Every variable keeps its type, so no balance, supply or debt that a      *)
(* transaction computes is ever negative, whatever the callers pass.        *)
THEOREM TypeCorrect == Spec => []TypeOK
  BY InitTyped, NextTyped, PTL DEF Spec

-----------------------------------------------------------------------------
(* The inductive invariant: the indices are ordered, the cooldowns are       *)
(* backed by an activation, and the clock stays where a cooldown of 0 is     *)
(* long expired.                                                             *)

ClockStarted == now >= StartTime

IInv == TypeOK /\ IndicesOrdered /\ CooldownSinceActivation /\ ClockStarted

LEMMA InitInvariant == Init => IInv
<1> SUFFICES ASSUME Init PROVE IInv
  OBVIOUS
<1>1. TypeOK
  BY InitTyped
<1>2. IndicesOrdered
  BY StakedTokenAssumption DEF Init, IndicesOrdered, NoAsset
<1>3. CooldownSinceActivation
  BY DEF Init, CooldownSinceActivation
<1>4. ClockStarted
  BY StakedTokenAssumption DEF Init, ClockStarted
<1> QED BY <1>1, <1>2, <1>3, <1>4 DEF IInv

(* Indices: a transaction settles holders at the asset's new index, and that *)
(* index does not fall.                                                      *)
LEMMA SettleOrdered ==
    ASSUME TypeOK, IndicesOrdered, NEW users \in SUBSET Holders, users # {},
           Settle(users), now' = now
    PROVE  IndicesOrdered'
<1>1. /\ asset' \in AssetData
      /\ asset'.lastUpdateTimestamp = now
      /\ asset'.index >= asset.index
      /\ \A u \in Holders : userIndex'[u] \in {userIndex[u], asset'.index}
  BY SettledState
<1> QED BY <1>1 DEF IndicesOrdered, TypeOK, AssetData

LEMMA NextOrdered ==
    ASSUME TypeOK, IndicesOrdered, [Next]_vars
    PROVE  IndicesOrdered'
<1>1. ASSUME NEW s \in Callers, NEW u \in Holders, NEW n \in Amounts, Stake(s, u, n)
      PROVE  IndicesOrdered'
  BY <1>1, SettleOrdered DEF Stake
<1>2. ASSUME NEW s \in Callers, NEW u \in Holders, NEW n \in Amounts, Redeem(s, u, n)
      PROVE  IndicesOrdered'
  BY <1>2, SettleOrdered, HoldersFacts DEF Redeem
<1>3. ASSUME NEW s \in Callers, Cooldown(s)
      PROVE  IndicesOrdered'
  BY <1>3 DEF Cooldown, IndicesOrdered, rewards
<1>4. ASSUME NEW s \in Callers, NEW u \in Holders, NEW n \in Amounts,
             ClaimRewards(s, u, n)
      PROVE  IndicesOrdered'
  <2>1. s \in Holders /\ n \in Nat
    BY StakedTokenAssumption, HoldersFacts
  <2>2. /\ asset' \in AssetData
        /\ asset'.lastUpdateTimestamp = now
        /\ asset'.index >= asset.index
        /\ \A w \in Holders : userIndex'[w] \in {userIndex[w], asset'.index}
    BY <1>4, <2>1, ClaimedState
  <2> QED BY <1>4, <2>2 DEF ClaimRewards, IndicesOrdered, TypeOK, AssetData
<1>5. ASSUME NEW s \in Callers, NEW u \in Holders, NEW n \in Amounts, Transfer(s, u, n)
      PROVE  IndicesOrdered'
  BY <1>5, SettleOrdered, HoldersFacts DEF Transfer
<1>6. ASSUME NEW e \in Emissions, NEW err \in ReportErrors, ConfigureAssets(e, err)
      PROVE  IndicesOrdered'
  <2>1. totalSupply + err \in Nat
    BY <1>6, StakedTokenAssumption DEF ConfigureAssets, TypeOK
  <2> DEFINE updated == UpdateAssetState(asset, totalSupply + err, now)
  <2>2. /\ updated \in AssetData
        /\ updated.lastUpdateTimestamp = now
        /\ updated.index >= asset.index
    BY <1>6, <2>1, UpdatedAsset DEF ConfigureAssets, TypeOK
  <2>3. asset' = [updated EXCEPT !.emissionPerSecond = e]
    BY <1>6 DEF ConfigureAssets
  <2>4. UNCHANGED <<now, userIndex>>
    BY <1>6 DEF ConfigureAssets
  <2> HIDE DEF updated
  <2> QED BY <2>2, <2>3, <2>4 DEF IndicesOrdered, TypeOK, AssetData
<1>7. CASE AdvanceTime
  BY <1>7 DEF AdvanceTime, IndicesOrdered, TypeOK, AssetData, rewards
<1>8. CASE UNCHANGED vars
  BY <1>8 DEF vars, IndicesOrdered, rewards
<1> QED BY <1>1, <1>2, <1>3, <1>4, <1>5, <1>6, <1>7, <1>8 DEF Next

(* Cooldowns: only what a holder receives or gives away can disturb his.     *)
LEMMA StakeCooldowns ==
    ASSUME IInv, NEW s \in Callers, NEW u \in Holders, NEW n \in Amounts,
           Stake(s, u, n)
    PROVE  CooldownSinceActivation'
<1>1. n \in Nat /\ n # 0 /\ now \in Nat
  BY StakedTokenAssumption DEF Stake, IInv, TypeOK
<1>2. /\ UNCHANGED <<now, activation>>
      /\ stakersCooldowns' = [stakersCooldowns EXCEPT ![u] = NextCooldown(0, n, u)]
      /\ balance' = [balance EXCEPT ![u] = @ + n]
      /\ refreshed' = RefreshedByReceipt(u, n)
  BY DEF Stake
<1>3. NextCooldown(0, n, u) # 0 =>
        /\ stakersCooldowns[u] # 0
        /\ stakersCooldowns[u] <= NextCooldown(0, n, u)
        /\ stakersCooldowns[u] <= now => NextCooldown(0, n, u) <= now
  BY <1>1, NextCooldownBounds DEF Stake, IInv
<1>4. NextCooldown(0, n, u) \in Nat
  BY <1>1, NextCooldownBounds DEF Stake, IInv
<1>5. ASSUME NEW w \in Holders, stakersCooldowns'[w] # 0
      PROVE  /\ balance'[w] # 0 /\ activation'[w] # 0
             /\ activation'[w] <= stakersCooldowns'[w]
             /\ stakersCooldowns'[w] <= refreshed'[w] /\ refreshed'[w] <= now'
  <2>0. refreshed'[w] = IF w = u /\ activation[u] # 0 THEN now ELSE refreshed[w]
    BY <1>1, <1>2, ReceiptTyped DEF IInv
  <2>1. CASE w # u
    BY <1>2, <1>5, <2>0, <2>1 DEF IInv, TypeOK, CooldownSinceActivation
  <2>2. CASE w = u
    BY <1>1, <1>2, <1>3, <1>4, <1>5, <2>0, <2>2 DEF IInv, TypeOK, CooldownSinceActivation
  <2> QED BY <2>1, <2>2
<1> QED BY <1>5 DEF CooldownSinceActivation

LEMMA RedeemCooldowns ==
    ASSUME IInv, NEW s \in Callers, NEW u \in Holders, NEW n \in Amounts,
           Redeem(s, u, n)
    PROVE  CooldownSinceActivation'
<1> DEFINE m == AmountToRedeem(s, n)
<1>1. n \in Nat /\ s \in Holders
  BY StakedTokenAssumption, HoldersFacts
<1>2. m \in Nat /\ m <= balance[s]
  BY <1>1 DEF IInv, TypeOK, AmountToRedeem, Lesser
<1>3. /\ UNCHANGED now /\ ForgetActivations(refreshed)
      /\ stakersCooldowns' =
           [stakersCooldowns EXCEPT ![s] = CooldownAfterLeaving(s, m)]
      /\ balance' = [balance EXCEPT ![s] = @ - m]
  BY DEF Redeem
<1> HIDE DEF m
<1>4. ASSUME NEW w \in Holders, stakersCooldowns'[w] # 0
      PROVE  /\ balance'[w] # 0 /\ activation'[w] # 0
             /\ activation'[w] <= stakersCooldowns'[w]
             /\ stakersCooldowns'[w] <= refreshed'[w] /\ refreshed'[w] <= now'
  <2>1. stakersCooldowns'[w] = stakersCooldowns[w] /\ balance'[w] # 0
    <3>1. CASE w # s
      BY <1>3, <1>4, <3>1 DEF IInv, TypeOK, CooldownSinceActivation
    <3>2. CASE w = s
      BY <1>2, <1>3, <1>4, <3>2 DEF IInv, TypeOK, CooldownAfterLeaving
    <3> QED BY <3>1, <3>2
  <2>2. activation'[w] = activation[w] /\ refreshed'[w] = refreshed[w]
    BY <1>3, <2>1 DEF ForgetActivations
  <2> QED BY <1>3, <1>4, <2>1, <2>2 DEF IInv, CooldownSinceActivation
<1> QED BY <1>4 DEF CooldownSinceActivation

LEMMA TransferCooldowns ==
    ASSUME IInv, NEW s \in Callers, NEW u \in Holders, NEW n \in Amounts,
           Transfer(s, u, n)
    PROVE  CooldownSinceActivation'
<1> DEFINE next == NextCooldown(stakersCooldowns[s], n, u)
           receipt == IF s = u THEN refreshed ELSE RefreshedByReceipt(u, n)
<1>1. n \in Nat /\ s \in Holders /\ n <= balance[s] /\ stakersCooldowns[s] \in Nat
  BY StakedTokenAssumption, HoldersFacts DEF Transfer, IInv, TypeOK
<1>2. /\ UNCHANGED now /\ ForgetActivations(receipt)
      /\ balance' = Move(balance, s, u, n)
      /\ s = u => stakersCooldowns' = stakersCooldowns
      /\ s # u => stakersCooldowns' =
                    [stakersCooldowns EXCEPT ![u] = next,
                                             ![s] = CooldownAfterLeaving(s, n)]
  BY DEF Transfer
<1>3. ASSUME s # u, next # 0
      PROVE  /\ stakersCooldowns[u] # 0
             /\ stakersCooldowns[u] <= next /\ next <= now /\ next \in Nat
             /\ n = 0 => next = stakersCooldowns[u]
  <2>1. stakersCooldowns[s] <= now /\ stakersCooldowns[u] <= now
    BY <1>1 DEF IInv, TypeOK, CooldownSinceActivation
  <2> QED BY <1>1, <1>3, <2>1, NextCooldownBounds DEF Transfer, IInv
<1>4. /\ \A c \in Holders \ {s, u} : balance'[c] = balance[c]
      /\ balance'[u] >= balance[u] /\ balance' \in [Holders -> Nat]
      /\ s # u => balance'[s] = balance[s] - n
  BY <1>1, <1>2, MoveTyped DEF IInv, TypeOK
<1>6. \A c \in Holders : receipt[c] = IF c = u /\ s # u /\ n # 0 /\ activation[u] # 0
                                       THEN now ELSE refreshed[c]
  BY <1>1, ReceiptTyped DEF IInv
<1> HIDE DEF next, receipt
<1>5. ASSUME NEW w \in Holders, stakersCooldowns'[w] # 0
      PROVE  /\ balance'[w] # 0 /\ activation'[w] # 0
             /\ activation'[w] <= stakersCooldowns'[w]
             /\ stakersCooldowns'[w] <= refreshed'[w] /\ refreshed'[w] <= now'
  <2>1. CASE w = u /\ s # u
    <3>1. stakersCooldowns'[w] = next
      BY <1>2, <2>1 DEF IInv, TypeOK
    <3>2. balance[u] # 0 /\ activation[u] # 0 /\ activation[u] <= stakersCooldowns[u]
      BY <1>3, <1>5, <2>1, <3>1 DEF IInv, CooldownSinceActivation
    <3>3. balance'[u] # 0
      BY <1>4, <3>2 DEF IInv, TypeOK
    <3>4. activation'[u] = activation[u] /\ refreshed'[u] = receipt[u]
      BY <1>2, <3>3 DEF ForgetActivations
    <3>5. /\ stakersCooldowns[u] <= refreshed[u] /\ refreshed[u] <= now
          /\ now \in Nat /\ refreshed[u] \in Nat
      BY <1>3, <1>5, <2>1, <3>1 DEF IInv, TypeOK, CooldownSinceActivation
    <3>6. refreshed'[u] = IF n # 0 THEN now ELSE refreshed[u]
      BY <1>6, <2>1, <3>2, <3>4
    <3>7. next <= refreshed'[u] /\ refreshed'[u] <= now
      BY <1>3, <1>5, <2>1, <3>1, <3>5, <3>6
    <3> QED BY <1>2, <1>3, <1>5, <2>1, <3>1, <3>2, <3>3, <3>4, <3>7 DEF IInv, TypeOK
  <2>2. CASE ~(w = u /\ s # u)
    <3>1. stakersCooldowns'[w] = stakersCooldowns[w] /\ balance'[w] # 0
      <4>1. CASE w = s /\ s # u
        BY <1>1, <1>2, <1>4, <1>5, <4>1 DEF IInv, TypeOK, CooldownAfterLeaving
      <4>2. CASE s = u
        BY <1>1, <1>2, <1>4, <1>5, <4>2 DEF IInv, TypeOK, CooldownSinceActivation
      <4>3. CASE w # s /\ w # u
        BY <1>2, <1>4, <1>5, <4>3 DEF IInv, TypeOK, CooldownSinceActivation
      <4> QED BY <2>2, <4>1, <4>2, <4>3
    <3>2. activation'[w] = activation[w] /\ refreshed'[w] = refreshed[w]
      BY <1>2, <1>6, <2>2, <3>1 DEF ForgetActivations
    <3> QED BY <1>2, <1>5, <3>1, <3>2 DEF IInv, CooldownSinceActivation
  <2> QED BY <2>1, <2>2
<1> QED BY <1>5 DEF CooldownSinceActivation

LEMMA NextCooldowns ==
    ASSUME IInv, [Next]_vars
    PROVE  CooldownSinceActivation'
<1>1. ASSUME NEW s \in Callers, NEW u \in Holders, NEW n \in Amounts, Stake(s, u, n)
      PROVE  CooldownSinceActivation'
  BY <1>1, StakeCooldowns
<1>2. ASSUME NEW s \in Callers, NEW u \in Holders, NEW n \in Amounts, Redeem(s, u, n)
      PROVE  CooldownSinceActivation'
  BY <1>2, RedeemCooldowns
<1>3. ASSUME NEW s \in Callers, Cooldown(s)
      PROVE  CooldownSinceActivation'
  <2>1. now \in Nat /\ now # 0
    BY StakedTokenAssumption, ClockAssumption DEF IInv, TypeOK, ClockStarted
  <2> QED BY <1>3, <2>1, HoldersFacts
         DEF Cooldown, accounts, IInv, TypeOK, CooldownSinceActivation
<1>4. ASSUME NEW s \in Callers, NEW u \in Holders, NEW n \in Amounts,
             ClaimRewards(s, u, n)
      PROVE  CooldownSinceActivation'
  BY <1>4 DEF ClaimRewards, IInv, CooldownSinceActivation, history
<1>5. ASSUME NEW s \in Callers, NEW u \in Holders, NEW n \in Amounts, Transfer(s, u, n)
      PROVE  CooldownSinceActivation'
  BY <1>5, TransferCooldowns
<1>6. ASSUME NEW e \in Emissions, NEW err \in ReportErrors, ConfigureAssets(e, err)
      PROVE  CooldownSinceActivation'
  BY <1>6 DEF ConfigureAssets, accounts, IInv, CooldownSinceActivation, history
<1>7. CASE AdvanceTime
  BY <1>7 DEF AdvanceTime, accounts, IInv, TypeOK, CooldownSinceActivation, history
<1>8. CASE UNCHANGED vars
  BY <1>8 DEF vars, accounts, IInv, CooldownSinceActivation, history
<1> QED BY <1>1, <1>2, <1>3, <1>4, <1>5, <1>6, <1>7, <1>8 DEF Next

LEMMA NextInvariant == IInv /\ [Next]_vars => IInv'
<1> SUFFICES ASSUME IInv, [Next]_vars PROVE IInv'
  OBVIOUS
<1>1. TypeOK'
  BY NextTyped DEF IInv
<1>2. IndicesOrdered'
  BY NextOrdered DEF IInv
<1>3. CooldownSinceActivation'
  BY NextCooldowns
<1>4. now' = now \/ now' = now + 1
  BY DEF Next, Stake, Redeem, Cooldown, ClaimRewards, Transfer, ConfigureAssets,
         AdvanceTime, vars
<1>5. ClockStarted'
  BY <1>4, StakedTokenAssumption DEF IInv, TypeOK, ClockStarted
<1> QED BY <1>1, <1>2, <1>3, <1>5 DEF IInv

LEMMA Invariance == Spec => []IInv
  BY InitInvariant, NextInvariant, PTL DEF Spec

-----------------------------------------------------------------------------
(* The theorems *)

(* SafeMath never reverts in the reward arithmetic: no settled index runs    *)
(* ahead of the asset's, whatever total the emission manager reports.        *)
THEOREM IndicesStayOrdered == Spec => []IndicesOrdered
<1>1. IInv => IndicesOrdered
  BY DEF IInv
<1> QED BY <1>1, Invariance, PTL

(* A running cooldown belongs to a holder who has something staked and goes  *)
(* back no further than his own call of cooldown(), and reaches no further   *)
(* than what he last received since.                                         *)
THEOREM CooldownHasActivation == Spec => []CooldownSinceActivation
<1>1. IInv => CooldownSinceActivation
  BY DEF IInv
<1> QED BY <1>1, Invariance, PTL

(* Receiving stake or receipts never brings a holder's window closer.        *)
THEOREM NoShorterCooldown == Spec => ReceiptNeverShortensCooldown
<1> DEFINE Later(u) == \/ stakersCooldowns'[u] = 0
                       \/ stakersCooldowns'[u] >= stakersCooldowns[u]
<1>1. ASSUME IInv, [Next]_vars, NEW u \in Holders
      PROVE  Later(u)
  <2>0. stakersCooldowns[u] \in Nat
    BY <1>1 DEF IInv, TypeOK
  <2>1. ASSUME NEW s \in Callers, NEW v \in Holders, NEW n \in Amounts, Stake(s, v, n)
        PROVE  Later(u)
    <3>1. n \in Nat
      BY StakedTokenAssumption
    <3>2. \/ NextCooldown(0, n, v) = 0
          \/ NextCooldown(0, n, v) >= stakersCooldowns[v]
      BY <1>1, <2>1, <3>1, NextCooldownBounds DEF Stake, IInv, TypeOK
    <3> QED BY <1>1, <2>0, <2>1, <3>2 DEF Stake, IInv, TypeOK
  <2>2. ASSUME NEW s \in Callers, NEW v \in Holders, NEW n \in Amounts, Redeem(s, v, n)
        PROVE  Later(u)
    BY <1>1, <2>0, <2>2 DEF Redeem, CooldownAfterLeaving, IInv, TypeOK
  <2>3. ASSUME NEW s \in Callers, Cooldown(s)
        PROVE  Later(u)
    BY <1>1, <2>0, <2>3 DEF Cooldown, IInv, TypeOK, CooldownSinceActivation
  <2>4. ASSUME NEW s \in Callers, NEW v \in Holders, NEW n \in Amounts,
               ClaimRewards(s, v, n)
        PROVE  Later(u)
    BY <2>0, <2>4 DEF ClaimRewards
  <2>5. ASSUME NEW s \in Callers, NEW v \in Holders, NEW n \in Amounts, Transfer(s, v, n)
        PROVE  Later(u)
    <3> DEFINE next == NextCooldown(stakersCooldowns[s], n, v)
    <3>1. CASE s = v
      BY <2>0, <2>5, <3>1 DEF Transfer
    <3>2. CASE s # v
      <4>1. n \in Nat /\ s \in Holders /\ stakersCooldowns[s] \in Nat
        BY <1>1, StakedTokenAssumption, HoldersFacts DEF IInv, TypeOK
      <4>2. next = 0 \/ next >= stakersCooldowns[v]
        BY <1>1, <2>5, <3>2, <4>1, NextCooldownBounds DEF Transfer, IInv, TypeOK
      <4>3. stakersCooldowns' =
              [stakersCooldowns EXCEPT ![v] = next, ![s] = CooldownAfterLeaving(s, n)]
        BY <2>5, <3>2 DEF Transfer
      <4> HIDE DEF next
      <4> QED BY <1>1, <2>0, <3>2, <4>1, <4>2, <4>3
              DEF CooldownAfterLeaving, IInv, TypeOK
    <3> QED BY <3>1, <3>2
  <2>6. ASSUME NEW e \in Emissions, NEW err \in ReportErrors, ConfigureAssets(e, err)
        PROVE  Later(u)
    BY <2>0, <2>6 DEF ConfigureAssets
  <2>7. CASE AdvanceTime
    BY <2>0, <2>7 DEF AdvanceTime
  <2>8. CASE UNCHANGED vars
    BY <2>0, <2>8 DEF vars
  <2> QED BY <1>1, <2>1, <2>2, <2>3, <2>4, <2>5, <2>6, <2>7, <2>8 DEF Next
<1>2. IInv /\ [Next]_vars => [\A u \in Holders : Later(u)]_vars
  BY <1>1
<1> QED BY <1>2, Invariance, PTL DEF Spec, ReceiptNeverShortensCooldown

(* Stake leaves only from a holder who called cooldown() more than           *)
(* COOLDOWN_SECONDS before, since he last had nothing staked, and only until *)
(* the window of that call, or of what he last received since, is over.      *)
THEOREM ExitInOwnWindow == Spec => ExitOnlyInOwnWindow
<1> DEFINE Cooled(u) == /\ activation[u] # 0
                        /\ now > activation[u] + COOLDOWN_SECONDS
                        /\ now <= refreshed[u] + COOLDOWN_SECONDS + UNSTAKE_WINDOW
           ExitsCooled == totalSupply' < totalSupply =>
                            \A u \in Holders : balance'[u] < balance[u] => Cooled(u)
<1>1. ASSUME IInv, [Next]_vars, totalSupply' < totalSupply,
             NEW u \in Holders, balance'[u] < balance[u]
      PROVE  Cooled(u)
  <2>1. PICK s \in Callers, v \in Holders, n \in Amounts : Redeem(s, v, n)
    <3>1. totalSupply \in Nat
      BY <1>1 DEF IInv, TypeOK
    <3>2. ASSUME NEW s \in Callers, NEW v \in Holders, NEW n \in Amounts, Stake(s, v, n)
          PROVE  FALSE
      BY <1>1, <3>1, <3>2, StakedTokenAssumption DEF Stake
    <3>3. ASSUME totalSupply' = totalSupply
          PROVE  FALSE
      BY <1>1, <3>1, <3>3
    <3>4. ASSUME NEW s \in Callers, NEW v \in Holders, NEW n \in Amounts,
                 ClaimRewards(s, v, n) \/ Transfer(s, v, n)
          PROVE  FALSE
      BY <3>3, <3>4 DEF ClaimRewards, Transfer
    <3>5. ASSUME NEW s \in Callers, Cooldown(s)
          PROVE  FALSE
      BY <3>3, <3>5 DEF Cooldown, accounts
    <3>6. ASSUME NEW e \in Emissions, NEW err \in ReportErrors, ConfigureAssets(e, err)
          PROVE  FALSE
      BY <3>3, <3>6 DEF ConfigureAssets, accounts
    <3>7. ASSUME AdvanceTime \/ UNCHANGED vars
          PROVE  FALSE
      BY <3>3, <3>7 DEF AdvanceTime, vars, accounts
    <3> QED BY <1>1, <3>2, <3>4, <3>5, <3>6, <3>7 DEF Next
  <2>2. u = s
    BY <1>1, <2>1 DEF Redeem, IInv, TypeOK
  <2>3. WindowOpen(u)
    BY <2>1, <2>2 DEF Redeem
  <2>4. stakersCooldowns[u] # 0
    BY <1>1, <2>3, StakedTokenAssumption, ClockAssumption
       DEF WindowOpen, IInv, TypeOK, ClockStarted
  <2>5. /\ activation[u] # 0 /\ activation[u] <= stakersCooldowns[u]
        /\ stakersCooldowns[u] <= refreshed[u]
    BY <1>1, <2>4 DEF IInv, CooldownSinceActivation
  <2> QED BY <1>1, <2>3, <2>5, StakedTokenAssumption DEF WindowOpen, IInv, TypeOK
<1>2. IInv /\ [Next]_vars => [ExitsCooled]_vars
  BY <1>1
<1> QED BY <1>2, Invariance, PTL DEF Spec, ExitOnlyInOwnWindow

-----------------------------------------------------------------------------
(* What a holder is owed *)

LEMMA SettledFields ==
    ASSUME TypeOK
    PROVE  /\ settled.lastUpdateTimestamp = now
           /\ settled.index = GetAssetIndex(asset, totalSupply, now)
  BY DEF TypeOK, AssetData, settled, UpdateAssetState

(* Settling keeps every debt: of who is settled, whatever happens to his     *)
(* balance, and of everybody else, whose balance the transaction leaves.     *)
LEMMA SettleKeepsOwed ==
    ASSUME TypeOK, TypeOK', NEW users \in SUBSET Holders, users # {}, Settle(users),
           now' = now, \A u \in Holders \ users : balance'[u] = balance[u]
    PROVE  \A u \in Holders : Owed(u)' = Owed(u)
<1> TAKE u \in Holders
<1>1. asset' = settled
  BY DEF Settle
<1>2. GetAssetIndex(asset', totalSupply', now') = settled.index
  BY <1>1, SettledFields, UpdatedIsIdle
<1>3. settled.index = GetAssetIndex(asset, totalSupply, now)
  BY SettledFields
<1>4. settled.index \in Nat
  BY <1>1 DEF TypeOK, AssetData
<1>5. CASE u \in users
  <2>1. /\ userIndex'[u] = settled.index
        /\ stakerRewardsToClaim'[u] = stakerRewardsToClaim[u] + Accrued(u)
    BY <1>5 DEF Settle
  <2>2. GetRewards(balance'[u], settled.index, userIndex'[u]) = 0
    BY <1>4, <2>1, NoRewardsSinceSettled DEF TypeOK
  <2>3. Accrued(u) = GetRewards(balance[u], settled.index, userIndex[u])
    BY <1>4, AccruedIsRewards DEF Accrued, TypeOK
  <2>4. Owed(u)' = stakerRewardsToClaim'[u] + 0
    BY <1>2, <2>2 DEF Owed
  <2> QED BY <1>3, <2>1, <2>3, <2>4 DEF Owed, TypeOK
<1>6. CASE u \notin users
  <2>1. /\ userIndex'[u] = userIndex[u]
        /\ stakerRewardsToClaim'[u] = stakerRewardsToClaim[u]
        /\ balance'[u] = balance[u]
    BY <1>6 DEF Settle
  <2> QED BY <1>2, <1>3, <2>1 DEF Owed
<1> QED BY <1>5, <1>6

LEMMA ClaimPaysOwed ==
    ASSUME TypeOK, TypeOK', NEW s \in Holders, NEW v \in Holders, NEW n \in Nat,
           ClaimRewards(s, v, n)
    PROVE  /\ Owed(s) - Owed(s)' = token[Vault] - token'[Vault]
           /\ \A u \in Holders \ {s} : Owed(u)' = Owed(u)
<1> DEFINE total == stakerRewardsToClaim[s] + Accrued(s)
           paid  == IF n = MAX_UINT THEN total ELSE n
<1>1. /\ asset' = settled
      /\ userIndex' = [userIndex EXCEPT ![s] = settled.index]
      /\ stakerRewardsToClaim' = [stakerRewardsToClaim EXCEPT ![s] = total - paid]
      /\ token' = Move(token, Vault, v, paid)
      /\ UNCHANGED <<now, balance, totalSupply>>
      /\ CanAccrue(balance[s], settled.index, userIndex[s])
  BY DEF ClaimRewards, CanSettle
<1>2. settled.index \in Nat
  BY <1>1 DEF TypeOK, AssetData
<1>3. /\ GetAssetIndex(asset', totalSupply', now') = settled.index
      /\ settled.index = GetAssetIndex(asset, totalSupply, now)
  BY <1>1, SettledFields, UpdatedIsIdle
<1>4. total = Owed(s) /\ total \in Nat /\ paid \in Nat
  <2>1. Accrued(s) = GetRewards(balance[s], settled.index, userIndex[s])
    BY <1>2, AccruedIsRewards DEF Accrued, TypeOK
  <2>2. Accrued(s) \in Nat
    BY <1>1, <1>2, AccruedNat DEF Accrued, TypeOK
  <2> QED BY <1>3, <2>1, <2>2 DEF Owed, TypeOK
<1> HIDE DEF total, paid
<1>5. Owed(s)' = total - paid
  <2>1. userIndex'[s] = settled.index /\ stakerRewardsToClaim'[s] = total - paid
    BY <1>1 DEF TypeOK
  <2>2. GetRewards(balance'[s], settled.index, userIndex'[s]) = 0
    BY <1>1, <1>2, <2>1, NoRewardsSinceSettled DEF TypeOK
  <2> QED BY <1>3, <1>4, <2>1, <2>2 DEF Owed
<1>6. token'[Vault] = token[Vault] - paid
  BY <1>1, <1>4, HoldersFacts DEF Move, TypeOK
<1>7. \A u \in Holders \ {s} : Owed(u)' = Owed(u)
  BY <1>1, <1>3 DEF Owed, TypeOK
<1>8. token[Vault] \in Nat
  BY HoldersFacts DEF TypeOK
<1> QED BY <1>4, <1>5, <1>6, <1>7, <1>8

LEMMA ConfigureKeepsOwed ==
    ASSUME TypeOK, NEW e, ConfigureAssets(e, 0)
    PROVE  \A u \in Holders : Owed(u)' = Owed(u)
<1>1. totalSupply + 0 = totalSupply
  BY DEF TypeOK
<1>2. asset' = [settled EXCEPT !.emissionPerSecond = e]
  BY <1>1 DEF ConfigureAssets, settled
<1>3. asset'.lastUpdateTimestamp = now /\ asset'.index = settled.index
  BY <1>2, SettledFields DEF settled, UpdateAssetState, TypeOK, AssetData
<1>4. /\ UNCHANGED <<now, balance, totalSupply, userIndex, stakerRewardsToClaim>>
  BY DEF ConfigureAssets, accounts
<1>5. GetAssetIndex(asset', totalSupply', now') = GetAssetIndex(asset, totalSupply, now)
  BY <1>3, <1>4, SettledFields, UpdatedIsIdle
<1> QED BY <1>4, <1>5 DEF Owed

(* Apart from claims, no call changes what anybody is owed, if the emission  *)
(* manager's reports are exact.                                              *)
LEMMA CallsKeepOwed ==
    ASSUME ReportErrors = {0}, IInv, [Next]_vars, now' = now,
           ~\E s \in Callers, v \in Holders, n \in Amounts : ClaimRewards(s, v, n)
    PROVE  \A u \in Holders : Owed(u)' = Owed(u)
<1> DEFINE Same == \A u \in Holders : Owed(u)' = Owed(u)
<1>0. TypeOK /\ TypeOK'
  BY NextTyped DEF IInv
<1>1. ASSUME NEW s \in Callers, NEW v \in Holders, NEW n \in Amounts, Stake(s, v, n)
      PROVE  Same
  <2>1. \A u \in Holders \ {v} : balance'[u] = balance[u]
    BY <1>0, <1>1 DEF Stake, TypeOK
  <2> QED BY <1>0, <1>1, <2>1, SettleKeepsOwed DEF Stake
<1>2. ASSUME NEW s \in Callers, NEW v \in Holders, NEW n \in Amounts, Redeem(s, v, n)
      PROVE  Same
  <2>1. \A u \in Holders \ {s} : balance'[u] = balance[u]
    BY <1>0, <1>2 DEF Redeem, TypeOK
  <2> QED BY <1>0, <1>2, <2>1, HoldersFacts, SettleKeepsOwed DEF Redeem
<1>3. ASSUME NEW s \in Callers, Cooldown(s)
      PROVE  Same
  BY <1>3 DEF Cooldown, accounts, rewards, Owed
<1>4. ASSUME NEW s \in Callers, NEW v \in Holders, NEW n \in Amounts, Transfer(s, v, n)
      PROVE  Same
  <2>1. s \in Holders /\ n \in Nat /\ n <= balance[s] /\ balance' = Move(balance, s, v, n)
    BY <1>4, HoldersFacts, StakedTokenAssumption DEF Transfer
  <2>2. balance \in [Holders -> Nat]
    BY <1>0 DEF TypeOK
  <2>3. \A u \in Holders \ {s, v} : balance'[u] = balance[u]
    BY <2>1, <2>2, MoveTyped
  <2> QED BY <1>0, <1>4, <2>1, <2>3, SettleKeepsOwed DEF Transfer
<1>5. ASSUME NEW e \in Emissions, NEW err \in ReportErrors, ConfigureAssets(e, err)
      PROVE  Same
  BY <1>0, <1>5, ConfigureKeepsOwed
<1>6. CASE AdvanceTime
  BY <1>0, <1>6 DEF AdvanceTime, TypeOK
<1>7. CASE UNCHANGED vars
  BY <1>7 DEF vars, accounts, rewards, Owed
<1> QED BY <1>1, <1>2, <1>3, <1>4, <1>5, <1>6, <1>7 DEF Next

(* No call moves rewards from one holder to another or makes or loses any:   *)
(* only time adds to what a holder is owed and only a claim, paid in full by *)
(* the vault, takes from it.  The emission manager's reports are exact.      *)
THEOREM CallsKeepRewards == ReportErrors = {0} => (Spec => CallsMoveNoRewards)
<1> SUFFICES ASSUME ReportErrors = {0} PROVE Spec => CallsMoveNoRewards
  OBVIOUS
<1> DEFINE Same == \A u \in Holders : Owed(u)' = Owed(u)
           Paid == \E u \in Callers :
                     /\ Owed(u) - Owed(u)' = token[Vault] - token'[Vault]
                     /\ \A v \in Holders \ {u} : Owed(v)' = Owed(v)
<1>1. ASSUME IInv, [Next]_vars, now' = now
      PROVE  Same \/ Paid
  <2>1. TypeOK /\ TypeOK'
    BY <1>1, NextTyped DEF IInv
  <2>2. ASSUME NEW s \in Callers, NEW v \in Holders, NEW n \in Amounts,
               ClaimRewards(s, v, n)
        PROVE  Paid
    BY <2>1, <2>2, ClaimPaysOwed, HoldersFacts, StakedTokenAssumption
  <2>3. CASE ~\E s \in Callers, v \in Holders, n \in Amounts : ClaimRewards(s, v, n)
    BY <1>1, <2>3, CallsKeepOwed
  <2> QED BY <2>2, <2>3
<1>2. IInv /\ [Next]_vars => [now' = now => Same \/ Paid]_vars
  BY <1>1
<1> QED BY <1>2, Invariance, PTL DEF Spec, CallsMoveNoRewards

LEMMA AccountsFinite ==
    /\ IsFiniteSet(Holders)
    /\ IsFiniteSet(Holders \cup {Vault})
<1>1. IsFiniteSet(Holders)
  BY AccountsAssumption, FS_AddElement DEF Holders
<1> QED BY <1>1, FS_AddElement

-----------------------------------------------------------------------------
(* Receipts and the tokens behind them                                       *)

(* Moving what the sender has keeps the sum of a ledger.                     *)
LEMMA MoveKeepsSum ==
    ASSUME NEW S, IsFiniteSet(S), NEW ledger \in [S -> Nat], NEW a \in S, NEW b \in S,
           NEW n \in Nat, n <= ledger[a]
    PROVE  SumFunction(Move(ledger, a, b, n)) = SumFunction(ledger)
<1> DEFINE less  == [ledger EXCEPT ![a] = @ - n]
           moved == Move(ledger, a, b, n)
<1>1. /\ less \in [S -> Nat]
      /\ less[a] = ledger[a] - n
      /\ \A x \in S \ {a} : less[x] = ledger[x]
  OBVIOUS
<1>2. /\ moved \in [S -> Nat]
      /\ moved[b] = less[b] + n
      /\ \A x \in S \ {b} : moved[x] = less[x]
  BY DEF Move
<1>3. \A x \in S : ledger[x] \in Int /\ less[x] \in Int /\ moved[x] \in Int
  BY <1>1, <1>2
<1> HIDE DEF less, moved
<1>4. SumFunctionOnSet(less, S) = SumFunctionOnSet(ledger, S) - ledger[a] + less[a]
  BY <1>1, <1>3, SumChange
<1>5. SumFunctionOnSet(moved, S) = SumFunctionOnSet(less, S) - less[b] + moved[b]
  BY <1>2, <1>3, SumChange
<1>6. SumFunctionOnSet(ledger, S) \in Int
  BY <1>3, SumInt
<1>7. SumFunctionOnSet(moved, S) = SumFunctionOnSet(ledger, S)
  BY <1>1, <1>2, <1>3, <1>4, <1>5, <1>6
<1> QED BY <1>2, <1>7 DEF SumFunction, moved

(* Crediting or debiting one holder changes the sum by that much.            *)
LEMMA CreditChangesSum ==
    ASSUME NEW S, IsFiniteSet(S), NEW ledger \in [S -> Nat], NEW new \in [S -> Nat],
           NEW a \in S, \A x \in S \ {a} : new[x] = ledger[x]
    PROVE  SumFunction(new) = SumFunction(ledger) - ledger[a] + new[a]
<1>1. \A x \in S : ledger[x] \in Int /\ new[x] \in Int
  OBVIOUS
<1>2. SumFunctionOnSet(new, S) = SumFunctionOnSet(ledger, S) - ledger[a] + new[a]
  BY <1>1, SumChange
<1> QED BY <1>2 DEF SumFunction

(* What a transfer of the staked token between two accounts does.            *)
LEMMA TokenMoved ==
    ASSUME TypeOK, NEW a \in Holders \cup {Vault}, NEW b \in Holders \cup {Vault},
           NEW n \in Nat, n <= token[a], token' = Move(token, a, b, n)
    PROVE  /\ token' \in [Holders \cup {Vault} -> Nat]
           /\ a # This => token'[This] = token[This] + IF b = This THEN n ELSE 0
           /\ a = This => token'[This] = token[This] - IF b = This THEN 0 ELSE n
           /\ b # Vault => token'[Vault] = token[Vault] - IF a = Vault THEN n ELSE 0
<1>1. /\ token \in [Holders \cup {Vault} -> Nat]
      /\ This \in Holders \cup {Vault} /\ Vault \in Holders \cup {Vault} /\ This # Vault
  BY HoldersFacts DEF TypeOK
<1>2. token' \in [Holders \cup {Vault} -> Nat]
  BY <1>1, MoveTyped
<1>3. \A c \in Holders \cup {Vault} : token[c] \in Nat /\ token'[c] \in Nat
  BY <1>1, <1>2
<1>4. \A c \in Holders \cup {Vault} : token'[c] =
        (IF c = a THEN token[c] - n ELSE token[c]) + IF c = b THEN n ELSE 0
  BY <1>1 DEF Move
<1> QED BY <1>1, <1>2, <1>3, <1>4

(* What a claim pays: as much as was asked for, of what is stored and        *)
(* accrued, if the vault has it.                                             *)
Claimed(s, n) == IF n = MAX_UINT THEN stakerRewardsToClaim[s] + Accrued(s) ELSE n

LEMMA ClaimMoves ==
    ASSUME TypeOK, NEW s \in Callers, NEW v \in Holders, NEW n \in Amounts,
           ClaimRewards(s, v, n)
    PROVE  /\ Accrued(s) \in Nat
           /\ CanSettle(s)
           /\ Claimed(s, n) \in Nat
           /\ Claimed(s, n) <= token[Vault]
           /\ Claimed(s, n) <= stakerRewardsToClaim[s] + Accrued(s)
           /\ token' = Move(token, Vault, v, Claimed(s, n))
           /\ stakerRewardsToClaim' = [stakerRewardsToClaim EXCEPT
                ![s] = (stakerRewardsToClaim[s] + Accrued(s)) - Claimed(s, n)]
           /\ asset' = settled
           /\ userIndex' = [userIndex EXCEPT ![s] = settled.index]
           /\ UNCHANGED <<now, balance, totalSupply, released>>
<1>1. /\ CanSettle(s) /\ s \in Holders /\ n \in Nat
      /\ Claimed(s, n) <= stakerRewardsToClaim[s] + Accrued(s)
      /\ Claimed(s, n) <= token[Vault]
      /\ token' = Move(token, Vault, v, Claimed(s, n))
  BY StakedTokenAssumption, HoldersFacts DEF ClaimRewards, Claimed
<1>5. stakerRewardsToClaim' = [stakerRewardsToClaim EXCEPT
         ![s] = (stakerRewardsToClaim[s] + Accrued(s)) - Claimed(s, n)]
  BY DEF ClaimRewards, Claimed
<1>2. settled \in AssetData
  BY <1>1, UpdatedAsset DEF TypeOK, CanSettle, settled
<1>3. Accrued(s) \in Nat
  BY <1>1, <1>2, AccruedNat DEF TypeOK, CanSettle, Accrued, AssetData
<1>4. Claimed(s, n) \in Nat
  BY <1>1, <1>3 DEF TypeOK, Claimed
<1> QED BY <1>1, <1>3, <1>4, <1>5 DEF ClaimRewards

LEMMA BackedInit == Init => ReceiptsBacked
<1> SUFFICES ASSUME Init PROVE ReceiptsBacked
  OBVIOUS
<1> DEFINE zero == [u \in Holders |-> 0]
<1>1. balance = zero /\ totalSupply = 0
  BY DEF Init
<1>2. SumFunctionOnSet(zero, Holders) = 0 * SumFunctionOnSet(zero, Holders)
  BY AccountsFinite, SumScales
<1>3. SumFunctionOnSet(zero, Holders) \in Int
  BY AccountsFinite, SumInt
<1>4. SumFunction(balance) = 0
  BY <1>1, <1>2, <1>3 DEF SumFunction
<1>5. token[This] = 0
  BY HoldersFacts DEF Init
<1> QED BY <1>1, <1>4, <1>5 DEF ReceiptsBacked

LEMMA BackedStep ==
    ASSUME TypeOK, ReceiptsBacked, [Next]_vars
    PROVE  ReceiptsBacked'
<1>0. token \in [Holders \cup {Vault} -> Nat] /\ This \in Holders \cup {Vault}
  BY HoldersFacts DEF TypeOK
<1>1. /\ balance \in [Holders -> Nat] /\ totalSupply \in Nat /\ token[This] \in Nat
      /\ SumFunction(balance) = totalSupply /\ token[This] >= totalSupply
  BY HoldersFacts DEF TypeOK, ReceiptsBacked
<1>2. ASSUME NEW s \in Callers, NEW u \in Holders, NEW n \in Amounts, Stake(s, u, n)
      PROVE  ReceiptsBacked'
  <2>1. /\ n \in Nat /\ s \in Holders \cup {Vault} /\ s # This /\ n <= token[s]
        /\ balance' = [balance EXCEPT ![u] = @ + n]
        /\ totalSupply' = totalSupply + n
        /\ token' = Move(token, s, This, n)
    BY <1>2, StakedTokenAssumption, HoldersFacts DEF Stake
  <2>2. SumFunction(balance') = SumFunction(balance) + n
    <3>1. /\ balance' \in [Holders -> Nat] /\ balance[u] \in Nat
          /\ balance'[u] = balance[u] + n
          /\ \A x \in Holders \ {u} : balance'[x] = balance[x]
      BY <1>1, <2>1
    <3>2. SumFunction(balance') = SumFunction(balance) - balance[u] + balance'[u]
      BY <1>1, <3>1, AccountsFinite, CreditChangesSum
    <3> QED BY <1>1, <2>1, <3>1, <3>2
  <2>3. token'[This] = token[This] + n
    BY <1>0, <2>1, TokenMoved
  <2> QED BY <1>1, <2>1, <2>2, <2>3 DEF ReceiptsBacked
<1>3. ASSUME NEW s \in Callers, NEW u \in Holders, NEW n \in Amounts, Redeem(s, u, n)
      PROVE  ReceiptsBacked'
  <2> DEFINE m == AmountToRedeem(s, n)
  <2>1. s \in Holders /\ n \in Nat /\ balance[s] \in Nat
    BY <1>1, StakedTokenAssumption, HoldersFacts
  <2>2. /\ m \in Nat /\ m <= balance[s] /\ m <= token[This] /\ m <= totalSupply
        /\ balance' = [balance EXCEPT ![s] = @ - m]
        /\ totalSupply' = totalSupply - m
        /\ token' = Move(token, This, u, m)
    BY <1>1, <1>3, <2>1 DEF Redeem, AmountToRedeem, Lesser
  <2> HIDE DEF m
  <2>4. SumFunction(balance') = SumFunction(balance) - m
    <3>1. /\ balance' \in [Holders -> Nat]
          /\ balance'[s] = balance[s] - m
          /\ \A x \in Holders \ {s} : balance'[x] = balance[x]
      BY <1>1, <2>1, <2>2
    <3>2. SumFunction(balance') = SumFunction(balance) - balance[s] + balance'[s]
      BY <1>1, <2>1, <3>1, AccountsFinite, CreditChangesSum
    <3> QED BY <1>1, <2>1, <2>2, <3>1, <3>2
  <2>5. token'[This] >= token[This] - m
    BY <1>0, <1>1, <2>2, HoldersFacts, TokenMoved
  <2>6. token'[This] \in Nat
    BY <1>0, <1>1, <2>2, HoldersFacts, TokenMoved
  <2> QED BY <1>1, <2>2, <2>4, <2>5, <2>6 DEF ReceiptsBacked
<1>4. ASSUME NEW s \in Callers, NEW u \in Holders, NEW n \in Amounts,
             ClaimRewards(s, u, n)
      PROVE  ReceiptsBacked'
  <2> DEFINE m == Claimed(s, n)
  <2>1. m \in Nat /\ m <= token[Vault] /\ token' = Move(token, Vault, u, m)
    BY <1>4, ClaimMoves
  <2> HIDE DEF m
  <2>2. UNCHANGED <<balance, totalSupply>>
    BY <1>4, ClaimMoves
  <2>3. token' \in [Holders \cup {Vault} -> Nat] /\ token'[This] >= token[This]
    BY <1>0, <1>1, <2>1, HoldersFacts, TokenMoved
  <2>4. token'[This] \in Nat
    BY <2>3, HoldersFacts
  <2> QED BY <1>1, <2>2, <2>3, <2>4 DEF ReceiptsBacked
<1>5. ASSUME NEW s \in Callers, NEW u \in Holders, NEW n \in Amounts, Transfer(s, u, n)
      PROVE  ReceiptsBacked'
  <2>1. /\ s \in Holders /\ n \in Nat /\ n <= balance[s]
        /\ balance' = Move(balance, s, u, n)
        /\ UNCHANGED <<token, totalSupply>>
    BY <1>5, StakedTokenAssumption, HoldersFacts DEF Transfer
  <2>2. SumFunction(balance') = SumFunction(balance)
    BY <1>1, <2>1, AccountsFinite, MoveKeepsSum
  <2> QED BY <1>1, <2>1, <2>2 DEF ReceiptsBacked
<1>6. ASSUME UNCHANGED accounts
      PROVE  ReceiptsBacked'
  BY <1>1, <1>6 DEF accounts, ReceiptsBacked
<1>7. ASSUME NEW s \in Callers, Cooldown(s)
      PROVE  ReceiptsBacked'
  BY <1>6, <1>7 DEF Cooldown
<1>8. ASSUME NEW e \in Emissions, NEW err \in ReportErrors, ConfigureAssets(e, err)
      PROVE  ReceiptsBacked'
  BY <1>6, <1>8 DEF ConfigureAssets
<1>9. CASE AdvanceTime \/ UNCHANGED vars
  BY <1>6, <1>9 DEF AdvanceTime, vars
<1> QED BY <1>2, <1>3, <1>4, <1>5, <1>7, <1>8, <1>9 DEF Next

(* ReceiptsBacked for any holders and amounts: the receipts add up to        *)
(* totalSupply, and the contract always holds a staked token for each, so    *)
(* that redeem never fails for want of tokens.                               *)
THEOREM ReceiptsAreBacked == Spec => []ReceiptsBacked
<1>1. IInv /\ ReceiptsBacked /\ [Next]_vars => ReceiptsBacked'
  BY BackedStep DEF IInv
<1> QED BY <1>1, BackedInit, Invariance, PTL DEF Spec

(* What redeem of the whole balance checks and subtracts, and what a         *)
(* transfer of it does: the guard of the window passes in each of its        *)
(* seconds, the clipped amount is the balance, supply and tokens suffice,    *)
(* the rewards of every party can be settled, the receiver's cooldown be     *)
(* averaged.                                                                 *)
StakeCovered ==
    \A u \in Callers : balance[u] # 0 =>
        /\ MayLeave(u) => WindowOpen(u)
        /\ AmountToRedeem(u, balance[u]) = balance[u]
        /\ balance[u] <= totalSupply /\ balance[u] <= token[This]
        /\ \A v \in Holders : CanSettle(v) /\ CanAverage(balance[u], v)

(* StakeNeverLocked without ENABLED, for any holders, amounts and reports:   *)
(* of all that could make redeem revert only the window is ever closed, from *)
(* its first second to its last it is not, and a transfer of what one has    *)
(* never reverts.                                                            *)
THEOREM StakeStaysCovered == Spec => []StakeCovered
<1>1. IInv /\ ReceiptsBacked => StakeCovered
  <2> SUFFICES ASSUME TypeOK, IndicesOrdered, ReceiptsBacked,
                      NEW u \in Callers, balance[u] # 0
               PROVE  /\ MayLeave(u) => WindowOpen(u)
                      /\ AmountToRedeem(u, balance[u]) = balance[u]
                      /\ balance[u] <= totalSupply /\ balance[u] <= token[This]
                      /\ \A v \in Holders : CanSettle(v) /\ CanAverage(balance[u], v)
    BY DEF IInv, StakeCovered
  <2>1. /\ u \in Holders /\ balance \in [Holders -> Nat] /\ token[This] \in Nat
        /\ totalSupply \in Nat /\ asset \in AssetData /\ now \in Nat
        /\ userIndex \in [Holders -> Nat]
    BY HoldersFacts DEF TypeOK
  <2>2. balance[u] <= totalSupply
    <3>1. balance[u] <= SumFunctionOnSet(balance, Holders)
      BY <2>1, AccountsFinite, SumNat
    <3> QED BY <2>1, <3>1 DEF ReceiptsBacked, SumFunction
  <2>3. balance[u] <= token[This]
    BY <2>1, <2>2 DEF ReceiptsBacked
  <2>4. AmountToRedeem(u, balance[u]) = balance[u]
    BY <2>1 DEF AmountToRedeem, Lesser
  <2>5. CanUpdate(asset, totalSupply, now)
    <3>1. asset.lastUpdateTimestamp \in Nat /\ asset.lastUpdateTimestamp <= now
      BY <2>1 DEF IndicesOrdered, AssetData
    <3> QED BY <2>1, <3>1, DistributionAssumption DEF CanUpdate, Idle, TimeDelta, Lesser
  <2>6. asset.index \in Nat /\ settled.index \in Nat /\ settled.index >= asset.index
    BY <2>1, <2>5, UpdatedAsset DEF settled, AssetData
  <2>7. ASSUME NEW v \in Holders PROVE CanSettle(v) /\ CanAverage(balance[u], v)
    <3>1. userIndex[v] <= settled.index
      BY <2>1, <2>6 DEF IndicesOrdered
    <3>2. balance[u] + balance[v] # 0
      BY <2>1
    <3> QED BY <2>5, <3>1, <3>2 DEF CanSettle, CanAccrue, CanAverage
  <2>8. MayLeave(u) => WindowOpen(u)
    <3>1. stakersCooldowns[u] \in Nat
      BY <2>1 DEF TypeOK
    <3> QED BY <2>1, <3>1, StakedTokenAssumption DEF MayLeave, WindowOpen
  <2> QED BY <2>2, <2>3, <2>4, <2>7, <2>8
<1>2. IInv /\ ReceiptsBacked /\ [Next]_vars => ReceiptsBacked'
  BY BackedStep DEF IInv
<1> QED BY <1>1, <1>2, BackedInit, Invariance, PTL DEF Spec

-----------------------------------------------------------------------------
(* Rewards: what is paid and owed comes out of what was released             *)

Pending == Accrual(asset, totalSupply, now)

(* What a holder is owed up to the last update, before rounding, in UNITs.   *)
Weight(u) == UNIT * stakerRewardsToClaim[u] + balance[u] * (asset.index - userIndex[u])

Debt == SumFunction([u \in Holders |-> Weight(u)])

(* How much the index grows when the asset is updated now.                   *)
Growth == settled.index - asset.index

(* The inductive invariant: the debts stand for what was released up to the  *)
(* last update and not yet paid, whatever is pending stands for the rest.    *)
DebtWithinEmission == UNIT * PaidOut + Debt + UNIT * Pending <= UNIT * released

RInv == IInv /\ ReceiptsBacked

LEMMA WeightInt ==
    ASSUME TypeOK, NEW u \in Holders
    PROVE  Weight(u) \in Int
<1>1. /\ stakerRewardsToClaim[u] \in Nat /\ balance[u] \in Nat /\ userIndex[u] \in Nat
      /\ asset.index \in Nat /\ UNIT \in Nat
  BY DistributionAssumption DEF TypeOK, AssetData
<1> DEFINE x == UNIT * stakerRewardsToClaim[u]
           y == balance[u] * (asset.index - userIndex[u])
<1>2. x \in Int
  BY <1>1
<1>3. y \in Int
  BY <1>1
<1> HIDE DEF x, y
<1>4. x + y \in Int
  BY <1>2, <1>3
<1> QED BY <1>4 DEF x, y, Weight

LEMMA DebtInt ==
    ASSUME TypeOK
    PROVE  Debt \in Int /\ Debt = SumFunctionOnSet([u \in Holders |-> Weight(u)], Holders)
<1> DEFINE w == [u \in Holders |-> Weight(u)]
<1>1. \A u \in Holders : w[u] \in Int
  BY WeightInt
<1>2. DOMAIN w = Holders
  OBVIOUS
<1> HIDE DEF w
<1>3. SumFunctionOnSet(w, Holders) \in Int
  BY <1>1, AccountsFinite, SumInt
<1> QED BY <1>2, <1>3 DEF Debt, SumFunction, w

(* Where the next update, with the true total or a larger one, leaves the    *)
(* asset.                                                                    *)
LEMMA GrowthFacts ==
    ASSUME RInv
    PROVE  /\ Growth \in Nat
           /\ settled \in AssetData
           /\ settled.lastUpdateTimestamp = now
           /\ settled.index = asset.index + Growth
           /\ Pending \in Nat
           /\ totalSupply * Growth <= UNIT * Pending
<1>1. /\ asset \in AssetData /\ totalSupply \in Nat /\ now \in Nat
      /\ asset.lastUpdateTimestamp <= now
  BY DEF RInv, IInv, TypeOK, IndicesOrdered
<1>2. /\ CanUpdate(asset, totalSupply, now)
      /\ Growth \in Nat /\ Pending \in Nat
      /\ totalSupply * Growth <= UNIT * Pending
  BY <1>1, GrowthWithinAccrual DEF Growth, settled, Pending
<1>3. settled \in AssetData /\ settled.lastUpdateTimestamp = now
  BY <1>1, <1>2, UpdatedAsset DEF settled
<1>4. settled.index \in Int /\ asset.index \in Int
  BY <1>1, <1>3 DEF AssetData
<1> QED BY <1>2, <1>3, <1>4 DEF Growth

(* What u is owed once settled, against his weight before.                   *)
LEMMA SettledWeight ==
    ASSUME RInv, NEW u \in Holders
    PROVE  /\ Accrued(u) \in Nat
           /\ UNIT * (stakerRewardsToClaim[u] + Accrued(u)) <= Weight(u) + balance[u] * Growth
           /\ Owed(u) = stakerRewardsToClaim[u] + Accrued(u)
<1>1. /\ stakerRewardsToClaim[u] \in Nat /\ balance[u] \in Nat /\ userIndex[u] \in Nat
      /\ asset.index \in Nat /\ UNIT \in Nat \ {0} /\ userIndex[u] <= asset.index
  BY DistributionAssumption DEF RInv, IInv, TypeOK, IndicesOrdered, AssetData
<1>2. Growth \in Nat /\ settled.index = asset.index + Growth
  BY GrowthFacts
<1> DEFINE b == balance[u]
           c == stakerRewardsToClaim[u]
           i == settled.index
           j == userIndex[u]
           n == b * (i - j)
<1>3. i \in Nat /\ i - j \in Nat
  BY <1>1, <1>2
<1>4. n \in Nat
  <2> HIDE DEF i, j
  <2> QED BY <1>1, <1>3, ProductNat
<1>5. Accrued(u) = n \div UNIT
  BY <1>1, <1>3, AccruedIsRewards DEF Accrued, GetRewards
<1>6. Accrued(u) \in Nat /\ UNIT * Accrued(u) <= n
  <2> HIDE DEF n
  <2> QED BY <1>1, <1>4, <1>5, DivNat, DivDefinition
<1>7. n = b * (asset.index - j) + b * Growth
  BY <1>1, <1>2
<1>8. UNIT * (c + Accrued(u)) = UNIT * c + UNIT * Accrued(u)
  BY <1>1, <1>6
<1>9. /\ UNIT * c \in Int /\ UNIT * Accrued(u) \in Int
      /\ b * (asset.index - j) \in Int /\ b * Growth \in Int
  BY <1>1, <1>2, <1>6
<1>10. UNIT * (c + Accrued(u)) <= Weight(u) + balance[u] * Growth
  <2> DEFINE x == UNIT * c
             y == b * (asset.index - j)
             z == b * Growth
             k == UNIT * Accrued(u)
  <2>1. Weight(u) = x + y
    BY DEF Weight
  <2>2. k <= y + z
    BY <1>6, <1>7
  <2> HIDE DEF x, y, z, k
  <2>3. x + k <= (x + y) + z
    BY <1>9, <2>2 DEF x, y, z, k
  <2> QED BY <1>8, <2>1, <2>3 DEF x, z, k
<1>11. Owed(u) = c + Accrued(u)
  <2>1. TypeOK
    BY DEF RInv, IInv
  <2>2. settled.index = GetAssetIndex(asset, totalSupply, now)
    BY <2>1, SettledFields
  <2>3. Accrued(u) = GetRewards(b, i, j)
    BY <1>1, <1>3, AccruedIsRewards DEF Accrued
  <2> QED BY <2>2, <2>3 DEF Owed
<1> QED BY <1>6, <1>10, <1>11

(* What the weights add up to when an update raises the index by e and a     *)
(* claim pays p to s.                                                        *)
LEMMA DebtGrown ==
    ASSUME RInv, NEW e \in Nat, NEW s \in Holders, NEW p \in Nat
    PROVE  LET g == [u \in Holders |-> (Weight(u) + balance[u] * e)
                                          - (IF u = s THEN UNIT * p ELSE 0)]
           IN  /\ \A u \in Holders : g[u] \in Int
               /\ SumFunctionOnSet(g, Holders) = (Debt + e * totalSupply) - UNIT * p
<1> DEFINE w == [u \in Holders |-> Weight(u)]
           g == [u \in Holders |-> (Weight(u) + balance[u] * e)
                                       - (IF u = s THEN UNIT * p ELSE 0)]
<1>1. TypeOK /\ ReceiptsBacked
  BY DEF RInv, IInv
<1>2. \A u \in Holders : w[u] \in Int /\ balance[u] \in Nat /\ w[u] = Weight(u)
  BY <1>1, WeightInt DEF TypeOK
<1>3. UNIT * p \in Int
  BY DistributionAssumption
<1>4. \A u \in Holders : g[u] = (w[u] + balance[u] * e) - (IF u = s THEN UNIT * p ELSE 0)
  BY <1>2
<1>5. \A u \in Holders : balance[u] * e \in Int
  BY <1>2
<1>6. Debt = SumFunctionOnSet(w, Holders)
  BY <1>1, DebtInt
<1>7. totalSupply = SumFunctionOnSet(balance, Holders)
  BY <1>1 DEF ReceiptsBacked, SumFunction, TypeOK
<1> HIDE DEF w, g
<1>8. \A u \in Holders : g[u] \in Int
  BY <1>2, <1>3, <1>4, <1>5
<1>9. SumFunctionOnSet(g, Holders) =
        (SumFunctionOnSet(w, Holders) + e * SumFunctionOnSet(balance, Holders)) - UNIT * p
  <2>1. \A u \in Holders : /\ w[u] \in Int /\ balance[u] \in Int
                           /\ g[u] = (w[u] + balance[u] * e) - (IF u = s THEN UNIT * p ELSE 0)
    BY <1>2, <1>4
  <2> DEFINE q == UNIT * p
  <2> HIDE DEF q
  <2>2. q \in Int /\ e \in Int
    BY <1>3 DEF q
  <2>3. \A u \in Holders : /\ w[u] \in Int /\ balance[u] \in Int
                           /\ g[u] = (w[u] + balance[u] * e) - (IF u = s THEN q ELSE 0)
    BY <2>1 DEF q
  <2>4. SumFunctionOnSet(g, Holders) =
          (SumFunctionOnSet(w, Holders) + e * SumFunctionOnSet(balance, Holders)) - q
    BY <2>2, <2>3, AccountsFinite, SumGrown
  <2> QED BY <2>4 DEF q
<1> QED BY <1>6, <1>7, <1>8, <1>9 DEF g

WeightsAddUp ==
    /\ \A u \in Holders : Weight(u) \in Int
    /\ Debt \in Int
    /\ Debt = SumFunctionOnSet([u \in Holders |-> Weight(u)], Holders)

LEMMA WeightsNext == TypeOK' => WeightsAddUp'
<1>1. TypeOK => WeightsAddUp
  BY WeightInt, DebtInt DEF WeightsAddUp
<1> QED BY <1>1, PTL

LEMMA DebtGrowsAtMost ==
    ASSUME RInv, TypeOK', NEW e \in Nat, NEW s \in Holders, NEW p \in Nat,
           \A u \in Holders : Weight(u)' <= (Weight(u) + balance[u] * e)
                                               - (IF u = s THEN UNIT * p ELSE 0)
    PROVE  Debt' <= (Debt + e * totalSupply) - UNIT * p
<1> DEFINE w == [u \in Holders |-> Weight(u)']
           g == [u \in Holders |-> (Weight(u) + balance[u] * e)
                                       - (IF u = s THEN UNIT * p ELSE 0)]
<1>1. \A u \in Holders : w[u] \in Int /\ w[u] <= g[u]
  BY WeightsNext DEF WeightsAddUp
<1>2. /\ \A u \in Holders : g[u] \in Int
      /\ SumFunctionOnSet(g, Holders) = (Debt + e * totalSupply) - UNIT * p
  BY DebtGrown
<1>3. Debt' = SumFunctionOnSet(w, Holders)
  BY WeightsNext DEF WeightsAddUp
<1> HIDE DEF w, g
<1>4. SumFunctionOnSet(w, Holders) <= SumFunctionOnSet(g, Holders)
  BY <1>1, <1>2, AccountsFinite, SumMonotone
<1> QED BY <1>2, <1>3, <1>4

(* The weight of a holder the transaction settles and pays p.                *)
LEMMA WeightOfSettled ==
    ASSUME RInv, TypeOK', NEW u \in Holders, NEW p \in Nat,
           asset'.index = settled.index, userIndex'[u] = settled.index,
           stakerRewardsToClaim'[u] = (stakerRewardsToClaim[u] + Accrued(u)) - p
    PROVE  Weight(u)' <= (Weight(u) + balance[u] * Growth) - UNIT * p
<1> DEFINE c == stakerRewardsToClaim[u] + Accrued(u)
           w == Weight(u) + balance[u] * Growth
<1>1. UNIT * c <= w /\ c \in Nat
  BY SettledWeight DEF RInv, IInv, TypeOK
<1>2. w \in Int
  <2>1. Weight(u) \in Int /\ balance[u] * Growth \in Int
    BY WeightInt, GrowthFacts DEF RInv, IInv, TypeOK
  <2> HIDE DEF Weight
  <2> QED BY <2>1
<1>3. balance'[u] \in Nat /\ settled.index \in Int /\ UNIT \in Nat
  BY GrowthFacts, DistributionAssumption DEF TypeOK, AssetData
<1>4. balance'[u] * (settled.index - settled.index) = 0
  BY <1>3
<1>5. Weight(u)' = UNIT * (c - p) + 0
  BY <1>4 DEF Weight
<1> HIDE DEF c, w
<1>6. UNIT * (c - p) = UNIT * c - UNIT * p
  BY <1>1, <1>3
<1>7. UNIT * c \in Int /\ UNIT * p \in Int
  BY <1>1, <1>3
<1>8. Weight(u)' = UNIT * c - UNIT * p
  BY <1>5, <1>6, <1>7
<1>9. Weight(u)' <= w - UNIT * p
  BY <1>1, <1>2, <1>7, <1>8
<1> QED BY <1>9 DEF w

(* The weight of a holder the transaction leaves alone.                      *)
LEMMA WeightOfOther ==
    ASSUME TypeOK, NEW u \in Holders, NEW e \in Nat,
           asset'.index = asset.index + e, userIndex'[u] = userIndex[u],
           stakerRewardsToClaim'[u] = stakerRewardsToClaim[u], balance'[u] = balance[u]
    PROVE  Weight(u)' = Weight(u) + balance[u] * e
<1>1. /\ balance[u] \in Nat /\ userIndex[u] \in Nat /\ asset.index \in Nat
      /\ stakerRewardsToClaim[u] \in Nat /\ UNIT \in Nat
  BY DistributionAssumption DEF TypeOK, AssetData
<1> DEFINE x == UNIT * stakerRewardsToClaim[u]
           y == balance[u] * (asset.index - userIndex[u])
           z == balance[u] * e
<1>2. x \in Int /\ y \in Int /\ z \in Int
  BY <1>1
<1>3. balance[u] * ((asset.index + e) - userIndex[u]) = y + z
  BY <1>1
<1>4. Weight(u) = x + y /\ Weight(u)' = x + (y + z)
  BY <1>3 DEF Weight
<1> HIDE DEF x, y, z
<1>5. Weight(u)' = Weight(u) + z
  BY <1>2, <1>4
<1> QED BY <1>5 DEF z

(* A transaction that updates the index by e, within what is pending, and    *)
(* lowers the debt by the p it pays from the vault keeps the invariant.      *)
LEMMA UpdateKeepsDebt ==
    ASSUME RInv, TypeOK', DebtWithinEmission,
           NEW e \in Nat, totalSupply * e <= UNIT * Pending,
           NEW s \in Holders, NEW p \in Nat,
           \A u \in Holders : Weight(u)' <= (Weight(u) + balance[u] * e)
                                               - (IF u = s THEN UNIT * p ELSE 0),
           asset'.lastUpdateTimestamp = now, now' = now, released' = released,
           token'[Vault] = token[Vault] - p
    PROVE  DebtWithinEmission'
<1>1. TypeOK /\ now \in Nat /\ totalSupply \in Nat /\ Pending \in Nat /\ UNIT \in Nat
  BY GrowthFacts, DistributionAssumption DEF RInv, IInv, TypeOK
<1>2. Debt' <= (Debt + e * totalSupply) - UNIT * p
  BY DebtGrowsAtMost
<1>3. Pending' = 0
  BY <1>1, NothingPending DEF Pending, TypeOK
<1>4. Debt \in Int /\ Debt' \in Int
  BY <1>1, DebtInt, WeightsNext DEF WeightsAddUp
<1>5. PaidOut' = PaidOut + p /\ PaidOut \in Int /\ released \in Nat
  BY <1>1, HoldersFacts, StakedTokenAssumption DEF PaidOut, TypeOK
<1> DEFINE x == UNIT * PaidOut
           y == UNIT * Pending
           z == UNIT * released
           k == e * totalSupply
           q == UNIT * p
<1>6. /\ x \in Int /\ y \in Int /\ z \in Int /\ k \in Int /\ q \in Int
      /\ UNIT * 0 = 0 /\ k = totalSupply * e
      /\ UNIT * (PaidOut + p) = x + q
  BY <1>1, <1>5
<1>7. (x + Debt) + y <= z /\ k <= y /\ Debt' <= (Debt + k) - q
  BY <1>2, <1>6 DEF DebtWithinEmission
<1> HIDE DEF x, y, z, k, q
<1>8. ((x + q) + Debt') + 0 <= z
  <2>1. \A d, d1 \in Int : (x + d) + y <= z /\ k <= y /\ d1 <= (d + k) - q
                             => ((x + q) + d1) + 0 <= z
    BY <1>6
  <2> QED BY <1>4, <1>7, <2>1
<1>9. UNIT * PaidOut' = x + q /\ UNIT * Pending' = 0 /\ UNIT * released' = z
  BY <1>3, <1>5, <1>6 DEF z
<1> QED BY <1>8, <1>9 DEF DebtWithinEmission

(* Settling turns what is pending into debt and rounds some of it away.      *)
LEMMA SettleKeepsDebt ==
    ASSUME RInv, TypeOK', NEW users \in SUBSET Holders, users # {}, Settle(users),
           \A u \in Holders \ users : balance'[u] = balance[u],
           now' = now, released' = released, token'[Vault] = token[Vault],
           DebtWithinEmission
    PROVE  DebtWithinEmission'
<1>1. TypeOK /\ Growth \in Nat /\ settled.index = asset.index + Growth
  BY GrowthFacts DEF RInv, IInv
<1>2. asset' = settled
  BY DEF Settle
<1>3. UNIT * 0 = 0
  BY DistributionAssumption
<1>4. ASSUME NEW u \in Holders
      PROVE  Weight(u)' <= (Weight(u) + balance[u] * Growth) - 0
  <2>1. /\ Accrued(u) \in Nat /\ stakerRewardsToClaim[u] \in Nat
    BY <1>1, SettledWeight DEF TypeOK
  <2>2. CASE u \in users
    <3>1. /\ userIndex'[u] = settled.index
          /\ stakerRewardsToClaim'[u] = (stakerRewardsToClaim[u] + Accrued(u)) - 0
      BY <2>1, <2>2 DEF Settle
    <3> QED BY <1>2, <1>3, <3>1, WeightOfSettled
  <2>3. CASE u \notin users
    <3>1. /\ userIndex'[u] = userIndex[u]
          /\ stakerRewardsToClaim'[u] = stakerRewardsToClaim[u]
          /\ balance'[u] = balance[u]
      BY <2>3 DEF Settle
    <3>2. Weight(u)' = Weight(u) + balance[u] * Growth
      BY <1>1, <1>2, <3>1, WeightOfOther
    <3>3. Weight(u) \in Int /\ balance[u] * Growth \in Int
      BY <1>1, WeightInt, DistributionAssumption DEF TypeOK
    <3> QED BY <3>2, <3>3
  <2> QED BY <2>2, <2>3
<1>5. \A u \in Holders : Weight(u)' <= (Weight(u) + balance[u] * Growth)
                                          - (IF u = This THEN UNIT * 0 ELSE 0)
  BY <1>3, <1>4
<1>6. token'[Vault] = token[Vault] - 0
  BY <1>1, HoldersFacts DEF TypeOK
<1> QED BY <1>1, <1>2, <1>5, <1>6, GrowthFacts, HoldersFacts, UpdateKeepsDebt

LEMMA ClaimKeepsDebt ==
    ASSUME RInv, TypeOK', DebtWithinEmission,
           NEW s \in Callers, NEW v \in Holders, NEW n \in Amounts, ClaimRewards(s, v, n)
    PROVE  DebtWithinEmission'
<1> DEFINE p == Claimed(s, n)
<1>1. TypeOK /\ Growth \in Nat /\ settled.index = asset.index + Growth /\ s \in Holders
  BY GrowthFacts, HoldersFacts DEF RInv, IInv
<1>2. /\ p \in Nat /\ p <= token[Vault] /\ asset' = settled
      /\ token' = Move(token, Vault, v, p)
      /\ now' = now /\ released' = released /\ balance' = balance
      /\ stakerRewardsToClaim' = [stakerRewardsToClaim EXCEPT
           ![s] = (stakerRewardsToClaim[s] + Accrued(s)) - p]
      /\ userIndex' = [userIndex EXCEPT ![s] = settled.index]
  BY <1>1, ClaimMoves
<1> HIDE DEF p
<1>3. token'[Vault] = token[Vault] - p
  BY <1>1, <1>2, HoldersFacts, TokenMoved
<1>4. ASSUME NEW u \in Holders
      PROVE  Weight(u)' <= (Weight(u) + balance[u] * Growth)
                              - (IF u = s THEN UNIT * p ELSE 0)
  <2>1. CASE u = s
    <3>1. /\ userIndex'[u] = settled.index
          /\ stakerRewardsToClaim'[u] = (stakerRewardsToClaim[u] + Accrued(u)) - p
      BY <1>1, <1>2, <2>1 DEF TypeOK
    <3>2. Weight(u)' <= (Weight(u) + balance[u] * Growth) - UNIT * p
      BY <1>2, <3>1, WeightOfSettled
    <3> QED BY <2>1, <3>2
  <2>2. CASE u # s
    <3>1. /\ userIndex'[u] = userIndex[u]
          /\ stakerRewardsToClaim'[u] = stakerRewardsToClaim[u]
          /\ balance'[u] = balance[u]
      BY <1>1, <1>2, <2>2 DEF TypeOK
    <3>2. Weight(u)' = Weight(u) + balance[u] * Growth
      BY <1>1, <1>2, <3>1, WeightOfOther
    <3>3. Weight(u) \in Int /\ balance[u] * Growth \in Int
      BY <1>1, WeightInt, DistributionAssumption DEF TypeOK
    <3> QED BY <2>2, <3>2, <3>3
  <2> QED BY <2>1, <2>2
<1> QED BY <1>1, <1>2, <1>3, <1>4, GrowthFacts, UpdateKeepsDebt

(* A report of totalStaked that is not too low spreads no more than what is  *)
(* pending; one that is above a supply of zero spreads to nobody.            *)
LEMMA ConfigureKeepsDebt ==
    ASSUME RInv, TypeOK', DebtWithinEmission,
           NEW r \in Emissions, NEW err \in ReportErrors, err \in Nat, ConfigureAssets(r, err)
    PROVE  DebtWithinEmission'
<1> DEFINE more == totalSupply + err
           updated == UpdateAssetState(asset, more, now)
           e == updated.index - asset.index
<1>1. /\ TypeOK /\ asset \in AssetData /\ totalSupply \in Nat /\ now \in Nat
      /\ more \in Nat /\ totalSupply <= more /\ asset.lastUpdateTimestamp <= now
  BY DEF RInv, IInv, TypeOK, IndicesOrdered
<1>2. CanUpdate(asset, more, now) /\ e \in Nat /\ totalSupply * e <= UNIT * Pending
  <2> HIDE DEF more
  <2> QED BY <1>1, GrowthWithinAccrual DEF Pending
<1>3. updated \in AssetData /\ updated.lastUpdateTimestamp = now
  <2> HIDE DEF more
  <2> QED BY <1>1, <1>2, UpdatedAsset
<1>4. /\ asset' = [updated EXCEPT !.emissionPerSecond = r]
      /\ UNCHANGED <<now, token, balance, userIndex, stakerRewardsToClaim, released>>
  BY DEF ConfigureAssets, accounts
<1> HIDE DEF updated
<1>5. asset'.lastUpdateTimestamp = now /\ asset'.index = asset.index + e
  BY <1>1, <1>3, <1>4 DEF AssetData
<1> HIDE DEF e
<1>6. ASSUME NEW u \in Holders
      PROVE  Weight(u)' <= (Weight(u) + balance[u] * e)
                              - (IF u = This THEN UNIT * 0 ELSE 0)
  <2>1. Weight(u)' = Weight(u) + balance[u] * e
    BY <1>1, <1>2, <1>4, <1>5, WeightOfOther
  <2>2. Weight(u) \in Int /\ balance[u] * e \in Int /\ UNIT * 0 = 0
    BY <1>1, <1>2, WeightInt, DistributionAssumption DEF TypeOK
  <2> QED BY <2>1, <2>2
<1>7. token'[Vault] = token[Vault] - 0
  BY <1>1, <1>4, HoldersFacts DEF TypeOK
<1> QED BY <1>2, <1>4, <1>5, <1>6, <1>7, HoldersFacts, UpdateKeepsDebt

(* A second releases as much as it makes pending.                            *)
LEMMA TimeReleases ==
    ASSUME RInv, AdvanceTime
    PROVE  /\ Debt' = Debt /\ PaidOut' = PaidOut
           /\ Pending \in Nat /\ released \in Nat
           /\ \E r \in Nat : Pending' = Pending + r /\ released' = released + r
<1>1. /\ asset \in AssetData /\ asset.emissionPerSecond \in Nat /\ totalSupply \in Nat
      /\ now \in Nat /\ asset.lastUpdateTimestamp <= now /\ released \in Nat
  BY DEF RInv, IInv, TypeOK, IndicesOrdered, AssetData
<1>2. /\ now' = now + 1 /\ UNCHANGED <<token, balance, totalSupply>>
      /\ UNCHANGED <<asset, userIndex, stakerRewardsToClaim>>
  BY DEF AdvanceTime, accounts, rewards
<1>3. Debt' = Debt /\ PaidOut' = PaidOut
  BY <1>2 DEF Debt, Weight, PaidOut
<1> DEFINE r == IF totalSupply # 0 /\ now < DISTRIBUTION_END
                  THEN asset.emissionPerSecond ELSE 0
<1>4. Pending' = Pending + r
  BY <1>1, <1>2, SecondAccrues DEF Pending
<1>5. released' = released + r
  BY <1>1 DEF AdvanceTime
<1>6. r \in Nat /\ Pending \in Nat
  BY <1>1, GrowthFacts
<1> QED BY <1>1, <1>3, <1>4, <1>5, <1>6

LEMMA TimeKeepsDebt ==
    ASSUME RInv, DebtWithinEmission, AdvanceTime
    PROVE  DebtWithinEmission'
<1>1. PICK r \in Nat : Pending' = Pending + r /\ released' = released + r
  BY TimeReleases
<1>2. /\ Debt' = Debt /\ PaidOut' = PaidOut /\ Pending \in Nat /\ released \in Nat
      /\ Debt \in Int /\ PaidOut \in Int /\ UNIT \in Nat
  BY TimeReleases, DebtInt, HoldersFacts, StakedTokenAssumption, DistributionAssumption
     DEF RInv, IInv, TypeOK, PaidOut
<1>3. /\ UNIT * (Pending + r) = UNIT * Pending + UNIT * r
      /\ UNIT * (released + r) = UNIT * released + UNIT * r
  BY <1>2
<1> DEFINE x == UNIT * PaidOut
           y == UNIT * Pending
           z == UNIT * released
           q == UNIT * r
<1>4. x \in Int /\ y \in Int /\ z \in Int /\ q \in Int
  BY <1>2
<1>5. (x + Debt) + y <= z
  BY DEF DebtWithinEmission
<1> HIDE DEF x, y, z, q
<1>6. (x + Debt) + (y + q) <= z + q
  BY <1>2, <1>4, <1>5
<1>7. UNIT * PaidOut' = x /\ UNIT * Pending' = y + q /\ UNIT * released' = z + q
  BY <1>1, <1>2, <1>3 DEF x, y, z, q
<1> QED BY <1>2, <1>6, <1>7 DEF DebtWithinEmission

LEMMA DebtInit == Init => Debt = 0 /\ PaidOut = 0 /\ Pending = 0 /\ released = 0
<1> SUFFICES ASSUME Init PROVE Debt = 0 /\ PaidOut = 0 /\ Pending = 0 /\ released = 0
  OBVIOUS
<1> DEFINE w == [u \in Holders |-> Weight(u)]
<1>1. TypeOK
  BY InitTyped
<1>2. \A u \in Holders : w[u] = 0
  <2>1. \A u \in Holders : /\ stakerRewardsToClaim[u] = 0 /\ balance[u] = 0
                           /\ userIndex[u] = 0 /\ asset.index = 0
    BY DEF Init, NoAsset
  <2>2. UNIT * 0 + 0 * (0 - 0) = 0
    BY DistributionAssumption
  <2> QED BY <2>1, <2>2 DEF Weight
<1>3. Debt = SumFunctionOnSet(w, Holders)
  BY <1>1, DebtInt
<1> HIDE DEF w
<1>4. \A u \in Holders : w[u] \in Int /\ w[u] = 0 * w[u]
  BY <1>2
<1>5. SumFunctionOnSet(w, Holders) = 0 * SumFunctionOnSet(w, Holders)
  BY <1>4, AccountsFinite, SumScales
<1>6. SumFunctionOnSet(w, Holders) \in Int
  BY <1>4, AccountsFinite, SumInt
<1>7. Debt = 0
  BY <1>3, <1>5, <1>6
<1>8. token[Vault] = VaultFunds /\ totalSupply = 0 /\ released = 0
  BY HoldersFacts DEF Init
<1> QED BY <1>7, <1>8, StakedTokenAssumption DEF PaidOut, Pending, Accrual

(* What every call that moves stake does to the rewards: it settles whoever  *)
(* it moves stake from or to and touches neither the vault nor the clock.    *)
Settling(users) ==
    /\ users # {}
    /\ Settle(users)
    /\ \A u \in Holders \ users : balance'[u] = balance[u]
    /\ now' = now /\ released' = released
    /\ token'[Vault] = token[Vault]

LEMMA CallsSettle ==
    ASSUME TypeOK, NEW s \in Callers, NEW u \in Holders, NEW n \in Amounts,
           Stake(s, u, n) \/ Redeem(s, u, n) \/ Transfer(s, u, n)
    PROVE  \E users \in SUBSET Holders : Settling(users)
<1>1. /\ s \in Holders /\ n \in Nat /\ balance \in [Holders -> Nat]
      /\ balance[s] \in Nat /\ token[Vault] \in Nat
  BY StakedTokenAssumption, HoldersFacts DEF TypeOK
<1>2. ASSUME Stake(s, u, n)
      PROVE  Settling({u})
  <2>1. /\ n <= token[s] /\ token' = Move(token, s, This, n)
        /\ balance' = [balance EXCEPT ![u] = @ + n]
        /\ now' = now /\ released' = released /\ Settle({u})
    BY <1>1, <1>2 DEF Stake
  <2>2. token'[Vault] = token[Vault]
    BY <1>1, <2>1, HoldersFacts, TokenMoved
  <2>3. \A x \in Holders \ {u} : balance'[x] = balance[x]
    BY <1>1, <2>1
  <2> QED BY <2>1, <2>2, <2>3 DEF Settling
<1>3. ASSUME Redeem(s, u, n)
      PROVE  Settling({s})
  <2> DEFINE m == AmountToRedeem(s, n)
  <2>1. /\ m \in Nat /\ m <= token[This]
        /\ balance' = [balance EXCEPT ![s] = @ - m]
        /\ token' = Move(token, This, u, m)
        /\ now' = now /\ released' = released /\ Settle({s})
    BY <1>1, <1>3 DEF Redeem, AmountToRedeem, Lesser
  <2> HIDE DEF m
  <2>2. token'[Vault] = token[Vault]
    BY <1>1, <2>1, HoldersFacts, TokenMoved
  <2>3. \A x \in Holders \ {s} : balance'[x] = balance[x]
    BY <1>1, <2>1
  <2> QED BY <2>1, <2>2, <2>3 DEF Settling
<1>4. ASSUME Transfer(s, u, n)
      PROVE  Settling({s, u})
  <2>1. /\ n <= balance[s] /\ Settle({s, u})
        /\ balance' = Move(balance, s, u, n)
        /\ UNCHANGED <<now, token, released>>
    BY <1>1, <1>4 DEF Transfer
  <2>2. \A x \in Holders \ {s, u} : balance'[x] = balance[x]
    BY <1>1, <2>1, MoveTyped
  <2> QED BY <2>1, <2>2 DEF Settling
<1> QED BY <1>1, <1>2, <1>3, <1>4

LEMMA DebtStep ==
    ASSUME ReportErrors \subseteq Nat, RInv, TypeOK', DebtWithinEmission, [Next]_vars
    PROVE  DebtWithinEmission'
<1>0. TypeOK
  BY DEF RInv, IInv
<1>1. ASSUME NEW s \in Callers, NEW u \in Holders, NEW n \in Amounts,
             Stake(s, u, n) \/ Redeem(s, u, n) \/ Transfer(s, u, n)
      PROVE  DebtWithinEmission'
  <2>1. PICK users \in SUBSET Holders : Settling(users)
    BY <1>0, <1>1, CallsSettle
  <2> QED BY <2>1, SettleKeepsDebt DEF Settling
<1>2. ASSUME UNCHANGED <<now, accounts, rewards, released>>
      PROVE  DebtWithinEmission'
  BY <1>2 DEF accounts, rewards, DebtWithinEmission, PaidOut, Debt, Weight, Pending
<1>3. ASSUME NEW s \in Callers, Cooldown(s)
      PROVE  DebtWithinEmission'
  BY <1>2, <1>3 DEF Cooldown
<1>4. CASE UNCHANGED vars
  BY <1>2, <1>4 DEF vars
<1> QED BY <1>1, <1>3, <1>4, ClaimKeepsDebt, ConfigureKeepsDebt, TimeKeepsDebt DEF Next

LEMMA DebtBoundsOwed ==
    ASSUME RInv, DebtWithinEmission
    PROVE  RewardsWithinEmission
<1> DEFINE owed == [u \in Holders |-> Owed(u)]
           scaled == [u \in Holders |-> UNIT * Owed(u)]
           g == [u \in Holders |-> (Weight(u) + balance[u] * Growth)
                                       - (IF u = This THEN UNIT * 0 ELSE 0)]
<1>1. TypeOK /\ This \in Holders
  BY HoldersFacts DEF RInv, IInv
<1>2. /\ Growth \in Nat /\ Pending \in Nat /\ totalSupply \in Nat
      /\ totalSupply * Growth <= UNIT * Pending
  BY <1>1, GrowthFacts DEF TypeOK
<1>3. UNIT \in Nat /\ UNIT * 0 = 0
  BY DistributionAssumption
<1>4. ASSUME NEW u \in Holders
      PROVE  /\ owed[u] \in Int /\ scaled[u] \in Int
             /\ scaled[u] = UNIT * owed[u] /\ scaled[u] <= g[u]
  <2>1. stakerRewardsToClaim[u] \in Nat /\ Accrued(u) \in Nat
    BY <1>1, SettledWeight DEF TypeOK
  <2>2. Owed(u) \in Nat /\ UNIT * Owed(u) <= Weight(u) + balance[u] * Growth
    BY <2>1, SettledWeight
  <2>3. Weight(u) \in Int /\ balance[u] * Growth \in Int /\ UNIT * Owed(u) \in Int
    BY <1>1, <1>2, <1>3, <2>2, WeightInt DEF TypeOK
  <2> QED BY <1>3, <2>2, <2>3
<1>5. /\ \A u \in Holders : g[u] \in Int
      /\ SumFunctionOnSet(g, Holders) = (Debt + Growth * totalSupply) - UNIT * 0
  BY <1>1, <1>2, DebtGrown
<1>6. TotalOwed = SumFunctionOnSet(owed, Holders)
  BY DEF TotalOwed, SumFunction
<1> HIDE DEF owed, scaled, g
<1>7. SumFunctionOnSet(scaled, Holders) = UNIT * SumFunctionOnSet(owed, Holders)
  BY <1>3, <1>4, AccountsFinite, SumScales
<1>8. SumFunctionOnSet(scaled, Holders) <= SumFunctionOnSet(g, Holders)
  BY <1>4, <1>5, AccountsFinite, SumMonotone
<1>9. SumFunctionOnSet(owed, Holders) \in Int
  BY <1>4, AccountsFinite, SumInt
<1>10. PaidOut \in Int /\ released \in Int /\ Debt \in Int
  BY <1>1, HoldersFacts, StakedTokenAssumption, DebtInt DEF PaidOut, TypeOK
<1> DEFINE x == UNIT * PaidOut
           y == UNIT * Pending
           z == UNIT * released
           k == Growth * totalSupply
           o == UNIT * TotalOwed
<1>11. /\ x \in Int /\ y \in Int /\ z \in Int /\ k \in Int /\ o \in Int
       /\ UNIT * (PaidOut + TotalOwed) = x + o /\ k = totalSupply * Growth
  BY <1>2, <1>3, <1>6, <1>9, <1>10
<1>12. o <= Debt + k /\ k <= y /\ (x + Debt) + y <= z
  BY <1>2, <1>3, <1>5, <1>6, <1>7, <1>8, <1>10, <1>11 DEF DebtWithinEmission
<1> HIDE DEF x, y, z, k, o
<1>13. x + o <= z
  <2>1. \A d \in Int : o <= d + k /\ k <= y /\ (x + d) + y <= z => x + o <= z
    BY <1>11
  <2> QED BY <1>10, <1>12, <2>1
<1>14. UNIT * (PaidOut + TotalOwed) <= UNIT * released
  BY <1>11, <1>13 DEF z
<1>15. PaidOut + TotalOwed \in Int
  BY <1>6, <1>9, <1>10
<1> QED BY <1>10, <1>14, <1>15, CancelUnit DEF RewardsWithinEmission

(* RewardsWithinEmission for any holders, rates, amounts and scale of the    *)
(* indices: no sequence of calls pays or owes more than the schedule         *)
(* released, as long as no report of totalStaked is too low.                 *)
THEOREM RewardsStayWithinEmission ==
    ReportErrors \subseteq Nat => (Spec => []RewardsWithinEmission)
<1> SUFFICES ASSUME ReportErrors \subseteq Nat PROVE Spec => []RewardsWithinEmission
  OBVIOUS
<1>1. Init => DebtWithinEmission
  <2>1. (UNIT * 0 + 0) + UNIT * 0 <= UNIT * 0
    BY DistributionAssumption
  <2> QED BY <2>1, DebtInit DEF DebtWithinEmission
<1>2. IInv /\ ReceiptsBacked /\ IInv' /\ DebtWithinEmission /\ [Next]_vars
        => DebtWithinEmission'
  BY DebtStep DEF RInv, IInv
<1>3. IInv /\ ReceiptsBacked /\ DebtWithinEmission => RewardsWithinEmission
  BY DebtBoundsOwed DEF RInv
<1> QED BY <1>1, <1>2, <1>3, Invariance, ReceiptsAreBacked, PTL DEF Spec

-----------------------------------------------------------------------------
(* Rewards that no division rounds                                           *)

(* The staked tokens there are, whoever has them.                            *)
Issued == SumFunction([a \in Holders \cup {Vault} |->
                         CASE a = Vault -> VaultFunds [] a = This -> 0 [] OTHER -> Funds])

(* Every rate is a multiple of every supply that the tokens there are allow. *)
NoRounding == \A r \in Emissions : \A n \in 1 .. Issued : \E k \in Nat : r = n * k

(* What makes the divisions exact: no token is made or lost, so that no      *)
(* supply exceeds those there are, and every index is a whole number of      *)
(* UNITs.                                                                    *)
TokensConserved == SumFunction(token) = Issued

IndicesWhole ==
    /\ asset.emissionPerSecond \in Emissions \cup {0}
    /\ \E k \in Nat : asset.index = UNIT * k
    /\ \A u \in Holders : \E k \in Nat : userIndex[u] = UNIT * k

LEMMA TokensStayConserved == Spec => []TokensConserved
<1>1. Init => TokensConserved
  BY DEF Init, TokensConserved, Issued
<1>2. ASSUME IInv, TokensConserved, [Next]_vars
      PROVE  TokensConserved'
  <2>0. /\ token \in [Holders \cup {Vault} -> Nat] /\ TypeOK
        /\ IsFiniteSet(Holders \cup {Vault})
        /\ Callers \subseteq Holders \cup {Vault} /\ Holders \subseteq Holders \cup {Vault}
        /\ This \in Holders \cup {Vault} /\ Vault \in Holders \cup {Vault}
    BY <1>2, AccountsFinite, HoldersFacts DEF IInv, TypeOK
  <2>1. ASSUME NEW a \in Holders \cup {Vault}, NEW b \in Holders \cup {Vault}, NEW n \in Nat,
               n <= token[a], token' = Move(token, a, b, n)
        PROVE  TokensConserved'
    BY <1>2, <2>0, <2>1, MoveKeepsSum DEF TokensConserved
  <2>2. ASSUME token' = token
        PROVE  TokensConserved'
    BY <1>2, <2>2 DEF TokensConserved
  <2>3. ASSUME NEW s \in Callers, NEW u \in Holders, NEW n \in Amounts, Stake(s, u, n)
        PROVE  TokensConserved'
    <3>1. n \in Nat /\ n <= token[s] /\ token' = Move(token, s, This, n)
      BY <2>0, <2>3, StakedTokenAssumption DEF Stake
    <3> QED BY <2>0, <2>1, <3>1
  <2>4. ASSUME NEW s \in Callers, NEW u \in Holders, NEW n \in Amounts, Redeem(s, u, n)
        PROVE  TokensConserved'
    <3> DEFINE m == AmountToRedeem(s, n)
    <3>1. m \in Nat /\ m <= token[This] /\ token' = Move(token, This, u, m)
      <4>1. s \in Holders /\ n \in Nat /\ balance[s] \in Nat
        BY <2>0, StakedTokenAssumption, HoldersFacts DEF TypeOK
      <4> QED BY <2>4, <4>1 DEF Redeem, AmountToRedeem, Lesser
    <3> HIDE DEF m
    <3> QED BY <2>0, <2>1, <3>1
  <2>5. ASSUME NEW s \in Callers, NEW u \in Holders, NEW n \in Amounts, ClaimRewards(s, u, n)
        PROVE  TokensConserved'
    BY <2>0, <2>1, <2>5, ClaimMoves
  <2>6. ASSUME NEW s \in Callers, NEW u \in Holders, NEW n \in Amounts, Transfer(s, u, n)
        PROVE  TokensConserved'
    BY <2>2, <2>6 DEF Transfer
  <2>7. ASSUME NEW s \in Callers, Cooldown(s)
        PROVE  TokensConserved'
    BY <2>2, <2>7 DEF Cooldown, accounts
  <2>8. ASSUME NEW r \in Emissions, NEW err \in ReportErrors, ConfigureAssets(r, err)
        PROVE  TokensConserved'
    BY <2>2, <2>8 DEF ConfigureAssets, accounts
  <2>9. CASE AdvanceTime \/ UNCHANGED vars
    BY <2>2, <2>9 DEF AdvanceTime, vars, accounts
  <2> QED BY <1>2, <2>3, <2>4, <2>5, <2>6, <2>7, <2>8, <2>9 DEF Next
<1>3. IInv /\ TokensConserved /\ [Next]_vars => TokensConserved'
  BY <1>2
<1> QED BY <1>1, <1>3, Invariance, PTL DEF Spec

LEMMA SupplyBounded ==
    ASSUME RInv, TokensConserved
    PROVE  totalSupply <= Issued /\ Issued \in Nat
<1>1. /\ token \in [Holders \cup {Vault} -> Nat] /\ This \in Holders \cup {Vault}
      /\ totalSupply \in Nat /\ totalSupply <= token[This]
  BY HoldersFacts DEF RInv, IInv, TypeOK, ReceiptsBacked
<1>2. \A a \in Holders \cup {Vault} : token[a] \in Nat
  BY <1>1
<1>3. /\ SumFunctionOnSet(token, Holders \cup {Vault}) \in Nat
      /\ token[This] <= SumFunctionOnSet(token, Holders \cup {Vault})
  BY <1>1, <1>2, AccountsFinite, SumNat
<1>4. Issued = SumFunctionOnSet(token, Holders \cup {Vault})
  BY <1>1 DEF TokensConserved, SumFunction
<1>5. token[This] \in Nat
  BY <1>1, <1>2
<1> QED BY <1>1, <1>3, <1>4, <1>5

(* An update spreads exactly what is pending, in whole UNITs.                *)
LEMMA GrowthExact ==
    ASSUME RInv, TokensConserved, IndicesWhole, NoRounding
    PROVE  /\ \E k \in Nat : Growth = UNIT * k
           /\ totalSupply * Growth = UNIT * Pending
<1>1. /\ asset \in AssetData /\ totalSupply \in Nat /\ now \in Nat
      /\ asset.lastUpdateTimestamp <= now
  BY DEF RInv, IInv, TypeOK, IndicesOrdered
<1>2. totalSupply # 0 => \E q \in Nat : asset.emissionPerSecond = totalSupply * q
  <2>1. totalSupply # 0 => totalSupply \in 1 .. Issued
    BY <1>1, SupplyBounded
  <2>2. CASE asset.emissionPerSecond = 0
    <3>1. totalSupply * 0 = 0
      BY <1>1
    <3> QED BY <2>2, <3>1
  <2>3. CASE asset.emissionPerSecond \in Emissions
    BY <2>1, <2>3 DEF NoRounding
  <2> QED BY <2>2, <2>3 DEF IndicesWhole
<1> QED BY <1>1, <1>2, GrowthIsAccrual DEF Growth, settled, Pending

(* Settling a holder rounds nothing away.                                    *)
LEMMA SettledWeightExact ==
    ASSUME RInv, TokensConserved, IndicesWhole, NoRounding, NEW u \in Holders
    PROVE  UNIT * (stakerRewardsToClaim[u] + Accrued(u)) = Weight(u) + balance[u] * Growth
<1>1. /\ stakerRewardsToClaim[u] \in Nat /\ balance[u] \in Nat /\ userIndex[u] \in Nat
      /\ asset.index \in Nat /\ UNIT \in Nat \ {0} /\ userIndex[u] <= asset.index
  BY DistributionAssumption DEF RInv, IInv, TypeOK, IndicesOrdered, AssetData
<1>2. Growth \in Nat /\ settled.index = asset.index + Growth
  BY GrowthFacts
<1>3. PICK g \in Nat : Growth = UNIT * g
  BY GrowthExact
<1>4. PICK i \in Nat : asset.index = UNIT * i
  BY DEF IndicesWhole
<1>5. PICK j \in Nat : userIndex[u] = UNIT * j
  BY DEF IndicesWhole
<1> DEFINE b == balance[u]
           c == stakerRewardsToClaim[u]
           m == b * ((i + g) - j)
<1>6. m \in Int /\ b * (settled.index - userIndex[u]) = UNIT * m
  BY <1>1, <1>2, <1>3, <1>4, <1>5
<1>7. Accrued(u) = (b * (settled.index - userIndex[u])) \div UNIT
  <2>1. settled.index \in Nat
    BY <1>1, <1>2
  <2>2. Accrued(u) = GetRewards(b, settled.index, userIndex[u])
    BY <1>1, <2>1, AccruedIsRewards DEF Accrued
  <2> QED BY <2>2 DEF GetRewards
<1> HIDE DEF m
<1>8. Accrued(u) = m
  BY <1>1, <1>6, <1>7, DivExact
<1>9. UNIT * Accrued(u) = b * (asset.index - userIndex[u]) + b * Growth
  <2>1. b * (settled.index - userIndex[u]) = b * (asset.index - userIndex[u]) + b * Growth
    BY <1>1, <1>2
  <2> QED BY <1>6, <1>8, <2>1
<1>10. UNIT * (c + Accrued(u)) = UNIT * c + UNIT * Accrued(u)
  BY <1>1, <1>6, <1>8
<1> DEFINE x == UNIT * c
           y == b * (asset.index - userIndex[u])
           z == b * Growth
<1>11. x \in Int /\ y \in Int /\ z \in Int
  BY <1>1, <1>2
<1>12. Weight(u) = x + y
  BY DEF Weight
<1> HIDE DEF x, y, z
<1>13. x + (y + z) = Weight(u) + z
  BY <1>11, <1>12
<1> QED BY <1>9, <1>10, <1>13 DEF x, y, z

LEMMA WholeStep ==
    ASSUME ReportErrors = {0}, NoRounding, RInv, TokensConserved, IndicesWhole, [Next]_vars
    PROVE  IndicesWhole'
<1>1. TypeOK /\ totalSupply \in Nat /\ asset \in AssetData
  BY DEF RInv, IInv, TypeOK
<1>2. settled \in AssetData /\ \E k \in Nat : settled.index = UNIT * k
  <2>1. PICK g \in Nat : Growth = UNIT * g
    BY GrowthExact
  <2>2. PICK i \in Nat : asset.index = UNIT * i
    BY DEF IndicesWhole
  <2>3. settled.index = UNIT * (i + g) /\ i + g \in Nat
    BY <2>1, <2>2, GrowthFacts, DistributionAssumption
  <2> QED BY <2>3, GrowthFacts
<1>3. settled.emissionPerSecond = asset.emissionPerSecond
  BY <1>1 DEF settled, UpdateAssetState, AssetData
<1>4. \A u \in Holders : \E k \in Nat : userIndex[u] = UNIT * k
  BY DEF IndicesWhole
<1>5. ASSUME asset' = settled,
             \A u \in Holders : userIndex'[u] = userIndex[u] \/ userIndex'[u] = settled.index
      PROVE  IndicesWhole'
  <2>1. \A u \in Holders : \E k \in Nat : userIndex'[u] = UNIT * k
    BY <1>2, <1>4, <1>5
  <2>2. asset'.emissionPerSecond \in Emissions \cup {0}
    BY <1>3, <1>5 DEF IndicesWhole
  <2> QED BY <1>2, <1>5, <2>1, <2>2 DEF IndicesWhole
<1>6. ASSUME NEW users \in SUBSET Holders, Settle(users)
      PROVE  IndicesWhole'
  <2>1. \A u \in Holders : userIndex'[u] = userIndex[u] \/ userIndex'[u] = settled.index
    BY <1>6 DEF Settle
  <2> QED BY <1>5, <1>6, <2>1 DEF Settle
<1>7. ASSUME NEW s \in Callers, NEW u \in Holders, NEW n \in Amounts,
             Stake(s, u, n) \/ Redeem(s, u, n) \/ Transfer(s, u, n)
      PROVE  IndicesWhole'
  BY <1>6, <1>7, HoldersFacts DEF Stake, Redeem, Transfer
<1>8. ASSUME NEW s \in Callers, NEW u \in Holders, NEW n \in Amounts, ClaimRewards(s, u, n)
      PROVE  IndicesWhole'
  <2>1. asset' = settled /\ userIndex' = [userIndex EXCEPT ![s] = settled.index]
    BY <1>8 DEF ClaimRewards
  <2>2. \A v \in Holders : userIndex'[v] = userIndex[v] \/ userIndex'[v] = settled.index
    BY <1>1, <2>1 DEF TypeOK
  <2> QED BY <1>5, <2>1, <2>2
<1>9. ASSUME NEW r \in Emissions, NEW err \in ReportErrors, ConfigureAssets(r, err)
      PROVE  IndicesWhole'
  <2>1. asset' = [settled EXCEPT !.emissionPerSecond = r] /\ userIndex' = userIndex
    BY <1>1, <1>9 DEF ConfigureAssets, settled
  <2>2. asset'.index = settled.index /\ asset'.emissionPerSecond = r
    BY <1>2, <2>1 DEF AssetData
  <2> QED BY <1>2, <1>4, <2>1, <2>2 DEF IndicesWhole
<1>10. ASSUME UNCHANGED rewards
       PROVE  IndicesWhole'
  BY <1>10 DEF rewards, IndicesWhole
<1>11. ASSUME NEW s \in Callers, Cooldown(s)
       PROVE  IndicesWhole'
  BY <1>10, <1>11 DEF Cooldown
<1>12. CASE AdvanceTime \/ UNCHANGED vars
  BY <1>10, <1>12 DEF AdvanceTime, vars
<1> QED BY <1>7, <1>8, <1>9, <1>11, <1>12 DEF Next

(* Debts, payments and what is pending are all that was released.            *)
DebtIsEmission == (UNIT * PaidOut + Debt) + UNIT * Pending = UNIT * released

XInv == RInv /\ TokensConserved /\ IndicesWhole /\ DebtIsEmission

LEMMA WeightOfSettledExact ==
    ASSUME XInv, NoRounding, TypeOK', NEW u \in Holders, NEW p \in Nat,
           asset'.index = settled.index, userIndex'[u] = settled.index,
           stakerRewardsToClaim'[u] = (stakerRewardsToClaim[u] + Accrued(u)) - p
    PROVE  Weight(u)' = (Weight(u) + balance[u] * Growth) - UNIT * p
<1> DEFINE c == stakerRewardsToClaim[u] + Accrued(u)
           w == Weight(u) + balance[u] * Growth
<1>1. UNIT * c = w /\ c \in Nat
  BY SettledWeight, SettledWeightExact DEF XInv, RInv, IInv, TypeOK
<1>2. balance'[u] \in Nat /\ settled.index \in Int /\ UNIT \in Nat
  BY GrowthFacts, DistributionAssumption DEF XInv, TypeOK, AssetData
<1>3. balance'[u] * (settled.index - settled.index) = 0
  BY <1>2
<1>4. Weight(u)' = UNIT * (c - p) + 0
  BY <1>3 DEF Weight
<1> HIDE DEF c, w
<1>5. UNIT * (c - p) = UNIT * c - UNIT * p
  BY <1>1, <1>2
<1>6. UNIT * c \in Int /\ UNIT * p \in Int
  BY <1>1, <1>2
<1>7. Weight(u)' = UNIT * c - UNIT * p
  BY <1>4, <1>5, <1>6
<1>8. Weight(u)' = w - UNIT * p
  BY <1>1, <1>7
<1> QED BY <1>8 DEF w

LEMMA UpdateKeepsSum ==
    ASSUME XInv, NoRounding, TypeOK', NEW s \in Holders, NEW p \in Nat,
           \A u \in Holders : Weight(u)' = (Weight(u) + balance[u] * Growth)
                                              - (IF u = s THEN UNIT * p ELSE 0),
           asset'.lastUpdateTimestamp = now, now' = now, released' = released,
           token'[Vault] = token[Vault] - p
    PROVE  DebtIsEmission'
<1>1. /\ TypeOK /\ now \in Nat /\ totalSupply \in Nat /\ Pending \in Nat /\ UNIT \in Nat
      /\ Growth \in Nat /\ RInv
  BY GrowthFacts, DistributionAssumption DEF XInv, RInv, IInv, TypeOK
<1> DEFINE w == [u \in Holders |-> Weight(u)']
           g == [u \in Holders |-> (Weight(u) + balance[u] * Growth)
                                       - (IF u = s THEN UNIT * p ELSE 0)]
<1>2. \A u \in Holders : w[u] = g[u]
  OBVIOUS
<1>3. SumFunctionOnSet(g, Holders) = (Debt + Growth * totalSupply) - UNIT * p
  BY <1>1, DebtGrown
<1>4. Debt' = SumFunctionOnSet(w, Holders)
  BY WeightsNext DEF WeightsAddUp
<1> HIDE DEF w, g
<1>5. Debt' = (Debt + Growth * totalSupply) - UNIT * p
  BY <1>2, <1>3, <1>4, AccountsFinite, SumSame
<1>6. Pending' = 0
  BY <1>1, NothingPending DEF Pending, TypeOK
<1>7. Debt \in Int /\ Debt' \in Int
  BY <1>1, DebtInt, WeightsNext DEF WeightsAddUp
<1>8. PaidOut' = PaidOut + p /\ PaidOut \in Int /\ released \in Nat
  BY <1>1, HoldersFacts, StakedTokenAssumption DEF PaidOut, TypeOK
<1> DEFINE x == UNIT * PaidOut
           y == UNIT * Pending
           z == UNIT * released
           k == Growth * totalSupply
           q == UNIT * p
<1>9. /\ x \in Int /\ y \in Int /\ z \in Int /\ k \in Int /\ q \in Int
      /\ UNIT * 0 = 0 /\ k = totalSupply * Growth
      /\ UNIT * (PaidOut + p) = x + q
  BY <1>1, <1>8
<1>10. (x + Debt) + y = z /\ k = y /\ Debt' = (Debt + k) - q
  BY <1>5, <1>9, GrowthExact DEF XInv, DebtIsEmission
<1> HIDE DEF x, y, z, k, q
<1>11. ((x + q) + Debt') + 0 = z
  <2>1. \A d, d1 \in Int : (x + d) + y = z /\ k = y /\ d1 = (d + k) - q
                             => ((x + q) + d1) + 0 = z
    BY <1>9
  <2> QED BY <1>7, <1>10, <2>1
<1>12. UNIT * PaidOut' = x + q /\ UNIT * Pending' = 0 /\ UNIT * released' = z
  BY <1>6, <1>8, <1>9 DEF z
<1> QED BY <1>11, <1>12 DEF DebtIsEmission

LEMMA SettleKeepsSum ==
    ASSUME XInv, NoRounding, TypeOK', NEW users \in SUBSET Holders, users # {},
           Settle(users), \A u \in Holders \ users : balance'[u] = balance[u],
           now' = now, released' = released, token'[Vault] = token[Vault]
    PROVE  DebtIsEmission'
<1>1. /\ TypeOK /\ RInv /\ Growth \in Nat /\ settled.index = asset.index + Growth
      /\ settled.lastUpdateTimestamp = now
  BY GrowthFacts DEF XInv, RInv, IInv
<1>2. asset' = settled
  BY DEF Settle
<1>3. UNIT * 0 = 0
  BY DistributionAssumption
<1>4. ASSUME NEW u \in Holders
      PROVE  Weight(u)' = (Weight(u) + balance[u] * Growth) - 0
  <2>1. /\ Accrued(u) \in Nat /\ stakerRewardsToClaim[u] \in Nat
    BY <1>1, SettledWeight DEF TypeOK
  <2>2. CASE u \in users
    <3>1. /\ userIndex'[u] = settled.index
          /\ stakerRewardsToClaim'[u] = (stakerRewardsToClaim[u] + Accrued(u)) - 0
      BY <2>1, <2>2 DEF Settle
    <3> QED BY <1>2, <1>3, <3>1, WeightOfSettledExact
  <2>3. CASE u \notin users
    <3>1. /\ userIndex'[u] = userIndex[u]
          /\ stakerRewardsToClaim'[u] = stakerRewardsToClaim[u]
          /\ balance'[u] = balance[u]
      BY <2>3 DEF Settle
    <3>2. Weight(u)' = Weight(u) + balance[u] * Growth
      BY <1>1, <1>2, <3>1, WeightOfOther
    <3>3. Weight(u) \in Int /\ balance[u] * Growth \in Int
      BY <1>1, WeightInt, DistributionAssumption DEF TypeOK
    <3> QED BY <3>2, <3>3
  <2> QED BY <2>2, <2>3
<1>5. \A u \in Holders : Weight(u)' = (Weight(u) + balance[u] * Growth)
                                         - (IF u = This THEN UNIT * 0 ELSE 0)
  BY <1>3, <1>4
<1>6. token'[Vault] = token[Vault] - 0
  BY <1>1, HoldersFacts DEF TypeOK
<1> QED BY <1>1, <1>2, <1>5, <1>6, HoldersFacts, UpdateKeepsSum

LEMMA ClaimKeepsSum ==
    ASSUME XInv, NoRounding, TypeOK',
           NEW s \in Callers, NEW v \in Holders, NEW n \in Amounts, ClaimRewards(s, v, n)
    PROVE  DebtIsEmission'
<1> DEFINE p == Claimed(s, n)
<1>1. /\ TypeOK /\ RInv /\ Growth \in Nat /\ settled.index = asset.index + Growth
      /\ settled.lastUpdateTimestamp = now /\ s \in Holders
  BY GrowthFacts, HoldersFacts DEF XInv, RInv, IInv
<1>2. /\ p \in Nat /\ p <= token[Vault] /\ asset' = settled
      /\ token' = Move(token, Vault, v, p)
      /\ now' = now /\ released' = released /\ balance' = balance
      /\ stakerRewardsToClaim' = [stakerRewardsToClaim EXCEPT
           ![s] = (stakerRewardsToClaim[s] + Accrued(s)) - p]
      /\ userIndex' = [userIndex EXCEPT ![s] = settled.index]
  BY <1>1, ClaimMoves
<1> HIDE DEF p
<1>3. token'[Vault] = token[Vault] - p
  BY <1>1, <1>2, HoldersFacts, TokenMoved
<1>4. ASSUME NEW u \in Holders
      PROVE  Weight(u)' = (Weight(u) + balance[u] * Growth)
                             - (IF u = s THEN UNIT * p ELSE 0)
  <2>1. CASE u = s
    <3>1. /\ userIndex'[u] = settled.index
          /\ stakerRewardsToClaim'[u] = (stakerRewardsToClaim[u] + Accrued(u)) - p
      BY <1>1, <1>2, <2>1 DEF TypeOK
    <3>2. Weight(u)' = (Weight(u) + balance[u] * Growth) - UNIT * p
      BY <1>2, <3>1, WeightOfSettledExact
    <3> QED BY <2>1, <3>2
  <2>2. CASE u # s
    <3>1. /\ userIndex'[u] = userIndex[u]
          /\ stakerRewardsToClaim'[u] = stakerRewardsToClaim[u]
          /\ balance'[u] = balance[u]
      BY <1>1, <1>2, <2>2 DEF TypeOK
    <3>2. Weight(u)' = Weight(u) + balance[u] * Growth
      BY <1>1, <1>2, <3>1, WeightOfOther
    <3>3. Weight(u) \in Int /\ balance[u] * Growth \in Int
      BY <1>1, WeightInt, DistributionAssumption DEF TypeOK
    <3> QED BY <2>2, <3>2, <3>3
  <2> QED BY <2>1, <2>2
<1> QED BY <1>1, <1>2, <1>3, <1>4, UpdateKeepsSum

LEMMA ConfigureKeepsSum ==
    ASSUME XInv, NoRounding, TypeOK', NEW r \in Emissions, ConfigureAssets(r, 0)
    PROVE  DebtIsEmission'
<1>1. /\ TypeOK /\ RInv /\ Growth \in Nat /\ settled.index = asset.index + Growth
      /\ settled \in AssetData /\ settled.lastUpdateTimestamp = now
      /\ totalSupply + 0 = totalSupply
  BY GrowthFacts DEF XInv, RInv, IInv, TypeOK
<1>2. /\ asset' = [settled EXCEPT !.emissionPerSecond = r]
      /\ UNCHANGED <<now, token, balance, userIndex, stakerRewardsToClaim, released>>
  BY <1>1 DEF ConfigureAssets, accounts, settled
<1>3. asset'.lastUpdateTimestamp = now /\ asset'.index = settled.index
  BY <1>1, <1>2 DEF AssetData
<1>4. ASSUME NEW u \in Holders
      PROVE  Weight(u)' = (Weight(u) + balance[u] * Growth)
                             - (IF u = This THEN UNIT * 0 ELSE 0)
  <2>1. Weight(u)' = Weight(u) + balance[u] * Growth
    BY <1>1, <1>2, <1>3, WeightOfOther
  <2>2. Weight(u) \in Int /\ balance[u] * Growth \in Int /\ UNIT * 0 = 0
    BY <1>1, WeightInt, DistributionAssumption DEF TypeOK
  <2> QED BY <2>1, <2>2
<1>5. token'[Vault] = token[Vault] - 0
  BY <1>1, <1>2, HoldersFacts DEF TypeOK
<1> QED BY <1>2, <1>3, <1>4, <1>5, HoldersFacts, UpdateKeepsSum

LEMMA TimeKeepsSum ==
    ASSUME XInv, AdvanceTime
    PROVE  DebtIsEmission'
<1>0. RInv
  BY DEF XInv
<1>1. PICK r \in Nat : Pending' = Pending + r /\ released' = released + r
  BY <1>0, TimeReleases
<1>2. /\ Debt' = Debt /\ PaidOut' = PaidOut /\ Pending \in Nat /\ released \in Nat
      /\ Debt \in Int /\ PaidOut \in Int /\ UNIT \in Nat
  BY <1>0, TimeReleases, DebtInt, HoldersFacts, StakedTokenAssumption, DistributionAssumption
     DEF RInv, IInv, TypeOK, PaidOut
<1>3. /\ UNIT * (Pending + r) = UNIT * Pending + UNIT * r
      /\ UNIT * (released + r) = UNIT * released + UNIT * r
  BY <1>2
<1> DEFINE x == UNIT * PaidOut
           y == UNIT * Pending
           z == UNIT * released
           q == UNIT * r
<1>4. x \in Int /\ y \in Int /\ z \in Int /\ q \in Int
  BY <1>2
<1>5. (x + Debt) + y = z
  BY DEF XInv, DebtIsEmission
<1> HIDE DEF x, y, z, q
<1>6. (x + Debt) + (y + q) = z + q
  BY <1>2, <1>4, <1>5
<1>7. UNIT * PaidOut' = x /\ UNIT * Pending' = y + q /\ UNIT * released' = z + q
  BY <1>1, <1>2, <1>3 DEF x, y, z, q
<1> QED BY <1>2, <1>6, <1>7 DEF DebtIsEmission

LEMMA SumStep ==
    ASSUME ReportErrors = {0}, NoRounding, XInv, TypeOK', [Next]_vars
    PROVE  DebtIsEmission'
<1>0. TypeOK
  BY DEF XInv, RInv, IInv
<1>1. ASSUME NEW s \in Callers, NEW u \in Holders, NEW n \in Amounts,
             Stake(s, u, n) \/ Redeem(s, u, n) \/ Transfer(s, u, n)
      PROVE  DebtIsEmission'
  <2>1. PICK users \in SUBSET Holders : Settling(users)
    BY <1>0, <1>1, CallsSettle
  <2> QED BY <2>1, SettleKeepsSum DEF Settling
<1>2. ASSUME UNCHANGED <<now, accounts, rewards, released>>
      PROVE  DebtIsEmission'
  BY <1>2 DEF accounts, rewards, XInv, DebtIsEmission, PaidOut, Debt, Weight, Pending
<1>3. ASSUME NEW s \in Callers, Cooldown(s)
      PROVE  DebtIsEmission'
  BY <1>2, <1>3 DEF Cooldown
<1>4. CASE UNCHANGED vars
  BY <1>2, <1>4 DEF vars
<1> QED BY <1>1, <1>3, <1>4, ClaimKeepsSum, ConfigureKeepsSum, TimeKeepsSum DEF Next

LEMMA SumIsOwed ==
    ASSUME XInv, NoRounding
    PROVE  EveryRewardOwed
<1> DEFINE owed == [u \in Holders |-> Owed(u)]
           scaled == [u \in Holders |-> UNIT * Owed(u)]
           g == [u \in Holders |-> (Weight(u) + balance[u] * Growth)
                                       - (IF u = This THEN UNIT * 0 ELSE 0)]
<1>1. TypeOK /\ This \in Holders /\ RInv
  BY HoldersFacts DEF XInv, RInv, IInv
<1>2. /\ Growth \in Nat /\ Pending \in Nat /\ totalSupply \in Nat
      /\ totalSupply * Growth = UNIT * Pending
  BY <1>1, GrowthFacts, GrowthExact DEF XInv, TypeOK
<1>3. UNIT \in Nat /\ UNIT * 0 = 0
  BY DistributionAssumption
<1>4. ASSUME NEW u \in Holders
      PROVE  /\ owed[u] \in Int /\ scaled[u] \in Int
             /\ scaled[u] = UNIT * owed[u] /\ scaled[u] = g[u]
  <2>1. stakerRewardsToClaim[u] \in Nat /\ Accrued(u) \in Nat
    BY <1>1, SettledWeight DEF TypeOK
  <2>2. Owed(u) \in Nat /\ UNIT * Owed(u) = Weight(u) + balance[u] * Growth
    BY <1>1, <2>1, SettledWeight, SettledWeightExact DEF XInv
  <2>3. Weight(u) \in Int /\ balance[u] * Growth \in Int /\ UNIT * Owed(u) \in Int
    BY <1>1, <1>2, <1>3, <2>2, WeightInt DEF TypeOK
  <2> QED BY <1>3, <2>2, <2>3
<1>5. SumFunctionOnSet(g, Holders) = (Debt + Growth * totalSupply) - UNIT * 0
  BY <1>1, <1>2, DebtGrown
<1>6. TotalOwed = SumFunctionOnSet(owed, Holders)
  BY DEF TotalOwed, SumFunction
<1> HIDE DEF owed, scaled, g
<1>7. SumFunctionOnSet(scaled, Holders) = UNIT * SumFunctionOnSet(owed, Holders)
  BY <1>3, <1>4, AccountsFinite, SumScales
<1>8. SumFunctionOnSet(scaled, Holders) = SumFunctionOnSet(g, Holders)
  BY <1>4, AccountsFinite, SumSame
<1>9. SumFunctionOnSet(owed, Holders) \in Int
  BY <1>4, AccountsFinite, SumInt
<1>10. PaidOut \in Int /\ released \in Int /\ Debt \in Int
  BY <1>1, HoldersFacts, StakedTokenAssumption, DebtInt DEF PaidOut, TypeOK
<1> DEFINE x == UNIT * PaidOut
           y == UNIT * Pending
           z == UNIT * released
           k == Growth * totalSupply
           o == UNIT * TotalOwed
<1>11. /\ x \in Int /\ y \in Int /\ z \in Int /\ k \in Int /\ o \in Int
       /\ UNIT * (PaidOut + TotalOwed) = x + o /\ k = totalSupply * Growth
  BY <1>2, <1>3, <1>6, <1>9, <1>10
<1>12. o = Debt + k /\ k = y /\ (x + Debt) + y = z
  BY <1>2, <1>3, <1>5, <1>6, <1>7, <1>8, <1>10, <1>11 DEF XInv, DebtIsEmission
<1> HIDE DEF x, y, z, k, o
<1>13. x + o = z
  <2>1. x \in Int /\ y \in Int /\ z \in Int /\ k \in Int /\ o \in Int
    BY <1>11
  <2>2. \A d \in Int : o = d + k /\ k = y /\ (x + d) + y = z => x + o = z
    BY <2>1
  <2> QED BY <1>10, <1>12, <2>2
<1>14. UNIT * (PaidOut + TotalOwed) = UNIT * released
  BY <1>11, <1>13 DEF z
<1>15. PaidOut + TotalOwed \in Int
  BY <1>6, <1>9, <1>10
<1>16. /\ UNIT * (PaidOut + TotalOwed) <= UNIT * released
       /\ UNIT * released <= UNIT * (PaidOut + TotalOwed)
  <2>1. UNIT * released \in Int
    BY <1>3, <1>10
  <2> QED BY <1>14, <2>1
<1>17. PaidOut + TotalOwed <= released /\ released <= PaidOut + TotalOwed
  BY <1>10, <1>15, <1>16, CancelUnit
<1>18. PaidOut + TotalOwed = released
  BY <1>10, <1>15, <1>17
<1> QED BY <1>18 DEF EveryRewardOwed

(* EveryRewardOwed for any holders, amounts and scale of the indices: if the *)
(* reports are exact and every rate is a multiple of every supply the tokens *)
(* allow, claims and debts add up to all that was released.                  *)
THEOREM AllRewardsOwed ==
    ReportErrors = {0} /\ NoRounding => (Spec => []EveryRewardOwed)
<1> SUFFICES ASSUME ReportErrors = {0}, NoRounding PROVE Spec => []EveryRewardOwed
  OBVIOUS
<1>1. Init => IndicesWhole /\ DebtIsEmission
  <2>1. UNIT * 0 = 0 /\ (UNIT * 0 + 0) + UNIT * 0 = UNIT * 0
    BY DistributionAssumption
  <2>2. Init => DebtIsEmission
    BY <2>1, DebtInit DEF DebtIsEmission
  <2>3. Init => IndicesWhole
    BY <2>1 DEF Init, NoAsset, IndicesWhole
  <2> QED BY <2>2, <2>3
<1>2. IInv /\ ReceiptsBacked /\ TokensConserved /\ IInv'
        /\ IndicesWhole /\ DebtIsEmission /\ [Next]_vars
        => IndicesWhole' /\ DebtIsEmission'
  <2> SUFFICES ASSUME IInv, ReceiptsBacked, TokensConserved, IInv',
                      IndicesWhole, DebtIsEmission, [Next]_vars
               PROVE  IndicesWhole' /\ DebtIsEmission'
    OBVIOUS
  <2>1. RInv /\ XInv /\ TypeOK'
    BY DEF XInv, RInv, IInv
  <2>2. IndicesWhole'
    BY <2>1, WholeStep
  <2>3. DebtIsEmission'
    BY <2>1, SumStep
  <2> QED BY <2>2, <2>3
<1>3. IInv /\ ReceiptsBacked /\ TokensConserved /\ IndicesWhole /\ DebtIsEmission
        => EveryRewardOwed
  BY SumIsOwed DEF XInv, RInv
<1> QED BY <1>1, <1>2, <1>3, Invariance, ReceiptsAreBacked, TokensStayConserved, PTL DEF Spec

-----------------------------------------------------------------------------
(* The stream: StakedToken implements StreamedRewards                        *)

(* A sum is the same sum in the abstract specification.                      *)
LEMMA StreamedSum ==
    ASSUME NEW f, NEW S
    PROVE  Stream!SumFunctionOnSet(f, S) = SumFunctionOnSet(f, S)
  BY DEF SumFunctionOnSet, FoldFunctionOnSet, MapThenFoldSet,
         Stream!SumFunctionOnSet, Stream!FoldFunctionOnSet, Stream!MapThenFoldSet

LEMMA StreamedShares ==
    ASSUME RInv, NEW u \in Holders
    PROVE  /\ Stream!Least(u) = LeastStreamed(balance[u], asset.emissionPerSecond, totalSupply, now)
           /\ Stream!Most(u) = MostStreamed(balance[u], asset.emissionPerSecond, totalSupply, now)
<1> DEFINE stakes == [a \in {This} |-> balance]
           rates == [a \in {This} |-> asset.emissionPerSecond]
           least == [a \in {This} |-> Stream!LeastShare(a, u)]
           most == [a \in {This} |-> Stream!MostShare(a, u)]
           lo == LeastStreamed(balance[u], asset.emissionPerSecond, totalSupply, now)
           hi == MostStreamed(balance[u], asset.emissionPerSecond, totalSupply, now)
<1>1. /\ balance \in [Holders -> Nat] /\ totalSupply = SumFunctionOnSet(balance, Holders)
      /\ asset \in AssetData /\ totalSupply \in Nat /\ now \in Nat
      /\ asset.lastUpdateTimestamp <= now /\ balance[u] \in Nat
      /\ userIndex[u] \in Nat /\ userIndex[u] <= asset.index
  BY DEF RInv, IInv, TypeOK, IndicesOrdered, ReceiptsBacked, SumFunction
<1>2. lo \in Nat /\ hi \in Nat
  BY <1>1, SecondStreams
<1>3. Stream!Supply(This) = totalSupply
  BY <1>1, StreamedSum DEF Stream!Supply
<1>4. Stream!Streams(This) <=> totalSupply # 0 /\ now < DISTRIBUTION_END
  BY <1>3 DEF Stream!Streams
<1>5. Stream!LeastShare(This, u) = lo
  BY <1>3, <1>4 DEF Stream!LeastShare, LeastStreamed
<1>6. Stream!MostShare(This, u) = hi
  BY <1>3, <1>4 DEF Stream!MostShare, MostStreamed, Stream!DivUp, RoundedUp
<1>7. least[This] = lo /\ most[This] = hi
  BY <1>5, <1>6
<1>8. Stream!Least(u) = SumFunctionOnSet(least, {This}) /\ Stream!Most(u) = SumFunctionOnSet(most, {This})
  BY StreamedSum DEF Stream!Least, Stream!Most
<1> HIDE DEF least, most, lo, hi
<1>9. SumFunctionOnSet(least, {This}) = least[This] /\ SumFunctionOnSet(most, {This}) = most[This]
  BY <1>2, <1>7, SumOfOne
<1> QED BY <1>7, <1>8, <1>9 DEF lo, hi

LEMMA OwedNat ==
    ASSUME IInv, NEW u \in Holders
    PROVE  Owed(u) \in Nat
<1>1. /\ asset \in AssetData /\ totalSupply \in Nat /\ now \in Nat
      /\ asset.lastUpdateTimestamp <= now /\ balance[u] \in Nat
      /\ userIndex[u] \in Nat /\ userIndex[u] <= asset.index
      /\ stakerRewardsToClaim[u] \in Nat
  BY DEF IInv, TypeOK, IndicesOrdered
<1>2. GetRewards(balance[u], GetAssetIndex(asset, totalSupply, now), userIndex[u]) \in Nat
  BY <1>1, SecondStreams
<1> QED BY <1>1, <1>2 DEF Owed

OwedTyped == \A u \in Holders : Owed(u) \in Nat

LEMMA OwedTypedNow == IInv => OwedTyped
  BY OwedNat DEF OwedTyped

LEMMA OwedTypedThen == IInv' => OwedTyped'
  BY OwedTypedNow, PTL

LEMMA TimeStreams ==
    ASSUME RInv, AdvanceTime
    PROVE  Stream!Tick
<1>1. /\ now' = now + 1
      /\ UNCHANGED <<balance, totalSupply, asset, userIndex, stakerRewardsToClaim>>
  BY DEF AdvanceTime, accounts, rewards
<1>2. ASSUME NEW u \in Holders
      PROVE  Owed(u)' \in Nat /\ Owed(u)' \in Owed(u) + Stream!Least(u) .. Owed(u) + Stream!Most(u)
  <2> DEFINE before == GetRewards(balance[u], GetAssetIndex(asset, totalSupply, now), userIndex[u])
             after == GetRewards(balance[u], GetAssetIndex(asset, totalSupply, now + 1), userIndex[u])
             lo == LeastStreamed(balance[u], asset.emissionPerSecond, totalSupply, now)
             hi == MostStreamed(balance[u], asset.emissionPerSecond, totalSupply, now)
  <2>1. /\ asset \in AssetData /\ totalSupply \in Nat /\ now \in Nat
        /\ asset.lastUpdateTimestamp <= now /\ balance[u] \in Nat
        /\ userIndex[u] \in Nat /\ userIndex[u] <= asset.index
        /\ stakerRewardsToClaim[u] \in Nat
    BY DEF RInv, IInv, TypeOK, IndicesOrdered
  <2>2. /\ before \in Nat /\ after \in Nat /\ lo \in Nat /\ hi \in Nat
        /\ lo <= after - before /\ after - before <= hi
    BY <2>1, SecondStreams
  <2>3. Owed(u) = stakerRewardsToClaim[u] + before /\ Owed(u)' = stakerRewardsToClaim[u] + after
    BY <1>1 DEF Owed
  <2>4. Stream!Least(u) = lo /\ Stream!Most(u) = hi
    BY StreamedShares
  <2> HIDE DEF before, after, lo, hi
  <2> QED BY <2>1, <2>2, <2>3, <2>4
<1> QED BY <1>1, <1>2 DEF Stream!Tick

LEMMA CallsStream ==
    ASSUME ReportErrors = {0}, RInv, IInv', [Next]_vars, now' = now
    PROVE  [Stream!Next]_(Stream!vars)
<1>1. TypeOK /\ TypeOK' /\ IInv
  BY DEF RInv, IInv
<1>2. \A u \in Holders : Owed(u) \in Nat
  BY <1>1, OwedNat
<1>3. \A u \in Holders : Owed(u)' \in Nat
  BY OwedTypedThen DEF OwedTyped
<1>4. CASE ~\E s \in Callers, v \in Holders, n \in Amounts : ClaimRewards(s, v, n)
  <2>1. \A u \in Holders : Owed(u)' = Owed(u)
    BY <1>1, <1>4, CallsKeepOwed
  <2>2. [u \in Holders |-> Owed(u)]' = [u \in Holders |-> Owed(u)]
    BY <2>1
  <2>3. balance' \in [Holders -> Nat] /\ asset'.emissionPerSecond \in Nat
    BY <1>1 DEF TypeOK, AssetData
  <2> QED BY <2>2, <2>3 DEF Stream!Next, Stream!Move
<1>5. ASSUME NEW s \in Callers, NEW v \in Holders, NEW n \in Amounts, ClaimRewards(s, v, n)
      PROVE  Stream!Claim(s)
  <2>1. /\ s \in Holders /\ n \in Nat
    BY HoldersFacts, StakedTokenAssumption
  <2>2. /\ Owed(s) - Owed(s)' = token[Vault] - token'[Vault]
        /\ \A u \in Holders \ {s} : Owed(u)' = Owed(u)
    BY <1>1, <1>5, <2>1, ClaimPaysOwed
  <2>3. /\ Claimed(s, n) \in Nat /\ token' = Move(token, Vault, v, Claimed(s, n))
        /\ asset' = settled /\ UNCHANGED <<now, balance>>
        /\ Claimed(s, n) <= token[Vault]
    BY <1>1, <1>5, ClaimMoves
  <2>4. token'[Vault] = token[Vault] - Claimed(s, n) /\ token[Vault] \in Nat
    BY <1>1, <2>3, HoldersFacts DEF Move, TypeOK
  <2>5. Owed(s)' \in 0 .. Owed(s)
    BY <1>2, <1>3, <2>1, <2>2, <2>3, <2>4
  <2>6. asset'.emissionPerSecond = asset.emissionPerSecond
    BY <1>1, <2>3 DEF settled, UpdateAssetState, TypeOK, AssetData
  <2>7. [u \in Holders |-> Owed(u)]' = [[u \in Holders |-> Owed(u)] EXCEPT ![s] = Owed(s)']
    BY <2>2
  <2>8. Owed(s)' \in 0 .. [u \in Holders |-> Owed(u)][s]
    BY <2>1, <2>5
  <2>9. [a \in {This} |-> balance]' = [a \in {This} |-> balance]
    BY <2>3
  <2>10. [a \in {This} |-> asset.emissionPerSecond]' = [a \in {This} |-> asset.emissionPerSecond]
    BY <2>6
  <2> QED BY <2>3, <2>7, <2>8, <2>9, <2>10 DEF Stream!Claim
<1> QED BY <1>4, <1>5, HoldersFacts DEF Stream!Next

LEMMA StreamStarts == Init => Stream!Init
<1> SUFFICES ASSUME Init PROVE Stream!Init
  OBVIOUS
<1>1. TypeOK
  BY InitTyped
<1>2. /\ now \in Nat /\ balance = [u \in Holders |-> 0] /\ totalSupply = 0 /\ asset = NoAsset
  BY <1>1 DEF Init, TypeOK
<1>3. ASSUME NEW u \in Holders
      PROVE  Owed(u) = 0
  <2>1. GetAssetIndex(asset, totalSupply, now) = 0
    BY <1>2 DEF GetAssetIndex, Idle, NoAsset
  <2>2. userIndex[u] = 0 /\ stakerRewardsToClaim[u] = 0 /\ balance[u] = 0
    BY DEF Init
  <2>3. GetRewards(0, 0, 0) = 0
    BY NoRewardsSinceSettled
  <2> QED BY <2>1, <2>2, <2>3 DEF Owed
<1>4. asset.emissionPerSecond = 0
  BY <1>2 DEF NoAsset
<1> QED BY <1>2, <1>3, <1>4 DEF Stream!Init

LEMMA StreamStep ==
    ASSUME ReportErrors = {0}, RInv, IInv', [Next]_vars
    PROVE  [Stream!Next]_(Stream!vars)
<1>1. CASE AdvanceTime
  BY <1>1, TimeStreams DEF Stream!Next
<1>2. CASE ~AdvanceTime
  <2>1. now' = now
    BY <1>2 DEF Next, Stake, Redeem, Cooldown, ClaimRewards, Transfer, ConfigureAssets, vars
  <2> QED BY <2>1, CallsStream
<1> QED BY <1>1, <1>2

(* ImplementsStreamedRewards for any holders, amounts, rates and scale of    *)
(* the indices, however the divisions round: if reports are exact, every     *)
(* second adds to what a holder is owed his share of the rate, rounded       *)
(* twice, and nothing but his own claim takes from it.                       *)
THEOREM RewardsAreStreamed == ReportErrors = {0} => (Spec => ImplementsStreamedRewards)
<1> SUFFICES ASSUME ReportErrors = {0} PROVE Spec => ImplementsStreamedRewards
  OBVIOUS
<1>1. IInv /\ ReceiptsBacked /\ IInv' /\ [Next]_vars => [Stream!Next]_(Stream!vars)
  BY StreamStep DEF RInv
<1> QED BY <1>1, StreamStarts, Invariance, ReceiptsAreBacked, PTL
        DEF Spec, ImplementsStreamedRewards, Stream!Spec

=============================================================================
