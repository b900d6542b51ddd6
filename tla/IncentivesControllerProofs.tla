---------------------- MODULE IncentivesControllerProofs ----------------------
(***************************************************************************)
(* Theorems about IncentivesController, for any users, assets, lists of    *)
(* assets, amounts, rates, scale of the indices and extra reward.          *)
(***************************************************************************)
EXTENDS IncentivesController, DistributionManagerProofs, Sums

-----------------------------------------------------------------------------
(* What is true of every state, before any rewards are added up              *)

Typed ==
    /\ now \in Nat
    /\ poolBalance \in [Assets -> [Users -> Nat]]
    /\ poolSupply \in [Assets -> Nat]
    /\ assets \in [Assets -> AssetData]
    /\ userIndex \in [Assets -> [Users -> Nat]]
    /\ usersUnclaimedRewards \in [Users -> Nat]
    /\ initialized \in BOOLEAN
    /\ token \in [Recipients \cup {This, Vault, PSM} -> Nat]
    /\ psmStake \in [Recipients -> Nat]
    /\ payouts \in [Recipients -> Nat]

(* The pool reports the supplies that its balances add up to, and no index   *)
(* of a user is ahead of his asset's.                                        *)
Reported ==
    \A a \in Assets :
        /\ poolSupply[a] = SumFunctionOnSet(poolBalance[a], Users)
        /\ assets[a].lastUpdateTimestamp <= now
        /\ \A u \in Users : userIndex[a][u] <= assets[a].index

Books == Typed /\ Reported

(* The asset as an update now would leave it, and what settling a user in it *)
(* now would accrue.                                                         *)
Updated(a) == UpdateAssetState(assets[a], poolSupply[a], now)

Due(a, u) == AccruedRewards(poolBalance[a][u], Updated(a).index, userIndex[a][u])

DueOver(u, D) == SumFunctionOnSet([a \in Assets |-> Due(a, u)], D)

(* How much the index of an asset grows when it is updated now.              *)
Growth(a) == Updated(a).index - assets[a].index

LEMMA AssetFacts ==
    ASSUME Books, NEW a \in Assets
    PROVE  /\ assets[a] \in AssetData /\ poolSupply[a] \in Nat /\ now \in Nat
           /\ assets[a].index \in Nat /\ assets[a].lastUpdateTimestamp <= now
           /\ CanUpdate(assets[a], poolSupply[a], now)
           /\ Updated(a) \in AssetData /\ Updated(a).index \in Nat
           /\ Updated(a).lastUpdateTimestamp = now
           /\ Updated(a).index = GetAssetIndex(assets[a], poolSupply[a], now)
           /\ Growth(a) \in Nat /\ Updated(a).index = assets[a].index + Growth(a)
           /\ poolSupply[a] * Growth(a) <= UNIT * Accrual(assets[a], poolSupply[a], now)
           /\ Accrual(assets[a], poolSupply[a], now) \in Nat
<1>1. /\ assets[a] \in AssetData /\ poolSupply[a] \in Nat /\ now \in Nat
      /\ assets[a].lastUpdateTimestamp <= now
  BY DEF Books, Typed, Reported
<1>2. assets[a].index \in Nat
  BY <1>1 DEF AssetData
<1>3. /\ CanUpdate(assets[a], poolSupply[a], now)
      /\ Growth(a) \in Nat
      /\ poolSupply[a] * Growth(a) <= UNIT * Accrual(assets[a], poolSupply[a], now)
      /\ Accrual(assets[a], poolSupply[a], now) \in Nat
  BY <1>1, GrowthWithinAccrual DEF Growth, Updated
<1>4. Updated(a) \in AssetData /\ Updated(a).lastUpdateTimestamp = now
  BY <1>1, <1>3, UpdatedAsset DEF Updated
<1>5. Updated(a).index = GetAssetIndex(assets[a], poolSupply[a], now)
  BY <1>1 DEF Updated, UpdateAssetState, AssetData
<1>6. Updated(a).index \in Nat
  BY <1>4 DEF AssetData
<1>7. Updated(a).index = assets[a].index + Growth(a)
  BY <1>2, <1>6 DEF Growth
<1> QED BY <1>1, <1>2, <1>3, <1>4, <1>5, <1>6, <1>7

LEMMA UserFacts ==
    ASSUME Books, NEW a \in Assets, NEW u \in Users
    PROVE  /\ poolBalance[a][u] \in Nat /\ userIndex[a][u] \in Nat
           /\ userIndex[a][u] <= assets[a].index /\ userIndex[a][u] <= Updated(a).index
           /\ CanAccrue(poolBalance[a][u], Updated(a).index, userIndex[a][u])
           /\ Due(a, u) \in Nat
<1>1. /\ poolBalance[a][u] \in Nat /\ userIndex[a][u] \in Nat
      /\ userIndex[a][u] <= assets[a].index
  BY DEF Books, Typed, Reported
<1>2. userIndex[a][u] <= Updated(a).index /\ Updated(a).index \in Nat
  BY <1>1, AssetFacts
<1>3. CanAccrue(poolBalance[a][u], Updated(a).index, userIndex[a][u])
  BY <1>2 DEF CanAccrue
<1>4. Due(a, u) \in Nat
  BY <1>1, <1>2, <1>3, AccruedNat DEF Due
<1> QED BY <1>1, <1>2, <1>3, <1>4

(* Updating an asset again in the same second changes nothing, whatever      *)
(* rate it has got meanwhile, and whatever its supply.                       *)
LEMMA UpdatedTwice ==
    ASSUME NEW a \in AssetData, NEW total, NEW t, a.lastUpdateTimestamp = t
    PROVE  UpdateAssetState(a, total, t) = a /\ CanUpdate(a, total, t)
<1>1. GetAssetIndex(a, total, t) = a.index
  BY UpdatedIsIdle
<1>2. CanUpdate(a, total, t)
  BY DEF CanUpdate, Idle
<1> QED BY <1>1, <1>2 DEF UpdateAssetState, AssetData

-----------------------------------------------------------------------------
(* The loops over a list                                                     *)

(* The loop of a claim, step by step.                                        *)
IsSettling(u, list, upTo) ==
    upTo = [i \in 0 .. Len(list) |->
              IF i = 0
                THEN Unsettled(u)
                ELSE Settled(upTo[i - 1], list[i], poolBalance[list[i]][u], poolSupply[list[i]])]

(* What it has made of its state after the assets in D, in whatever order,   *)
(* and however often each was named.                                         *)
SettledIn(u, D) ==
    [assets  |-> [a \in Assets |-> IF a \in D THEN Updated(a) ELSE assets[a]],
     index   |-> [a \in Assets |-> IF a \in D THEN Updated(a).index ELSE userIndex[a][u]],
     accrued |-> DueOver(u, D),
     ok      |-> TRUE]

LEMMA NothingSettled ==
    ASSUME Books, NEW u \in Users
    PROVE  Unsettled(u) = SettledIn(u, {})
<1>1. DueOver(u, {}) = 0
  BY SumEmpty DEF DueOver
<1>2. assets = [a \in Assets |-> assets[a]]
  BY DEF Books, Typed
<1> QED BY <1>1, <1>2 DEF Unsettled, SettledIn

LEMMA DueAdds ==
    ASSUME Books, NEW u \in Users, NEW D \in SUBSET Assets, NEW a \in Assets, a \notin D
    PROVE  DueOver(u, D \cup {a}) = DueOver(u, D) + Due(a, u)
<1> DEFINE f == [b \in Assets |-> Due(b, u)]
           E == D \cup {a}
<1>1. IsFiniteSet(E) /\ IsFiniteSet(D)
  BY IncentivesAssumption, FS_Subset
<1>2. \A b \in E : f[b] \in Int
  BY UserFacts
<1>3. f[a] = Due(a, u) /\ f[a] \in Int
  BY <1>2
<1>4. E \ {a} = D /\ a \in E
  OBVIOUS
<1> HIDE DEF f, E
<1>5. SumFunctionOnSet(f, E) = f[a] + SumFunctionOnSet(f, D)
  BY <1>1, <1>2, <1>4, SumRemove
<1>6. SumFunctionOnSet(f, D) \in Int
  BY <1>1, <1>2, <1>4, SumInt
<1>7. SumFunctionOnSet(f, E) = SumFunctionOnSet(f, D) + Due(a, u)
  BY <1>3, <1>5, <1>6
<1> QED BY <1>7 DEF DueOver, f, E

(* One more asset, or one the loop has settled before.                       *)
LEMMA OneMoreSettled ==
    ASSUME Books, NEW u \in Users, NEW D \in SUBSET Assets, NEW a \in Assets
    PROVE  Settled(SettledIn(u, D), a, poolBalance[a][u], poolSupply[a]) = SettledIn(u, D \cup {a})
<1> DEFINE s == SettledIn(u, D)
           t == Settled(s, a, poolBalance[a][u], poolSupply[a])
           asset == UpdateAssetState(s.assets[a], poolSupply[a], now)
<1>1. /\ s.assets = [b \in Assets |-> IF b \in D THEN Updated(b) ELSE assets[b]]
      /\ s.index = [b \in Assets |-> IF b \in D THEN Updated(b).index ELSE userIndex[b][u]]
      /\ s.accrued = DueOver(u, D)
      /\ s.ok
  BY DEF SettledIn
<1>2. asset = Updated(a) /\ CanUpdate(s.assets[a], poolSupply[a], now)
  <2>1. CASE a \in D
    <3>1. s.assets[a] = Updated(a)
      BY <1>1, <2>1
    <3>2. Updated(a) \in AssetData /\ Updated(a).lastUpdateTimestamp = now
      BY AssetFacts
    <3>3. /\ UpdateAssetState(Updated(a), poolSupply[a], now) = Updated(a)
          /\ CanUpdate(Updated(a), poolSupply[a], now)
      BY <3>2, UpdatedTwice
    <3> HIDE DEF s
    <3> QED BY <3>1, <3>3
  <2>2. CASE a \notin D
    BY <1>1, <2>2, AssetFacts DEF Updated
  <2> QED BY <2>1, <2>2
<1>3. /\ AccruedRewards(poolBalance[a][u], asset.index, s.index[a])
           = IF a \in D THEN 0 ELSE Due(a, u)
      /\ CanAccrue(poolBalance[a][u], asset.index, s.index[a])
  <2>1. CASE a \in D
    <3>1. s.index[a] = asset.index /\ asset.index \in Nat
      BY <1>1, <1>2, <2>1, AssetFacts
    <3> QED BY <2>1, <3>1 DEF AccruedRewards, CanAccrue
  <2>2. CASE a \notin D
    <3>1. s.index[a] = userIndex[a][u] /\ asset.index = Updated(a).index
      BY <1>1, <1>2, <2>2
    <3> QED BY <2>2, <3>1, UserFacts DEF Due
  <2> QED BY <2>1, <2>2
<1>4. s.accrued + AccruedRewards(poolBalance[a][u], asset.index, s.index[a])
        = DueOver(u, D \cup {a})
  <2>1. CASE a \in D
    <3>1. D \cup {a} = D
      BY <2>1
    <3>2. DueOver(u, D) \in Int
      <4>1. IsFiniteSet(D)
        BY IncentivesAssumption, FS_Subset
      <4> DEFINE f == [b \in Assets |-> Due(b, u)]
      <4>2. \A b \in D : f[b] \in Int
        BY UserFacts
      <4> HIDE DEF f
      <4>3. SumFunctionOnSet(f, D) \in Int
        BY <4>1, <4>2, SumInt
      <4> QED BY <4>3 DEF f, DueOver
    <3>3. s.accrued + AccruedRewards(poolBalance[a][u], asset.index, s.index[a]) = DueOver(u, D)
      BY <1>1, <1>3, <2>1, <3>2
    <3> QED BY <3>1, <3>3
  <2>2. CASE a \notin D
    BY <1>1, <1>3, <2>2, DueAdds
  <2> QED BY <2>1, <2>2
<1>5. [s.assets EXCEPT ![a] = asset]
        = [b \in Assets |-> IF b \in D \cup {a} THEN Updated(b) ELSE assets[b]]
  <2> HIDE DEF asset
  <2> QED BY <1>1, <1>2
<1>6. [s.index EXCEPT ![a] = asset.index]
        = [b \in Assets |-> IF b \in D \cup {a} THEN Updated(b).index ELSE userIndex[b][u]]
  <2> HIDE DEF asset
  <2> QED BY <1>1, <1>2
<1>7. t = [assets  |-> [s.assets EXCEPT ![a] = asset],
           index   |-> [s.index EXCEPT ![a] = asset.index],
           accrued |-> s.accrued + AccruedRewards(poolBalance[a][u], asset.index, s.index[a]),
           ok      |-> TRUE]
  BY <1>1, <1>2, <1>3 DEF Settled
<1> QED BY <1>4, <1>5, <1>6, <1>7 DEF SettledIn

(* A claim over a list settles its user in the assets the list names.        *)
LEMMA ListSettled ==
    ASSUME Books, NEW u \in Users, NEW list \in Lists
    PROVE  \E D \in SUBSET Assets : SettledOver(u, list) = SettledIn(u, D)
<1> DEFINE n == Len(list)
           S == {SettledIn(u, D) : D \in SUBSET Assets}
           Round(i, s) == Settled(s, list[i], poolBalance[list[i]][u], poolSupply[list[i]])
           round == [i \in 1 .. n |-> [s \in S |-> Round(i, s)]]
           upTo == CHOOSE f : IsSettling(u, list, f)
<1>1. n \in Nat /\ \A i \in 1 .. n : list[i] \in Assets
  BY DEF Lists, SeqOf
<1>2. Unsettled(u) \in S
  BY NothingSettled
<1>3. ASSUME NEW i \in 1 .. n, NEW s \in S
      PROVE  Round(i, s) \in S
  <2>1. PICK D \in SUBSET Assets : s = SettledIn(u, D)
    OBVIOUS
  <2>2. list[i] \in Assets /\ D \cup {list[i]} \in SUBSET Assets
    BY <1>1
  <2>3. Round(i, s) = SettledIn(u, D \cup {list[i]})
    BY <2>1, <2>2, OneMoreSettled
  <2> QED BY <2>2, <2>3
<1> HIDE DEF Round, S
<1>4. round \in [1 .. n -> [S -> S]]
  BY <1>3
<1>5. \E f : IsSettling(u, list, f)
  <2> HIDE DEF n, round
  <2>1. PICK f : IsLoop(n, Unsettled(u), round, f)
    BY <1>1, <1>2, <1>4, LoopExists
  <2>2. f[0] = Unsettled(u) /\ \A i \in 1 .. n : f[i] = round[i][f[i - 1]]
    BY <1>1, <2>1 DEF IsLoop
  <2>3. ASSUME NEW i \in 0 .. n
        PROVE  f[i] \in S
    <3>1. \A k \in 1 .. i : f[k - 1] \in S => f[k] \in S
      BY <1>1, <1>4, <2>2
    <3> QED BY <1>1, <1>2, <2>2, <3>1, LoopStays
  <2>4. \A i \in 1 .. n : i - 1 \in 0 .. n
    BY <1>1
  <2>5. \A i \in 1 .. n, s \in S : round[i][s] = Round(i, s)
    BY DEF round
  <2>6. \A i \in 1 .. n : f[i] = Round(i, f[i - 1])
    BY <2>2, <2>3, <2>4, <2>5
  <2> DEFINE g == [i \in 0 .. n |-> IF i = 0 THEN Unsettled(u) ELSE Round(i, f[i - 1])]
  <2>7. \A i \in 0 .. n : f[i] = g[i]
    BY <1>1, <2>2, <2>6
  <2>8. f = [i \in 0 .. n |-> f[i]] /\ g = [i \in 0 .. n |-> g[i]]
    BY <2>1 DEF IsLoop
  <2>9. f = g
    <3> HIDE DEF g
    <3> QED BY <2>7, <2>8
  <2> QED BY <2>9 DEF IsSettling, n, Round
<1>6. IsSettling(u, list, upTo)
  BY <1>5
<1>7. SettledOver(u, list) = upTo[n]
  BY DEF SettledOver, IsSettling
<1> HIDE DEF upTo
<1>8. upTo[0] = Unsettled(u) /\ \A i \in 1 .. n : upTo[i] = Round(i, upTo[i - 1])
  BY <1>1, <1>6 DEF IsSettling, Round
<1>9. upTo[n] \in S
  <2> HIDE DEF n
  <2> QED BY <1>1, <1>2, <1>3, <1>8, LoopStays
<1> QED BY <1>7, <1>9 DEF S

(* The loop of configureAssets, in the same way.                             *)
IsConfiguring(list, emission, upTo) ==
    upTo = [i \in 0 .. Len(list) |->
              IF i = 0
                THEN [assets |-> assets, ok |-> TRUE]
                ELSE Configured(upTo[i - 1], list[i], emission)]

ConfiguredIn(emission, D) ==
    [assets |-> [a \in Assets |-> IF a \in D
                                    THEN [Updated(a) EXCEPT !.emissionPerSecond = emission]
                                    ELSE assets[a]],
     ok     |-> TRUE]

LEMMA OneMoreConfigured ==
    ASSUME Books, NEW emission \in Nat, NEW D \in SUBSET Assets, NEW a \in Assets
    PROVE  Configured(ConfiguredIn(emission, D), a, emission) = ConfiguredIn(emission, D \cup {a})
<1> DEFINE s == ConfiguredIn(emission, D)
           asset == [UpdateAssetState(s.assets[a], poolSupply[a], now)
                       EXCEPT !.emissionPerSecond = emission]
           new(b) == [Updated(b) EXCEPT !.emissionPerSecond = emission]
<1>1. s.assets = [b \in Assets |-> IF b \in D THEN new(b) ELSE assets[b]] /\ s.ok
  BY DEF ConfiguredIn
<1>2. Updated(a) \in AssetData /\ Updated(a).lastUpdateTimestamp = now
  BY AssetFacts
<1>3. /\ new(a) \in AssetData /\ new(a).lastUpdateTimestamp = now
      /\ [new(a) EXCEPT !.emissionPerSecond = emission] = new(a)
  BY <1>2 DEF AssetData
<1>4. asset = new(a) /\ CanUpdate(s.assets[a], poolSupply[a], now)
  <2>1. CASE a \in D
    <3>1. s.assets[a] = new(a)
      BY <1>1, <2>1
    <3>2. /\ UpdateAssetState(new(a), poolSupply[a], now) = new(a)
          /\ CanUpdate(new(a), poolSupply[a], now)
      BY <1>3, UpdatedTwice
    <3> HIDE DEF s, new
    <3> QED BY <1>3, <3>1, <3>2
  <2>2. CASE a \notin D
    <3>1. s.assets[a] = assets[a]
      BY <1>1, <2>2
    <3> QED BY <3>1, AssetFacts DEF Updated
  <2> QED BY <2>1, <2>2
<1>5. Configured(s, a, emission) = [assets |-> [s.assets EXCEPT ![a] = asset], ok |-> TRUE]
  BY <1>1, <1>4 DEF Configured
<1>6. [s.assets EXCEPT ![a] = asset]
        = [b \in Assets |-> IF b \in D \cup {a} THEN new(b) ELSE assets[b]]
  <2> HIDE DEF asset, new
  <2> QED BY <1>1, <1>4
<1> QED BY <1>5, <1>6 DEF ConfiguredIn

LEMMA ListConfigured ==
    ASSUME Books, NEW emission \in Nat, NEW list \in Lists
    PROVE  \E D \in SUBSET Assets : ConfiguredOver(list, emission) = ConfiguredIn(emission, D)
<1> DEFINE n == Len(list)
           S == {ConfiguredIn(emission, D) : D \in SUBSET Assets}
           start == [assets |-> assets, ok |-> TRUE]
           Round(i, s) == Configured(s, list[i], emission)
           round == [i \in 1 .. n |-> [s \in S |-> Round(i, s)]]
           upTo == CHOOSE f : IsConfiguring(list, emission, f)
<1>1. n \in Nat /\ \A i \in 1 .. n : list[i] \in Assets
  BY DEF Lists, SeqOf
<1>2. start \in S
  <2>1. assets = [a \in Assets |-> assets[a]]
    BY DEF Books, Typed
  <2>2. start = ConfiguredIn(emission, {})
    BY <2>1 DEF ConfiguredIn
  <2> QED BY <2>2
<1>3. ASSUME NEW i \in 1 .. n, NEW s \in S
      PROVE  Round(i, s) \in S
  <2>1. PICK D \in SUBSET Assets : s = ConfiguredIn(emission, D)
    OBVIOUS
  <2>2. list[i] \in Assets /\ D \cup {list[i]} \in SUBSET Assets
    BY <1>1
  <2>3. Round(i, s) = ConfiguredIn(emission, D \cup {list[i]})
    BY <2>1, <2>2, OneMoreConfigured
  <2> QED BY <2>2, <2>3
<1> HIDE DEF Round, S, start
<1>4. round \in [1 .. n -> [S -> S]]
  BY <1>3
<1>5. \E f : IsConfiguring(list, emission, f)
  <2> HIDE DEF n, round
  <2>1. PICK f : IsLoop(n, start, round, f)
    BY <1>1, <1>2, <1>4, LoopExists
  <2>2. f[0] = start /\ \A i \in 1 .. n : f[i] = round[i][f[i - 1]]
    BY <1>1, <2>1 DEF IsLoop
  <2>3. ASSUME NEW i \in 0 .. n
        PROVE  f[i] \in S
    <3>1. \A k \in 1 .. i : f[k - 1] \in S => f[k] \in S
      BY <1>1, <1>4, <2>2
    <3> QED BY <1>1, <1>2, <2>2, <3>1, LoopStays
  <2>4. \A i \in 1 .. n : i - 1 \in 0 .. n
    BY <1>1
  <2>5. \A i \in 1 .. n, s \in S : round[i][s] = Round(i, s)
    BY DEF round
  <2>6. \A i \in 1 .. n : f[i] = Round(i, f[i - 1])
    BY <2>2, <2>3, <2>4, <2>5
  <2> DEFINE g == [i \in 0 .. n |-> IF i = 0 THEN start ELSE Round(i, f[i - 1])]
  <2>7. \A i \in 0 .. n : f[i] = g[i]
    BY <1>1, <2>2, <2>6
  <2>8. f = [i \in 0 .. n |-> f[i]] /\ g = [i \in 0 .. n |-> g[i]]
    BY <2>1 DEF IsLoop
  <2>9. f = g
    <3> HIDE DEF g
    <3> QED BY <2>7, <2>8
  <2> QED BY <2>9 DEF IsConfiguring, n, Round, start
<1>6. IsConfiguring(list, emission, upTo)
  BY <1>5
<1>7. ConfiguredOver(list, emission) = upTo[n]
  BY DEF ConfiguredOver, IsConfiguring
<1> HIDE DEF upTo
<1>8. upTo[0] = start /\ \A i \in 1 .. n : upTo[i] = Round(i, upTo[i - 1])
  <2>1. upTo = [i \in 0 .. n |-> IF i = 0 THEN start ELSE Round(i, upTo[i - 1])]
    BY <1>6 DEF IsConfiguring, Round, start
  <2>2. 0 \in 0 .. n /\ \A i \in 1 .. n : i \in 0 .. n /\ i # 0
    BY <1>1
  <2> HIDE DEF n
  <2>3. upTo[0] = start
    BY <2>1, <2>2
  <2>4. ASSUME NEW i \in 1 .. n
        PROVE  upTo[i] = Round(i, upTo[i - 1])
    BY <2>1, <2>2
  <2> QED BY <2>3, <2>4
<1>9. upTo[n] \in S
  <2> HIDE DEF n
  <2> QED BY <1>1, <1>2, <1>3, <1>8, LoopStays
<1> QED BY <1>7, <1>9 DEF S

-----------------------------------------------------------------------------
(* What the transactions do to the distribution                              *)

(* The users in W are settled in the assets in D, which are updated; nobody  *)
(* else's position changes, and the balances and the supply of the other     *)
(* assets do not either.  A new rate may have been set for the assets in D.  *)
Settlement(W, D) ==
    /\ now' = now
    /\ \A a \in Assets :
         IF a \in D
           THEN /\ assets'[a].index = Updated(a).index
                /\ assets'[a].lastUpdateTimestamp = now
                /\ \A u \in W : userIndex'[a][u] = Updated(a).index
           ELSE /\ assets'[a] = assets[a]
                /\ poolSupply'[a] = poolSupply[a]
    /\ \A a \in Assets, u \in Users :
         a \notin D \/ u \notin W => /\ userIndex'[a][u] = userIndex[a][u]
                                     /\ poolBalance'[a][u] = poolBalance[a][u]

(* What becomes of assets and indices when a user is settled.                *)
Stores(u, D) ==
    /\ assets' = SettledIn(u, D).assets
    /\ userIndex' = [a \in Assets |-> [userIndex[a] EXCEPT ![u] = SettledIn(u, D).index[a]]]

LEMMA StoredTypes ==
    ASSUME Books, NEW u \in Users, NEW D \in SUBSET Assets, Stores(u, D)
    PROVE  /\ assets' \in [Assets -> AssetData]
           /\ userIndex' \in [Assets -> [Users -> Nat]]
           /\ \A a \in D : /\ assets'[a].index = Updated(a).index
                           /\ assets'[a].lastUpdateTimestamp = now
                           /\ userIndex'[a][u] = Updated(a).index
                           /\ assets'[a].emissionPerSecond = assets[a].emissionPerSecond
           /\ \A a \in Assets \ D : assets'[a] = assets[a]
           /\ \A a \in Assets, v \in Users :
                a \notin D \/ v # u => userIndex'[a][v] = userIndex[a][v]
<1>1. /\ assets' = [a \in Assets |-> IF a \in D THEN Updated(a) ELSE assets[a]]
      /\ userIndex' = [a \in Assets |-> [userIndex[a] EXCEPT ![u] =
                         IF a \in D THEN Updated(a).index ELSE userIndex[a][u]]]
  BY DEF Stores, SettledIn
<1>2. \A a \in Assets : /\ Updated(a) \in AssetData /\ Updated(a).index \in Nat
                        /\ Updated(a).lastUpdateTimestamp = now
                        /\ assets[a] \in AssetData
  BY AssetFacts
<1>3. userIndex \in [Assets -> [Users -> Nat]]
  BY DEF Books, Typed
<1>4. \A a \in Assets : Updated(a).emissionPerSecond = assets[a].emissionPerSecond
  BY <1>2 DEF Updated, UpdateAssetState, AssetData
<1>5. assets' \in [Assets -> AssetData]
  BY <1>1, <1>2
<1>6. ASSUME NEW a \in Assets
      PROVE  /\ userIndex'[a] \in [Users -> Nat]
             /\ userIndex'[a][u] = IF a \in D THEN Updated(a).index ELSE userIndex[a][u]
             /\ \A v \in Users \ {u} : userIndex'[a][v] = userIndex[a][v]
  BY <1>1, <1>2, <1>3
<1>7. userIndex' \in [Assets -> [Users -> Nat]]
  BY <1>1, <1>6
<1>8. \A a \in D : /\ assets'[a].index = Updated(a).index
                   /\ assets'[a].lastUpdateTimestamp = now
                   /\ userIndex'[a][u] = Updated(a).index
                   /\ assets'[a].emissionPerSecond = assets[a].emissionPerSecond
  BY <1>1, <1>2, <1>4, <1>6
<1>9. \A a \in Assets \ D : assets'[a] = assets[a]
  BY <1>1
<1>10. \A a \in Assets, v \in Users :
         a \notin D \/ v # u => userIndex'[a][v] = userIndex[a][v]
  BY <1>6
<1> QED BY <1>5, <1>7, <1>8, <1>9, <1>10

(* handleAction settles its user in one asset; a claim, in the assets of its *)
(* list.                                                                     *)
LEMMA ActionStores ==
    ASSUME Books, NEW a \in Assets, NEW u \in Users,
           HandleAction(a, u, poolBalance[a][u], poolSupply[a])
    PROVE  /\ Stores(u, {a})
           /\ usersUnclaimedRewards' =
                [usersUnclaimedRewards EXCEPT ![u] = @ + DueOver(u, {a})]
<1>1. Settled(Unsettled(u), a, poolBalance[a][u], poolSupply[a]) = SettledIn(u, {} \cup {a})
  BY NothingSettled, OneMoreSettled
<1>2. {} \cup {a} = {a}
  OBVIOUS
<1>3. Settled(Unsettled(u), a, poolBalance[a][u], poolSupply[a]) = SettledIn(u, {a})
  BY <1>1, <1>2
<1>4. SettledIn(u, {a}).accrued = DueOver(u, {a})
  BY DEF SettledIn
<1> QED BY <1>3, <1>4 DEF HandleAction, StoreDistribution, Stores

LEMMA ClaimStores ==
    ASSUME Books, NEW u \in Users, NEW list \in Lists, NEW amount, NEW to, NEW stake,
           ClaimRewards(u, list, amount, to, stake)
    PROVE  \E D \in SUBSET Assets :
             /\ SettledOver(u, list) = SettledIn(u, D)
             /\ SettledOver(u, list).accrued = DueOver(u, D)
             /\ Stores(u, D)
<1>1. PICK D \in SUBSET Assets : SettledOver(u, list) = SettledIn(u, D)
  BY ListSettled
<1>2. SettledIn(u, D).accrued = DueOver(u, D)
  BY DEF SettledIn
<1>3. Stores(u, D)
  BY <1>1 DEF ClaimRewards, StoreDistribution, Stores
<1> QED BY <1>1, <1>2, <1>3

LEMMA ActionSettles ==
    ASSUME Books, NEW a \in Assets, NEW u \in Users, NEW b, PoolAction(a, u, b)
    PROVE  Settlement({u}, {a})
<1>1. Stores(u, {a})
  BY ActionStores DEF PoolAction
<1>2. /\ now' = now
      /\ poolBalance' = [poolBalance EXCEPT ![a][u] = b]
      /\ poolSupply' = [poolSupply EXCEPT ![a] = @ - poolBalance[a][u] + b]
  BY DEF PoolAction
<1>3. poolBalance \in [Assets -> [Users -> Nat]] /\ poolSupply \in [Assets -> Nat]
  BY DEF Books, Typed
<1>4. \A c \in Assets \ {a} : poolSupply'[c] = poolSupply[c]
  BY <1>2, <1>3
<1>5. \A c \in Assets, v \in Users :
        c # a \/ v # u => poolBalance'[c][v] = poolBalance[c][v]
  BY <1>2, <1>3
<1> QED BY <1>1, <1>2, <1>4, <1>5, StoredTypes DEF Settlement

LEMMA ClaimSettlement ==
    ASSUME Books, NEW u \in Users, NEW D \in SUBSET Assets, Stores(u, D),
           UNCHANGED <<now, pool>>
    PROVE  Settlement({u}, D)
<1>1. now' = now /\ poolBalance' = poolBalance /\ poolSupply' = poolSupply
  BY DEF pool
<1> QED BY <1>1, StoredTypes DEF Settlement

(* configureAssets updates the assets of its list and sets their rate.       *)
LEMMA ConfigureSettles ==
    ASSUME Books, NEW list \in Lists, NEW e \in Emissions, ConfigureAssets(list, e)
    PROVE  /\ assets' \in [Assets -> AssetData]
           /\ \E D \in SUBSET Assets :
                /\ Settlement({}, D)
                /\ \A a \in D : assets'[a].emissionPerSecond = e
<1>1. e \in Nat
  BY IncentivesAssumption
<1>2. PICK D \in SUBSET Assets : ConfiguredOver(list, e) = ConfiguredIn(e, D)
  BY <1>1, ListConfigured
<1>3. assets' = [a \in Assets |-> IF a \in D
                                    THEN [Updated(a) EXCEPT !.emissionPerSecond = e]
                                    ELSE assets[a]]
  BY <1>2 DEF ConfigureAssets, ConfiguredIn
<1>4. \A a \in Assets : /\ Updated(a) \in AssetData /\ assets[a] \in AssetData
                        /\ Updated(a).lastUpdateTimestamp = now
  BY AssetFacts
<1>5. \A a \in Assets : LET new == [Updated(a) EXCEPT !.emissionPerSecond = e]
                        IN  /\ new \in AssetData /\ new.index = Updated(a).index
                            /\ new.lastUpdateTimestamp = now /\ new.emissionPerSecond = e
  BY <1>1, <1>4 DEF AssetData
<1>6. assets' \in [Assets -> AssetData]
  BY <1>3, <1>4, <1>5
<1>7. \A a \in D : /\ assets'[a].index = Updated(a).index
                   /\ assets'[a].lastUpdateTimestamp = now
                   /\ assets'[a].emissionPerSecond = e
  BY <1>3, <1>5
<1>8. \A a \in Assets \ D : assets'[a] = assets[a]
  BY <1>3
<1>9. now' = now /\ poolBalance' = poolBalance /\ poolSupply' = poolSupply /\ userIndex' = userIndex
  BY DEF ConfigureAssets, pool
<1>10. Settlement({}, D)
  BY <1>7, <1>8, <1>9 DEF Settlement
<1> QED BY <1>6, <1>7, <1>10

-----------------------------------------------------------------------------
(* What users are due                                                        *)

(* In a settlement those who are settled are due nothing any more; for the   *)
(* others it makes no difference that the assets were updated.               *)
LEMMA DueAfter ==
    ASSUME Books, Books', NEW W \in SUBSET Users, NEW D \in SUBSET Assets, Settlement(W, D),
           NEW a \in Assets, NEW u \in Users
    PROVE  Due(a, u)' = IF u \in W /\ a \in D THEN 0 ELSE Due(a, u)
<1>1. /\ assets'[a] \in AssetData /\ assets'[a].index \in Nat /\ poolSupply'[a] \in Nat
      /\ Updated(a) \in AssetData /\ Updated(a).index \in Nat
      /\ now' = now
  BY AssetFacts DEF Books, Typed, AssetData, Settlement
<1>2. Due(a, u)' = AccruedRewards(poolBalance'[a][u],
                     UpdateAssetState(assets'[a], poolSupply'[a], now).index, userIndex'[a][u])
  BY <1>1 DEF Due, Updated
<1>3. CASE a \in D
  <2>1. assets'[a].index = Updated(a).index /\ assets'[a].lastUpdateTimestamp = now
    BY <1>3 DEF Settlement
  <2>2. UpdateAssetState(assets'[a], poolSupply'[a], now) = assets'[a]
    BY <1>1, <2>1, UpdatedTwice
  <2>3. CASE u \in W
    <3>1. userIndex'[a][u] = Updated(a).index
      BY <1>3, <2>3 DEF Settlement
    <3> QED BY <1>2, <1>3, <2>1, <2>2, <2>3, <3>1 DEF AccruedRewards
  <2>4. CASE u \notin W
    <3>1. userIndex'[a][u] = userIndex[a][u] /\ poolBalance'[a][u] = poolBalance[a][u]
      BY <2>4 DEF Settlement
    <3> QED BY <1>2, <2>1, <2>2, <2>4, <3>1 DEF Due
  <2> QED BY <2>3, <2>4
<1>4. CASE a \notin D
  <2>1. /\ assets'[a] = assets[a] /\ poolSupply'[a] = poolSupply[a]
        /\ userIndex'[a][u] = userIndex[a][u] /\ poolBalance'[a][u] = poolBalance[a][u]
    BY <1>4 DEF Settlement
  <2> QED BY <1>2, <1>4, <2>1 DEF Due, Updated
<1> QED BY <1>3, <1>4

LEMMA DueInt ==
    ASSUME Books, NEW u \in Users, NEW D \in SUBSET Assets
    PROVE  DueOver(u, D) \in Nat
<1> DEFINE f == [a \in Assets |-> Due(a, u)]
<1>1. IsFiniteSet(D)
  BY IncentivesAssumption, FS_Subset
<1>2. \A a \in D : f[a] \in Nat
  BY UserFacts
<1> HIDE DEF f
<1>3. SumFunctionOnSet(f, D) \in Nat
  BY <1>1, <1>2, SumNat
<1> QED BY <1>3 DEF DueOver, f

LEMMA DueOverAfter ==
    ASSUME Books, Books', NEW W \in SUBSET Users, NEW D \in SUBSET Assets, Settlement(W, D),
           NEW u \in Users
    PROVE  DueOver(u, Assets)' = DueOver(u, Assets) - (IF u \in W THEN DueOver(u, D) ELSE 0)
<1> DEFINE f == [a \in Assets |-> Due(a, u)]
           g == [a \in Assets |-> Due(a, u)']
           part == [a \in Assets |-> IF a \in D THEN f[a] ELSE 0]
<1>1. \A a \in Assets : /\ f[a] \in Int
                        /\ g[a] = IF u \in W /\ a \in D THEN 0 ELSE f[a]
                        /\ part[a] = IF a \in D THEN f[a] ELSE 0
  BY UserFacts, DueAfter
<1>2. DueOver(u, Assets) = SumFunctionOnSet(f, Assets) /\ DueOver(u, D) = SumFunctionOnSet(f, D)
  BY DEF DueOver
<1>3. DueOver(u, Assets)' = SumFunctionOnSet(g, Assets)
  BY DEF DueOver
<1>4. IsFiniteSet(Assets)
  BY IncentivesAssumption
<1>5. SumFunctionOnSet(f, Assets) \in Int /\ DueOver(u, D) \in Int
  BY <1>2, DueInt
<1> HIDE DEF f, g, part
<1>6. CASE u \in W
  <2>1. SumFunctionOnSet(part, Assets) = SumFunctionOnSet(f, D)
    BY <1>1, <1>4, SumOfPart
  <2>2. \A a \in Assets : part[a] \in Int /\ g[a] \in Int /\ f[a] = part[a] + g[a]
    BY <1>1, <1>6
  <2>3. SumFunctionOnSet(f, Assets) = SumFunctionOnSet(part, Assets) + SumFunctionOnSet(g, Assets)
    BY <1>4, <2>2, SumAdds
  <2>4. SumFunctionOnSet(g, Assets) \in Int
    BY <1>4, <2>2, SumInt
  <2> QED BY <1>2, <1>3, <1>5, <1>6, <2>1, <2>3, <2>4
<1>7. CASE u \notin W
  <2>1. \A a \in Assets : g[a] = f[a]
    BY <1>1, <1>7
  <2>2. SumFunctionOnSet(g, Assets) = SumFunctionOnSet(f, Assets)
    BY <1>4, <2>1, SumSame
  <2> QED BY <1>2, <1>3, <1>5, <1>7, <2>2
<1> QED BY <1>6, <1>7

(* What getRewardsBalance reports is what is kept and what settling would    *)
(* add.                                                                      *)
OwedIsDue == \A u \in Users : Owed(u) = usersUnclaimedRewards[u] + DueOver(u, Assets)

LEMMA OwedSplits == Books => OwedIsDue
<1> SUFFICES ASSUME Books, NEW u \in Users
             PROVE  Owed(u) = usersUnclaimedRewards[u] + DueOver(u, Assets)
  BY DEF OwedIsDue
<1> DEFINE f == [a \in Assets |-> GetRewards(poolBalance[a][u],
                  GetAssetIndex(assets[a], poolSupply[a], now), userIndex[a][u])]
           g == [a \in Assets |-> Due(a, u)]
<1>1. ASSUME NEW a \in Assets
      PROVE  f[a] = g[a]
  <2>1. Updated(a).index = GetAssetIndex(assets[a], poolSupply[a], now) /\ Updated(a).index \in Nat
    BY AssetFacts
  <2>2. poolBalance[a][u] \in Nat /\ userIndex[a][u] \in Nat
    BY UserFacts
  <2>3. Due(a, u) = GetRewards(poolBalance[a][u], Updated(a).index, userIndex[a][u])
    BY <2>1, <2>2, AccruedIsRewards DEF Due
  <2> QED BY <2>1, <2>3
<1>2. f = g
  BY <1>1
<1>3. SumFunction(f) = SumFunctionOnSet(f, Assets)
  BY DEF SumFunction
<1> HIDE DEF f, g
<1>4. SumFunction(f) = SumFunctionOnSet(g, Assets)
  BY <1>2, <1>3
<1> QED BY <1>4 DEF Owed, DueOver, f, g

LEMMA OwedSplitsThen == Books' => OwedIsDue'
  BY OwedSplits, PTL

-----------------------------------------------------------------------------
(* The books are kept                                                        *)

(* The supply of an asset follows its balances.                              *)
LEMMA SupplyFollows ==
    ASSUME Books, NEW a \in Assets, NEW u \in Users, NEW b \in Nat
    PROVE  LET balance == [poolBalance[a] EXCEPT ![u] = b]
           IN  /\ balance \in [Users -> Nat]
               /\ poolSupply[a] - poolBalance[a][u] + b = SumFunctionOnSet(balance, Users)
               /\ poolSupply[a] - poolBalance[a][u] + b \in Nat
<1> DEFINE old == poolBalance[a]
           new == [old EXCEPT ![u] = b]
<1>1. old \in [Users -> Nat] /\ IsFiniteSet(Users)
  BY IncentivesAssumption DEF Books, Typed
<1>2. new \in [Users -> Nat] /\ new[u] = b /\ \A v \in Users \ {u} : new[v] = old[v]
  BY <1>1
<1>3. \A v \in Users : old[v] \in Int /\ new[v] \in Int
  BY <1>1, <1>2
<1> HIDE DEF new, old
<1>4. SumFunctionOnSet(new, Users) = SumFunctionOnSet(old, Users) - old[u] + new[u]
  BY <1>1, <1>2, <1>3, SumChange
<1>5. SumFunctionOnSet(new, Users) \in Nat
  BY <1>1, <1>2, SumNat
<1>6. poolSupply[a] = SumFunctionOnSet(old, Users)
  BY DEF Books, Reported, old
<1> QED BY <1>2, <1>4, <1>5, <1>6 DEF old, new

LEMMA ExtraNat ==
    ASSUME NEW n \in Nat
    PROVE  WithExtra(n) \in Nat
<1>1. n * EXTRA_PSM_REWARD \in Nat
  BY IncentivesAssumption, ProductNat
<1>2. (n * EXTRA_PSM_REWARD) \div 100 \in Nat
  BY <1>1, DivNat
<1> QED BY <1>2 DEF WithExtra

LEMMA IndicesBehind ==
    ASSUME Books, NEW u \in Users, NEW D \in SUBSET Assets, Stores(u, D), now' = now,
           NEW c \in Assets
    PROVE  /\ assets'[c].lastUpdateTimestamp <= now'
           /\ \A v \in Users : userIndex'[c][v] <= assets'[c].index
<1>1. /\ assets[c].lastUpdateTimestamp <= now /\ now \in Nat /\ Updated(c).index \in Nat
      /\ \A v \in Users : /\ userIndex[c][v] <= assets[c].index
                          /\ userIndex[c][v] <= Updated(c).index
  BY AssetFacts, UserFacts
<1>2. \A v \in Users : c \notin D \/ v # u => userIndex'[c][v] = userIndex[c][v]
  BY StoredTypes
<1>3. CASE c \in D
  <2>1. /\ assets'[c].index = Updated(c).index /\ assets'[c].lastUpdateTimestamp = now
        /\ userIndex'[c][u] = Updated(c).index
    BY <1>3, StoredTypes
  <2> QED BY <1>1, <1>2, <2>1
<1>4. CASE c \notin D
  <2>1. assets'[c] = assets[c]
    BY <1>4, StoredTypes
  <2> QED BY <1>1, <1>2, <1>4, <2>1
<1> QED BY <1>3, <1>4

LEMMA BooksFromStart == Init => Books
<1> SUFFICES ASSUME Init PROVE Books
  OBVIOUS
<1>1. NoAsset \in AssetData
  BY DEF NoAsset, AssetData
<1>2. StartTime \in Nat /\ VaultFunds \in Nat
  BY IncentivesAssumption
<1>3. Typed
  BY <1>1, <1>2 DEF Init, Typed
<1>4. ASSUME NEW a \in Assets
      PROVE  poolSupply[a] = SumFunctionOnSet(poolBalance[a], Users)
  <2>1. \A u \in Users : poolBalance[a][u] = 0
    BY DEF Init
  <2>2. SumFunctionOnSet(poolBalance[a], Users) = 0
    BY <2>1, IncentivesAssumption, SumZero
  <2> QED BY <2>2 DEF Init
<1>5. Reported
  BY <1>2, <1>4 DEF Init, Reported, NoAsset
<1> QED BY <1>3, <1>5 DEF Books

(* The two ways a claim is paid. The recipient may be the controller, PSM or  *)
(* the vault itself.                                                         *)
Owners == Recipients \cup {This, Vault, PSM}

LEMMA StakedMoves ==
    ASSUME Typed, NEW to \in Recipients, NEW n \in Nat, PayStaked(to, n)
    PROVE  /\ token' \in [Owners -> Nat]
           /\ psmStake' \in [Recipients -> Nat] /\ payouts' \in [Recipients -> Nat]
           /\ token'[Vault] = token[Vault] - WithExtra(n)
           /\ token'[This] = token[This]
           /\ token'[PSM] = token[PSM] + WithExtra(n)
           /\ psmStake' = [psmStake EXCEPT ![to] = @ + WithExtra(n)]
           /\ payouts' = payouts
<1>1. /\ token \in [Owners -> Nat] /\ psmStake \in [Recipients -> Nat]
      /\ payouts \in [Recipients -> Nat]
  BY DEF Typed, Owners
<1>2. /\ Vault \in Owners /\ PSM \in Owners /\ This \in Owners
      /\ PSM # Vault /\ This # Vault /\ This # PSM
  BY IncentivesAssumption DEF Owners
<1>3. WithExtra(n) \in Nat
  BY ExtraNat
<1>4. token[Vault] - WithExtra(n) \in Nat
  BY <1>1, <1>2, <1>3 DEF PayStaked
<1>5. token[PSM] + WithExtra(n) \in Nat /\ psmStake[to] + WithExtra(n) \in Nat
  BY <1>1, <1>2, <1>3
<1>6. token' = [token EXCEPT ![Vault] = @ - WithExtra(n), ![PSM] = @ + WithExtra(n)]
  BY DEF PayStaked
<1>7. psmStake' = [psmStake EXCEPT ![to] = @ + WithExtra(n)] /\ payouts' = payouts
  BY DEF PayStaked
<1>8. token' \in [Owners -> Nat]
  BY <1>1, <1>2, <1>4, <1>5, <1>6
<1>9. psmStake' \in [Recipients -> Nat]
  BY <1>1, <1>5, <1>7
<1>10. /\ token'[Vault] = token[Vault] - WithExtra(n)
       /\ token'[This] = token[This]
       /\ token'[PSM] = token[PSM] + WithExtra(n)
  BY <1>1, <1>2, <1>6
<1> QED BY <1>1, <1>7, <1>8, <1>9, <1>10

LEMMA PaidOutMoves ==
    ASSUME Typed, NEW to \in Recipients, NEW n \in Nat, PayOut(to, n)
    PROVE  /\ token' \in [Owners -> Nat]
           /\ psmStake' \in [Recipients -> Nat] /\ payouts' \in [Recipients -> Nat]
           /\ token'[Vault] = token[Vault] - (IF to = Vault THEN 0 ELSE n)
           /\ \A x \in {This, PSM} : token'[x] = token[x] + (IF to = x THEN n ELSE 0)
           /\ \A x \in {This, Vault, PSM} :
                PaidOutTo(x)' = PaidOutTo(x) + (IF to = x THEN n ELSE 0)
           /\ psmStake' = psmStake
<1>1. /\ token \in [Owners -> Nat] /\ psmStake \in [Recipients -> Nat]
      /\ payouts \in [Recipients -> Nat]
  BY DEF Typed, Owners
<1>2. /\ to \in Owners /\ Vault \in Owners /\ PSM \in Owners /\ This \in Owners
      /\ PSM # Vault /\ This # Vault
  BY IncentivesAssumption DEF Owners
<1>3. token[Vault] - n \in Nat /\ token[to] + n \in Nat /\ token[Vault] \in Nat
  BY <1>1, <1>2 DEF PayOut
<1>4. token' = [[token EXCEPT ![Vault] = @ - n] EXCEPT ![to] = @ + n]
  BY DEF PayOut
<1>5. payouts' = [payouts EXCEPT ![to] = @ + n] /\ psmStake' = psmStake
  BY DEF PayOut
<1>6. payouts' \in [Recipients -> Nat] /\ psmStake' \in [Recipients -> Nat]
  BY <1>1, <1>5
<1>7. ASSUME NEW x
      PROVE  PaidOutTo(x)' = PaidOutTo(x) + (IF to = x THEN n ELSE 0)
  <2>1. CASE x \in Recipients
    BY <1>1, <1>5, <2>1 DEF PaidOutTo
  <2>2. CASE x \notin Recipients
    BY <2>2 DEF PaidOutTo
  <2> QED BY <2>1, <2>2
<1>8. CASE to = Vault
  <2> DEFINE left == [token EXCEPT ![Vault] = @ - n]
  <2>1. left \in [Owners -> Nat] /\ left[Vault] = token[Vault] - n
    BY <1>1, <1>2, <1>3
  <2>2. \A x \in Owners \ {Vault} : left[x] = token[x]
    BY <1>1
  <2>3. token' = [left EXCEPT ![Vault] = @ + n]
    BY <1>4, <1>8
  <2> HIDE DEF left
  <2>4. left[Vault] + n = token[Vault]
    BY <1>3, <2>1
  <2>5. token' \in [Owners -> Nat] /\ token'[Vault] = token[Vault]
    BY <1>2, <1>3, <2>1, <2>3, <2>4
  <2>6. \A x \in {This, PSM} : token'[x] = token[x] /\ token[x] \in Nat
    BY <1>1, <1>2, <2>1, <2>2, <2>3
  <2> QED BY <1>2, <1>3, <1>5, <1>6, <1>7, <1>8, <2>5, <2>6
<1>9. CASE to # Vault
  <2>1. token' \in [Owners -> Nat] /\ token'[Vault] = token[Vault] - n
    BY <1>1, <1>2, <1>3, <1>4, <1>9
  <2>2. \A x \in {This, PSM} : /\ token[x] \in Nat
                               /\ to = x => token'[x] = token[x] + n
                               /\ to # x => token'[x] = token[x]
    BY <1>1, <1>2, <1>4, <1>9
  <2> QED BY <1>5, <1>6, <1>7, <1>9, <2>1, <2>2
<1> QED BY <1>8, <1>9

LEMMA BooksKept == Books /\ [Next]_vars => Books'
<1> SUFFICES ASSUME Books, [Next]_vars PROVE Books'
  OBVIOUS
<1>1. /\ Typed /\ Reported
      /\ \A a \in Assets, u \in Users : userIndex[a][u] <= Updated(a).index
  BY UserFacts DEF Books
<1>2. CASE Initialize
  BY <1>1, <1>2 DEF Initialize, pool, distribution, ledgers, Books, Typed, Reported
<1>3. ASSUME NEW a \in Assets, NEW u \in Users, NEW b \in 0 .. MaxBalance, PoolAction(a, u, b)
      PROVE  Books'
  <2> DEFINE balance == [poolBalance[a] EXCEPT ![u] = b]
             supply == poolSupply[a] - poolBalance[a][u] + b
  <2>1. b \in Nat
    BY IncentivesAssumption
  <2>2. /\ balance \in [Users -> Nat]
        /\ supply = SumFunctionOnSet(balance, Users)
        /\ supply \in Nat
    BY <2>1, SupplyFollows
  <2>3. /\ Stores(u, {a})
        /\ usersUnclaimedRewards' = [usersUnclaimedRewards EXCEPT ![u] = @ + DueOver(u, {a})]
    BY <1>3, ActionStores DEF PoolAction
  <2>4. /\ poolBalance' = [poolBalance EXCEPT ![a] = balance]
        /\ poolSupply' = [poolSupply EXCEPT ![a] = supply]
    BY <1>3, <1>1 DEF PoolAction, Typed
  <2>5. UNCHANGED <<now, initialized, token, psmStake, payouts>>
    BY <1>3 DEF PoolAction, ledgers
  <2>6. DueOver(u, {a}) \in Nat
    BY DueInt
  <2> HIDE DEF balance, supply
  <2>7. usersUnclaimedRewards' \in [Users -> Nat]
    BY <1>1, <2>3, <2>6 DEF Typed
  <2>8. /\ assets' \in [Assets -> AssetData]
        /\ userIndex' \in [Assets -> [Users -> Nat]]
    BY <2>3, StoredTypes
  <2>9. /\ poolBalance' \in [Assets -> [Users -> Nat]]
        /\ poolSupply' \in [Assets -> Nat]
    BY <1>1, <2>2, <2>4 DEF Typed
  <2>10. Typed'
    BY <1>1, <2>5, <2>7, <2>8, <2>9 DEF Typed
  <2>11. ASSUME NEW c \in Assets
         PROVE  poolSupply'[c] = SumFunctionOnSet(poolBalance'[c], Users)
    <3>1. CASE c = a
      <4>1. poolSupply'[c] = supply /\ poolBalance'[c] = balance
        BY <1>1, <2>4, <3>1 DEF Typed
      <4> QED BY <2>2, <4>1
    <3>2. CASE c # a
      <4>1. poolSupply'[c] = poolSupply[c] /\ poolBalance'[c] = poolBalance[c]
        BY <1>1, <2>4, <3>2 DEF Typed
      <4> QED BY <1>1, <4>1 DEF Reported
    <3> QED BY <3>1, <3>2
  <2>12. ASSUME NEW c \in Assets
         PROVE  /\ assets'[c].lastUpdateTimestamp <= now'
                /\ \A v \in Users : userIndex'[c][v] <= assets'[c].index
    BY <2>3, <2>5, IndicesBehind
  <2>13. Reported'
    BY <2>11, <2>12 DEF Reported
  <2> QED BY <2>10, <2>13 DEF Books
<1>4. ASSUME NEW u \in Users, NEW to \in Recipients, NEW list \in Lists, NEW n \in Amounts,
             NEW stake \in BOOLEAN, ClaimRewards(u, list, n, to, stake)
      PROVE  Books'
  <2>1. PICK D \in SUBSET Assets : /\ SettledOver(u, list).accrued = DueOver(u, D)
                                   /\ Stores(u, D)
    BY <1>4, ClaimStores
  <2> DEFINE there == usersUnclaimedRewards[u] + SettledOver(u, list).accrued
             paid == AmountToClaim(n, there)
  <2>2. there \in Nat /\ n \in Nat
    BY <1>1, <2>1, DueInt, IncentivesAssumption DEF Typed
  <2>3. paid \in Nat /\ there - paid \in Nat
    BY <2>2 DEF AmountToClaim, Lesser
  <2>4. /\ usersUnclaimedRewards' = [usersUnclaimedRewards EXCEPT ![u] = there - paid]
        /\ \/ UNCHANGED <<token, psmStake, payouts>>
           \/ PayStaked(to, paid)
           \/ PayOut(to, paid)
        /\ UNCHANGED <<now, poolBalance, poolSupply, initialized>>
    BY <1>4 DEF ClaimRewards, ledgers, pool
  <2> HIDE DEF there, paid
  <2>6. usersUnclaimedRewards' \in [Users -> Nat]
    BY <1>1, <2>3, <2>4 DEF Typed
  <2>7. /\ token' \in [Owners -> Nat]
        /\ psmStake' \in [Recipients -> Nat] /\ payouts' \in [Recipients -> Nat]
    <3>1. CASE PayStaked(to, paid)
      BY <1>1, <2>3, <3>1, StakedMoves
    <3>2. CASE PayOut(to, paid)
      BY <1>1, <2>3, <3>2, PaidOutMoves
    <3>3. CASE UNCHANGED <<token, psmStake, payouts>>
      BY <1>1, <3>3 DEF Typed, Owners
    <3> QED BY <2>4, <3>1, <3>2, <3>3
  <2>8. /\ assets' \in [Assets -> AssetData]
        /\ userIndex' \in [Assets -> [Users -> Nat]]
    BY <2>1, StoredTypes
  <2>9. Typed'
    BY <1>1, <2>4, <2>6, <2>7, <2>8 DEF Typed, Owners
  <2>10. ASSUME NEW c \in Assets
         PROVE  /\ assets'[c].lastUpdateTimestamp <= now'
                /\ \A v \in Users : userIndex'[c][v] <= assets'[c].index
    BY <2>1, <2>4, IndicesBehind
  <2>11. Reported'
    BY <1>1, <2>4, <2>10 DEF Reported
  <2> QED BY <2>9, <2>11 DEF Books
<1>5. ASSUME NEW list \in Lists, NEW e \in Emissions, ConfigureAssets(list, e)
      PROVE  Books'
  <2>1. assets' \in [Assets -> AssetData]
    BY <1>5, ConfigureSettles
  <2>2. PICK D \in SUBSET Assets : Settlement({}, D)
    BY <1>5, ConfigureSettles
  <2>3. UNCHANGED <<now, poolBalance, poolSupply, userIndex, usersUnclaimedRewards, initialized,
                    token, psmStake, payouts>>
    BY <1>5 DEF ConfigureAssets, pool, ledgers
  <2>4. Typed'
    BY <1>1, <2>1, <2>3 DEF Typed
  <2>5. \A c \in Assets : /\ assets'[c].lastUpdateTimestamp <= now
                          /\ \A v \in Users : userIndex[c][v] <= assets'[c].index
    BY <1>1, <2>2 DEF Reported, Settlement, Typed
  <2>6. Reported'
    BY <1>1, <2>3, <2>5 DEF Reported
  <2> QED BY <2>4, <2>6 DEF Books
<1>6. CASE AdvanceTime
  <2>1. now' = now + 1 /\ UNCHANGED <<poolBalance, poolSupply, assets, userIndex,
                                      usersUnclaimedRewards, initialized, token, psmStake,
                                      payouts>>
    BY <1>6 DEF AdvanceTime, pool, distribution, ledgers
  <2>2. Typed'
    BY <1>1, <2>1 DEF Typed
  <2>3. \A c \in Assets : assets[c].lastUpdateTimestamp <= now + 1
    BY <1>1 DEF Reported, Typed, AssetData
  <2>4. Reported'
    BY <1>1, <2>1, <2>3 DEF Reported
  <2> QED BY <2>2, <2>4 DEF Books
<1>7. CASE UNCHANGED vars
  BY <1>1, <1>7 DEF vars, pool, distribution, ledgers, Books, Typed, Reported
<1> QED BY <1>2, <1>3, <1>4, <1>5, <1>6, <1>7 DEF Next

LEMMA BooksHold == Spec => []Books
  BY BooksFromStart, BooksKept, PTL DEF Spec

-----------------------------------------------------------------------------
(* What is paid                                                              *)

LEMMA OwedAfter ==
    ASSUME Books, Books', NEW W \in SUBSET Users, NEW D \in SUBSET Assets, Settlement(W, D),
           NEW u \in Users
    PROVE  /\ Owed(u)' = Owed(u) + (usersUnclaimedRewards'[u] - usersUnclaimedRewards[u])
                           - (IF u \in W THEN DueOver(u, D) ELSE 0)
           /\ Owed(u) \in Nat /\ Owed(u)' \in Nat
<1>1. /\ Owed(u) = usersUnclaimedRewards[u] + DueOver(u, Assets)
      /\ Owed(u)' = usersUnclaimedRewards'[u] + DueOver(u, Assets)'
  BY OwedSplits, OwedSplitsThen DEF OwedIsDue
<1>2. DueOver(u, Assets)' = DueOver(u, Assets) - (IF u \in W THEN DueOver(u, D) ELSE 0)
  BY DueOverAfter
<1>3. DueOver(u, Assets) \in Nat /\ DueOver(u, D) \in Nat
  BY DueInt
<1>4. usersUnclaimedRewards[u] \in Nat /\ usersUnclaimedRewards'[u] \in Nat
  BY DEF Books, Typed
<1>5. DueOver(u, Assets)' \in Nat
  <2> DEFINE g == [a \in Assets |-> Due(a, u)']
  <2>1. ASSUME NEW a \in Assets
        PROVE  Due(a, u)' \in Nat
    <3>1. Due(a, u)' = IF u \in W /\ a \in D THEN 0 ELSE Due(a, u)
      BY DueAfter
    <3>2. Due(a, u) \in Nat
      BY UserFacts
    <3> QED BY <3>1, <3>2
  <2>2. \A a \in Assets : g[a] \in Nat
    BY <2>1
  <2>3. DueOver(u, Assets)' = SumFunctionOnSet(g, Assets)
    BY DEF DueOver
  <2> HIDE DEF g
  <2> QED BY <2>2, <2>3, SumNat, IncentivesAssumption
<1> QED BY <1>1, <1>2, <1>3, <1>4, <1>5

(* A claim pays what it takes from its user's rewards, or that and the extra *)
(* reward; one that finds nothing pays nothing.                              *)
LEMMA ClaimTakes ==
    ASSUME Books, Books', NEW u \in Users, NEW list \in Lists, NEW n \in Amounts,
           NEW to \in Recipients, NEW stake \in BOOLEAN, ClaimRewards(u, list, n, to, stake)
    PROVE  \E paid \in Nat :
             /\ Owed(u)' = Owed(u) - paid
             /\ outstanding' = outstanding - paid
             /\ \A v \in Users \ {u} : Owed(v)' = Owed(v)
             /\ \/ paid = 0 /\ UNCHANGED <<token, psmStake, payouts>>
                \/ paid > 0 /\ (PayStaked(to, paid) \/ PayOut(to, paid))
<1>1. PICK D \in SUBSET Assets : /\ SettledOver(u, list).accrued = DueOver(u, D)
                                 /\ Stores(u, D)
  BY ClaimStores
<1> DEFINE there == usersUnclaimedRewards[u] + SettledOver(u, list).accrued
           paid == AmountToClaim(n, there)
<1>2. usersUnclaimedRewards \in [Users -> Nat] /\ n \in Nat /\ DueOver(u, D) \in Nat
  BY DueInt, IncentivesAssumption DEF Books, Typed
<1>3. there \in Nat /\ there = usersUnclaimedRewards[u] + DueOver(u, D)
  BY <1>1, <1>2
<1>4. /\ n # 0
      /\ usersUnclaimedRewards' = [usersUnclaimedRewards EXCEPT ![u] = there - paid]
      /\ \/ there = 0 /\ UNCHANGED <<token, psmStake, payouts>>
         \/ there # 0 /\ (PayStaked(to, paid) \/ PayOut(to, paid))
      /\ UNCHANGED <<now, pool>>
      /\ outstanding' = outstanding - paid
  BY DEF ClaimRewards, ledgers
<1>5. paid \in Nat /\ (paid = 0 <=> there = 0)
  BY <1>2, <1>3, <1>4 DEF AmountToClaim, Lesser
<1> HIDE DEF there, paid
<1>6. Settlement({u}, D)
  BY <1>1, <1>4, ClaimSettlement
<1>7. usersUnclaimedRewards'[u] = there - paid
  BY <1>2, <1>4
<1>8. Owed(u)' = Owed(u) - paid
  <2>1. /\ Owed(u)' = Owed(u) + (usersUnclaimedRewards'[u] - usersUnclaimedRewards[u])
                        - (IF u \in {u} THEN DueOver(u, D) ELSE 0)
        /\ Owed(u) \in Nat
    BY <1>6, OwedAfter
  <2>2. usersUnclaimedRewards[u] \in Nat
    BY <1>2
  <2> QED BY <1>2, <1>3, <1>5, <1>7, <2>1, <2>2
<1>9. ASSUME NEW v \in Users \ {u}
      PROVE  Owed(v)' = Owed(v)
  <2>1. usersUnclaimedRewards'[v] = usersUnclaimedRewards[v] /\ usersUnclaimedRewards[v] \in Nat
    BY <1>2, <1>4
  <2>2. /\ Owed(v)' = Owed(v) + (usersUnclaimedRewards'[v] - usersUnclaimedRewards[v])
                        - (IF v \in {u} THEN DueOver(v, D) ELSE 0)
        /\ Owed(v) \in Nat
    BY <1>6, OwedAfter
  <2> QED BY <2>1, <2>2
<1>10. \/ paid = 0 /\ UNCHANGED <<token, psmStake, payouts>>
       \/ paid > 0 /\ (PayStaked(to, paid) \/ PayOut(to, paid))
  BY <1>4, <1>5
<1> QED BY <1>4, <1>5, <1>8, <1>9, <1>10

(* Nothing else changes what anybody is owed, but time.                      *)
LEMMA OthersOweTheSame ==
    ASSUME Books, Books', NEW u \in Users
    PROVE  /\ Initialize \/ UNCHANGED vars => Owed(u)' = Owed(u)
           /\ \A a \in Assets, v \in Users, b \in 0 .. MaxBalance :
                PoolAction(a, v, b) => Owed(u)' = Owed(u)
           /\ \A list \in Lists, e \in Emissions : ConfigureAssets(list, e) => Owed(u)' = Owed(u)
<1>0. usersUnclaimedRewards \in [Users -> Nat] /\ usersUnclaimedRewards[u] \in Nat
  BY DEF Books, Typed
<1>1. CASE Initialize \/ UNCHANGED vars
  <2>1. UNCHANGED <<now, poolBalance, poolSupply, assets, userIndex, usersUnclaimedRewards>>
    BY <1>1 DEF Initialize, vars, pool, distribution
  <2>2. Settlement({}, {})
    BY <2>1 DEF Settlement
  <2>3. {} \in SUBSET Users /\ {} \in SUBSET Assets
    OBVIOUS
  <2>4. /\ Owed(u)' = Owed(u) + (usersUnclaimedRewards'[u] - usersUnclaimedRewards[u])
                        - (IF u \in {} THEN DueOver(u, {}) ELSE 0)
        /\ Owed(u) \in Nat
    BY <2>2, <2>3, OwedAfter
  <2> QED BY <1>0, <2>1, <2>4
<1>2. ASSUME NEW a \in Assets, NEW v \in Users, NEW b \in 0 .. MaxBalance, PoolAction(a, v, b)
      PROVE  Owed(u)' = Owed(u)
  <2>1. Settlement({v}, {a})
    BY <1>2, ActionSettles
  <2>2. usersUnclaimedRewards' = [usersUnclaimedRewards EXCEPT ![v] = @ + DueOver(v, {a})]
    BY <1>2, ActionStores DEF PoolAction
  <2>3. /\ Owed(u)' = Owed(u) + (usersUnclaimedRewards'[u] - usersUnclaimedRewards[u])
                        - (IF u \in {v} THEN DueOver(u, {a}) ELSE 0)
        /\ Owed(u) \in Nat
    BY <2>1, OwedAfter
  <2>4. DueOver(u, {a}) \in Nat
    BY DueInt
  <2>5. usersUnclaimedRewards'[u] = usersUnclaimedRewards[u]
                                      + (IF u = v THEN DueOver(u, {a}) ELSE 0)
    BY <1>0, <2>2
  <2> QED BY <1>0, <2>3, <2>4, <2>5
<1>3. ASSUME NEW list \in Lists, NEW e \in Emissions, ConfigureAssets(list, e)
      PROVE  Owed(u)' = Owed(u)
  <2>1. PICK D \in SUBSET Assets : Settlement({}, D)
    BY <1>3, ConfigureSettles
  <2>2. usersUnclaimedRewards' = usersUnclaimedRewards
    BY <1>3 DEF ConfigureAssets
  <2>3. /\ Owed(u)' = Owed(u) + (usersUnclaimedRewards'[u] - usersUnclaimedRewards[u])
                        - (IF u \in {} THEN DueOver(u, D) ELSE 0)
        /\ Owed(u) \in Nat
    BY <2>1, OwedAfter
  <2> QED BY <1>0, <2>2, <2>3
<1> QED BY <1>1, <1>2, <1>3

LEMMA StepPaysClaims ==
    Books /\ Books' /\ [Next]_vars =>
      (now' = now =>
         \/ UNCHANGED token /\ \A u \in Users : Owed(u)' = Owed(u)
         \/ \E u \in Users :
              LET lowered == Owed(u) - Owed(u)'
                  paid    == token[Vault] - token'[Vault]
              IN  /\ lowered > 0
                  /\ \/ paid \in {lowered, WithExtra(lowered)}
                     \/ paid = 0 /\ PaidOutTo(Vault)' = PaidOutTo(Vault) + lowered
                  /\ \A v \in Users \ {u} : Owed(v)' = Owed(v))
<1> DEFINE Claimed(u) == LET lowered == Owed(u) - Owed(u)'
                             paid    == token[Vault] - token'[Vault]
                         IN  /\ lowered > 0
                             /\ \/ paid \in {lowered, WithExtra(lowered)}
                                \/ paid = 0 /\ PaidOutTo(Vault)' = PaidOutTo(Vault) + lowered
                             /\ \A v \in Users \ {u} : Owed(v)' = Owed(v)
<1> SUFFICES ASSUME Books, Books', [Next]_vars, now' = now
             PROVE  \/ UNCHANGED token /\ \A u \in Users : Owed(u)' = Owed(u)
                    \/ \E u \in Users : Claimed(u)
  OBVIOUS
<1>1. CASE Initialize \/ UNCHANGED vars
  <2>1. UNCHANGED token
    BY <1>1 DEF Initialize, vars, ledgers
  <2>2. \A u \in Users : Owed(u)' = Owed(u)
    BY <1>1, OthersOweTheSame
  <2> QED BY <2>1, <2>2
<1>2. CASE \E a \in Assets, u \in Users, b \in 0 .. MaxBalance : PoolAction(a, u, b)
  <2>1. UNCHANGED token
    BY <1>2 DEF PoolAction, ledgers
  <2>2. \A u \in Users : Owed(u)' = Owed(u)
    BY <1>2, OthersOweTheSame
  <2> QED BY <2>1, <2>2
<1>3. CASE \E list \in Lists, e \in Emissions : ConfigureAssets(list, e)
  <2>1. UNCHANGED token
    BY <1>3 DEF ConfigureAssets, ledgers
  <2>2. \A u \in Users : Owed(u)' = Owed(u)
    BY <1>3, OthersOweTheSame
  <2> QED BY <2>1, <2>2
<1>4. ASSUME NEW u \in Users, NEW to \in Recipients, NEW list \in Lists, NEW n \in Amounts,
             NEW stake \in BOOLEAN, ClaimRewards(u, list, n, to, stake)
      PROVE  \/ UNCHANGED token /\ \A v \in Users : Owed(v)' = Owed(v)
             \/ Claimed(u)
  <2>1. PICK paid \in Nat :
          /\ Owed(u)' = Owed(u) - paid
          /\ \A v \in Users \ {u} : Owed(v)' = Owed(v)
          /\ \/ paid = 0 /\ UNCHANGED <<token, psmStake, payouts>>
             \/ paid > 0 /\ (PayStaked(to, paid) \/ PayOut(to, paid))
    BY <1>4, ClaimTakes
  <2>2. Owed(u) \in Nat
    <3>1. Owed(u) = usersUnclaimedRewards[u] + DueOver(u, Assets)
      BY OwedSplits DEF OwedIsDue
    <3> QED BY <3>1, DueInt DEF Books, Typed
  <2>3. Owed(u) - Owed(u)' = paid
    BY <2>1, <2>2
  <2>4. CASE paid = 0
    BY <2>1, <2>2, <2>4
  <2>5. CASE paid > 0
    <3>1. Typed /\ token[Vault] \in Nat /\ WithExtra(paid) \in Nat
      BY ExtraNat DEF Books, Typed
    <3>2. \/ token[Vault] - token'[Vault] \in {paid, WithExtra(paid)}
          \/ token[Vault] - token'[Vault] = 0 /\ PaidOutTo(Vault)' = PaidOutTo(Vault) + paid
      <4>1. CASE PayStaked(to, paid)
        <5>1. token'[Vault] = token[Vault] - WithExtra(paid)
          BY <3>1, <4>1, StakedMoves
        <5> QED BY <3>1, <5>1
      <4>2. CASE PayOut(to, paid)
        <5>1. /\ token'[Vault] = token[Vault] - (IF to = Vault THEN 0 ELSE paid)
              /\ PaidOutTo(Vault)' = PaidOutTo(Vault) + (IF to = Vault THEN paid ELSE 0)
          BY <3>1, <4>2, PaidOutMoves
        <5> QED BY <3>1, <5>1
      <4> QED BY <2>1, <2>5, <4>1, <4>2
    <3> QED BY <2>1, <2>3, <2>5, <3>2
  <2> QED BY <2>4, <2>5
<1>5. ~AdvanceTime
  BY DEF AdvanceTime, Books, Typed
<1> HIDE DEF Claimed
<1> QED BY <1>1, <1>2, <1>3, <1>4, <1>5 DEF Next

(***************************************************************************)
(* However the pool reports balances, lists are claimed over and rates are *)
(* set, and however the divisions round: within a second only a user's own *)
(* claim lowers what he is owed, and the vault pays exactly that, or that  *)
(* and the extra reward, whoever the recipient is (paying itself, it keeps *)
(* what it has); what everybody else is owed stays the same.               *)
(***************************************************************************)
THEOREM ClaimsAreOnlyPaid == Spec => OnlyClaimsArePaid
<1>1. Books /\ Books' /\ [Next]_vars =>
        [now' = now =>
           \/ UNCHANGED token /\ \A u \in Users : Owed(u)' = Owed(u)
           \/ \E u \in Users :
                LET lowered == Owed(u) - Owed(u)'
                    paid    == token[Vault] - token'[Vault]
                IN  /\ lowered > 0
                    /\ \/ paid \in {lowered, WithExtra(lowered)}
                       \/ paid = 0 /\ PaidOutTo(Vault)' = PaidOutTo(Vault) + lowered
                    /\ \A v \in Users \ {u} : Owed(v)' = Owed(v)]_vars
  BY StepPaysClaims
<1> QED BY <1>1, BooksHold, PTL DEF Spec, OnlyClaimsArePaid

LEMMA PaymentsAreBooked ==
    ASSUME Books, OnlyPayoutsStay, NEW to \in Recipients, NEW n \in Nat,
           PayStaked(to, n) \/ PayOut(to, n) \/ UNCHANGED <<token, psmStake, payouts>>
    PROVE  OnlyPayoutsStay'
<1> DEFINE then == psmStake'
<1>1. Typed /\ psmStake \in [Recipients -> Nat] /\ payouts \in [Recipients -> Nat]
  BY DEF Books, Typed
<1>2. IsFiniteSet(Recipients)
  BY IncentivesAssumption
<1>3. /\ token[This] = PaidOutTo(This)
      /\ token[PSM] = PaidOutTo(PSM) + SumFunctionOnSet(psmStake, Recipients)
  BY <1>1 DEF OnlyPayoutsStay, SumFunction
<1>4. PaidOutTo(This) \in Nat /\ PaidOutTo(PSM) \in Nat
  BY <1>1 DEF PaidOutTo
<1>5. SumFunctionOnSet(psmStake, Recipients) \in Int
  BY <1>1, <1>2, SumInt
<1>6. CASE UNCHANGED <<token, psmStake, payouts>>
  BY <1>6 DEF OnlyPayoutsStay, PaidOutTo
<1>7. CASE PayOut(to, n)
  <2>1. /\ \A x \in {This, PSM} : token'[x] = token[x] + (IF to = x THEN n ELSE 0)
        /\ \A x \in {This, PSM} : PaidOutTo(x)' = PaidOutTo(x) + (IF to = x THEN n ELSE 0)
        /\ psmStake' = psmStake
    BY <1>1, <1>7, PaidOutMoves
  <2>2. token'[This] = PaidOutTo(This)'
    BY <1>3, <2>1
  <2>3. token'[PSM] = PaidOutTo(PSM)' + SumFunctionOnSet(psmStake, Recipients)
    BY <1>3, <1>4, <1>5, <2>1
  <2> QED BY <1>1, <2>1, <2>2, <2>3 DEF OnlyPayoutsStay, SumFunction
<1>8. CASE PayStaked(to, n)
  <2>1. /\ token'[This] = token[This] /\ token'[PSM] = token[PSM] + WithExtra(n)
        /\ then = [psmStake EXCEPT ![to] = @ + WithExtra(n)]
        /\ payouts' = payouts
    BY <1>1, <1>8, StakedMoves
  <2>2. WithExtra(n) \in Nat
    BY ExtraNat
  <2>3. /\ then[to] = psmStake[to] + WithExtra(n)
        /\ \A r \in Recipients \ {to} : then[r] = psmStake[r]
        /\ DOMAIN then = Recipients
    BY <1>1, <2>1
  <2>4. \A r \in Recipients : psmStake[r] \in Int /\ then[r] \in Int
    BY <1>1, <2>2, <2>3
  <2>5. PaidOutTo(This)' = PaidOutTo(This) /\ PaidOutTo(PSM)' = PaidOutTo(PSM)
    BY <2>1 DEF PaidOutTo
  <2> HIDE DEF then
  <2>6. SumFunctionOnSet(then, Recipients)
          = SumFunctionOnSet(psmStake, Recipients) - psmStake[to] + then[to]
    BY <1>2, <2>3, <2>4, SumChange
  <2>7. psmStake[to] \in Int
    BY <2>4
  <2>8. token'[PSM] = PaidOutTo(PSM)' + SumFunctionOnSet(then, Recipients)
    BY <1>3, <1>4, <1>5, <2>1, <2>2, <2>3, <2>5, <2>6, <2>7
  <2>9. token'[This] = PaidOutTo(This)'
    BY <1>3, <2>1, <2>5
  <2> QED BY <2>3, <2>8, <2>9 DEF OnlyPayoutsStay, SumFunction, then
<1> QED BY <1>6, <1>7, <1>8

(***************************************************************************)
(* Whatever is claimed, for whomever and in whatever order, staked or not, *)
(* and whatever the extra reward is: the controller holds only what claims *)
(* paid out to it, and PSM that and what it credits as somebody's stake.   *)
(***************************************************************************)
THEOREM StakedClaimsPassThrough == Spec => []OnlyPayoutsStay
<1>1. Init => OnlyPayoutsStay
  <2> SUFFICES ASSUME Init PROVE OnlyPayoutsStay
    OBVIOUS
  <2>1. token[This] = 0 /\ token[PSM] = 0
    BY IncentivesAssumption DEF Init
  <2>2. psmStake = [r \in Recipients |-> 0] /\ IsFiniteSet(Recipients)
    BY IncentivesAssumption DEF Init
  <2>3. \A r \in Recipients : psmStake[r] = 0
    BY <2>2
  <2>4. SumFunctionOnSet(psmStake, Recipients) = 0
    BY <2>2, <2>3, SumZero
  <2>5. DOMAIN psmStake = Recipients
    BY <2>2
  <2>6. PaidOutTo(This) = 0 /\ PaidOutTo(PSM) = 0
    BY DEF Init, PaidOutTo
  <2> QED BY <2>1, <2>4, <2>5, <2>6 DEF OnlyPayoutsStay, SumFunction
<1>2. Books /\ Books' /\ OnlyPayoutsStay /\ [Next]_vars => OnlyPayoutsStay'
  <2> SUFFICES ASSUME Books, Books', OnlyPayoutsStay, [Next]_vars
               PROVE  OnlyPayoutsStay'
    OBVIOUS
  <2>1. CASE UNCHANGED <<token, psmStake, payouts>>
    BY <2>1 DEF OnlyPayoutsStay, PaidOutTo
  <2>2. ASSUME NEW u \in Users, NEW to \in Recipients, NEW list \in Lists, NEW n \in Amounts,
               NEW stake \in BOOLEAN, ClaimRewards(u, list, n, to, stake)
        PROVE  OnlyPayoutsStay'
    <3>1. PICK paid \in Nat : \/ UNCHANGED <<token, psmStake, payouts>>
                              \/ PayStaked(to, paid) \/ PayOut(to, paid)
      BY <2>2, ClaimTakes
    <3> QED BY <3>1, PaymentsAreBooked
  <2>3. \/ UNCHANGED <<token, psmStake, payouts>>
        \/ \E u \in Users, to \in Recipients, list \in Lists, n \in Amounts, stake \in BOOLEAN :
             ClaimRewards(u, list, n, to, stake)
    BY DEF Next, Initialize, PoolAction, ConfigureAssets, AdvanceTime, ledgers, vars
  <2> QED BY <2>1, <2>2, <2>3
<1> QED BY <1>1, <1>2, BooksHold, PTL DEF Spec

-----------------------------------------------------------------------------
(* What is owed in UNITs                                                     *)

(* The divisions round what users are due. Without them, a user is due his   *)
(* share in UNITs, and an asset owes its users what they are behind its      *)
(* index and what it has released since its last update.                     *)
Share(a, u) == poolBalance[a][u] * (Updated(a).index - userIndex[a][u])

Shares(a) == SumFunctionOnSet([u \in Users |-> Share(a, u)], Users)

Behind(a) == SumFunctionOnSet([u \in Users |->
               poolBalance[a][u] * (assets[a].index - userIndex[a][u])], Users)

Pending(a) == UNIT * Accrual(assets[a], poolSupply[a], now)

AssetDebt(a) == Behind(a) + Pending(a)

(* What an update leaves of that to nobody, because the index is rounded.    *)
Lost(a) == Pending(a) - poolSupply[a] * Growth(a)

(* Nothing is rounded, in any asset or for any user.                         *)
Divisible ==
    \A a \in Assets : /\ Lost(a) = 0
                      /\ \A u \in Users : UNIT * Due(a, u) = Share(a, u)

LEMMA ShareFacts ==
    ASSUME Books, NEW a \in Assets, NEW u \in Users
    PROVE  /\ Share(a, u) \in Nat /\ UNIT * Due(a, u) \in Nat
           /\ UNIT * Due(a, u) <= Share(a, u)
           /\ poolBalance[a][u] * (assets[a].index - userIndex[a][u]) \in Nat
           /\ poolBalance[a][u] * Growth(a) \in Nat
           /\ Share(a, u) = poolBalance[a][u] * (assets[a].index - userIndex[a][u])
                              + poolBalance[a][u] * Growth(a)
<1> DEFINE b == poolBalance[a][u]
           i == assets[a].index
           j == userIndex[a][u]
           g == Growth(a)
           x == Updated(a).index
<1>1. /\ b \in Nat /\ i \in Nat /\ j \in Nat /\ g \in Nat /\ x \in Nat
      /\ j <= i /\ x = i + g /\ UNIT \in Nat \ {0}
  BY AssetFacts, UserFacts, DistributionAssumption
<1>2. Due(a, u) = GetRewards(b, x, j) /\ Due(a, u) \in Nat
  BY <1>1, AccruedIsRewards, UserFacts DEF Due
<1>3. Share(a, u) = b * (x - j) /\ GetRewards(b, x, j) = (b * (x - j)) \div UNIT
  BY DEF Share, GetRewards
<1> HIDE DEF b, i, j, g, x
<1>4. x - j \in Nat /\ i - j \in Nat /\ x - j = (i - j) + g
  BY <1>1
<1>5. b * (x - j) \in Nat /\ b * (i - j) \in Nat /\ b * g \in Nat
  BY <1>1, <1>4, ProductNat
<1>6. b * (x - j) = b * (i - j) + b * g
  <2> DEFINE k == i - j
  <2>1. k \in Nat /\ x - j = k + g
    BY <1>4
  <2> HIDE DEF k
  <2>2. b * (k + g) = b * k + b * g
    BY <1>1, <2>1
  <2> QED BY <2>1, <2>2 DEF k
<1>7. UNIT * Due(a, u) <= Share(a, u)
  BY <1>1, <1>2, <1>3, <1>5, DivDefinition
<1>8. UNIT * Due(a, u) \in Nat
  BY <1>1, <1>2, ProductNat
<1> QED BY <1>3, <1>5, <1>6, <1>7, <1>8 DEF b, i, j, g

(* An asset owes its users' shares, and what an update now would lose.       *)
LEMMA DebtIsShares ==
    ASSUME Books, NEW a \in Assets
    PROVE  /\ AssetDebt(a) = Shares(a) + Lost(a)
           /\ Shares(a) \in Nat /\ Lost(a) \in Nat
<1> DEFINE w == [u \in Users |-> poolBalance[a][u] * (assets[a].index - userIndex[a][u])]
           b == poolBalance[a]
           e == Growth(a)
           scaled == [u \in Users |-> b[u] * e]
           s == [u \in Users |-> Share(a, u)]
<1>1. /\ e \in Nat /\ poolSupply[a] \in Nat /\ UNIT \in Nat
      /\ poolSupply[a] * e <= UNIT * Accrual(assets[a], poolSupply[a], now)
      /\ Accrual(assets[a], poolSupply[a], now) \in Nat
      /\ IsFiniteSet(Users)
  BY AssetFacts, DistributionAssumption, IncentivesAssumption
<1>2. \A u \in Users : /\ w[u] \in Nat /\ b[u] \in Nat /\ scaled[u] \in Nat /\ s[u] \in Nat
                       /\ scaled[u] = b[u] * e /\ s[u] = w[u] + scaled[u]
  BY ShareFacts, UserFacts
<1>3. /\ Behind(a) = SumFunctionOnSet(w, Users) /\ Shares(a) = SumFunctionOnSet(s, Users)
      /\ poolSupply[a] = SumFunctionOnSet(b, Users)
  BY DEF Behind, Shares, Books, Reported
<1> HIDE DEF w, b, scaled, s, e
<1>4. \A u \in Users : /\ w[u] \in Int /\ b[u] \in Int /\ scaled[u] \in Int
                       /\ scaled[u] = e * b[u]
  BY <1>1, <1>2
<1>5. SumFunctionOnSet(s, Users) = SumFunctionOnSet(w, Users) + SumFunctionOnSet(scaled, Users)
  BY <1>1, <1>2, <1>4, SumAdds
<1>6. SumFunctionOnSet(scaled, Users) = e * SumFunctionOnSet(b, Users)
  <2>1. e \in Int /\ IsFiniteSet(Users)
    BY <1>1
  <2> QED BY ONLY <1>4, <2>1, SumScales
<1>7. SumFunctionOnSet(w, Users) \in Int /\ SumFunctionOnSet(s, Users) \in Nat
  BY <1>1, <1>2, <1>4, SumInt, SumNat
<1> DEFINE q == e * poolSupply[a]
           p == UNIT * Accrual(assets[a], poolSupply[a], now)
<1>8. q \in Nat /\ p \in Nat /\ poolSupply[a] * e = q /\ q <= p
  BY <1>1, ProductNat
<1>9. AssetDebt(a) = Behind(a) + p /\ Lost(a) = p - q
  BY <1>8 DEF AssetDebt, Pending, Lost, e
<1>10. Shares(a) = Behind(a) + q
  BY <1>3, <1>5, <1>6
<1> HIDE DEF p, q
<1> QED BY <1>3, <1>7, <1>8, <1>9, <1>10

(* What an asset owes no more when the users in W are settled.               *)
Taken(W, a) ==
    SumFunctionOnSet([u \in Users |-> IF u \in W THEN UNIT * Due(a, u) ELSE 0], Users)

(* In a settlement an asset that is updated pays the users settled no more   *)
(* than their shares, and keeps the others'.                                 *)
LEMMA UpdateLowersDebt ==
    ASSUME Books, Books', NEW W \in SUBSET Users, NEW D \in SUBSET Assets, Settlement(W, D),
           NEW a \in D
    PROVE  /\ Taken(W, a) \in Nat
           /\ AssetDebt(a)' <= AssetDebt(a) - Taken(W, a)
           /\ Divisible => AssetDebt(a)' = AssetDebt(a) - Taken(W, a)
<1> DEFINE m == [u \in Users |-> IF u \in W THEN UNIT * Due(a, u) ELSE 0]
           k == [u \in Users |-> poolBalance'[a][u] * (assets'[a].index - userIndex'[a][u])]
           both == [u \in Users |-> k[u] + m[u]]
           s == [u \in Users |-> Share(a, u)]
<1>1. /\ assets'[a].index = Updated(a).index /\ assets'[a].lastUpdateTimestamp = now
      /\ now' = now /\ Updated(a).index \in Nat
      /\ assets'[a] \in AssetData /\ poolSupply'[a] \in Nat /\ now \in Nat
      /\ IsFiniteSet(Users) /\ UNIT \in Nat
  BY AssetFacts, IncentivesAssumption, DistributionAssumption DEF Settlement, Books, Typed
<1>2. ASSUME NEW u \in Users
      PROVE  /\ k[u] \in Int /\ m[u] \in Nat /\ s[u] \in Int /\ both[u] \in Int
             /\ both[u] = k[u] + m[u] /\ both[u] <= s[u]
             /\ Divisible => both[u] = s[u]
  <2>1. /\ Share(a, u) \in Nat /\ UNIT * Due(a, u) \in Nat /\ UNIT * Due(a, u) <= Share(a, u)
        /\ Divisible => UNIT * Due(a, u) = Share(a, u)
    BY ShareFacts DEF Divisible
  <2>2. CASE u \in W
    <3>1. userIndex'[a][u] = Updated(a).index /\ poolBalance'[a][u] \in Nat
      BY <2>2 DEF Settlement, Books, Typed
    <3>2. k[u] = 0 /\ m[u] = UNIT * Due(a, u) /\ s[u] = Share(a, u) /\ both[u] = k[u] + m[u]
      BY <1>1, <2>2, <3>1
    <3> HIDE DEF k, m, s, both
    <3> QED BY <2>1, <3>2
  <2>3. CASE u \notin W
    <3>1. userIndex'[a][u] = userIndex[a][u] /\ poolBalance'[a][u] = poolBalance[a][u]
      BY <2>3 DEF Settlement
    <3>2. k[u] = Share(a, u) /\ m[u] = 0 /\ s[u] = Share(a, u) /\ both[u] = k[u] + m[u]
      BY <1>1, <2>3, <3>1 DEF Share
    <3> HIDE DEF k, m, s, both
    <3> QED BY <2>1, <3>2
  <2> QED BY <2>2, <2>3
<1>3. AssetDebt(a)' = SumFunctionOnSet(k, Users)
  <2>1. Accrual(assets'[a], poolSupply'[a], now) = 0
    BY <1>1, NothingPending
  <2>2. Pending(a)' = 0
    BY <1>1, <2>1 DEF Pending
  <2>3. Behind(a)' = SumFunctionOnSet(k, Users)
    BY DEF Behind
  <2> HIDE DEF k
  <2>4. SumFunctionOnSet(k, Users) \in Int
    BY <1>1, <1>2, SumInt
  <2> QED BY <2>2, <2>3, <2>4 DEF AssetDebt
<1>4. AssetDebt(a) = SumFunctionOnSet(s, Users) + Lost(a) /\ Lost(a) \in Nat
  BY DebtIsShares DEF Shares
<1> HIDE DEF k, m, s, both
<1>5. SumFunctionOnSet(both, Users) = SumFunctionOnSet(k, Users) + SumFunctionOnSet(m, Users)
  BY <1>1, <1>2, SumAdds
<1>6. /\ SumFunctionOnSet(both, Users) <= SumFunctionOnSet(s, Users)
      /\ Divisible => SumFunctionOnSet(both, Users) = SumFunctionOnSet(s, Users)
  <2>1. SumFunctionOnSet(both, Users) <= SumFunctionOnSet(s, Users)
    BY <1>1, <1>2, SumMonotone
  <2>2. ASSUME Divisible PROVE SumFunctionOnSet(both, Users) = SumFunctionOnSet(s, Users)
    BY <1>1, <1>2, <2>2, SumSame
  <2> QED BY <2>1, <2>2
<1>7. /\ SumFunctionOnSet(k, Users) \in Int /\ SumFunctionOnSet(s, Users) \in Int
      /\ SumFunctionOnSet(m, Users) \in Nat
  BY <1>1, <1>2, SumInt, SumNat
<1>8. Divisible => Lost(a) = 0
  BY DEF Divisible
<1>9. /\ SumFunctionOnSet(m, Users) \in Nat
      /\ AssetDebt(a)' <= AssetDebt(a) - SumFunctionOnSet(m, Users)
      /\ Divisible => AssetDebt(a)' = AssetDebt(a) - SumFunctionOnSet(m, Users)
  BY <1>3, <1>4, <1>5, <1>6, <1>7, <1>8
<1> QED BY <1>9 DEF m, Taken

(* Together: what the users who are settled are due leaves the assets' debt. *)
AssetsDebt == SumFunctionOnSet([a \in Assets |-> AssetDebt(a)], Assets)

LEMMA AssetDebtInt ==
    ASSUME Books
    PROVE  /\ \A a \in Assets : AssetDebt(a) \in Nat
           /\ AssetsDebt \in Nat
<1> DEFINE f == [a \in Assets |-> AssetDebt(a)]
<1>1. ASSUME NEW a \in Assets
      PROVE  AssetDebt(a) \in Nat
  BY DebtIsShares
<1>2. \A a \in Assets : f[a] \in Nat
  BY <1>1
<1> HIDE DEF f
<1>3. SumFunctionOnSet(f, Assets) \in Nat
  BY <1>2, IncentivesAssumption, SumNat
<1> QED BY <1>1, <1>3 DEF AssetsDebt, f

DebtTyped == (\A a \in Assets : AssetDebt(a) \in Nat) /\ AssetsDebt \in Nat

LEMMA DebtTypedNow == Books => DebtTyped
  BY AssetDebtInt DEF DebtTyped

LEMMA DebtTypedThen == Books' => DebtTyped'
  BY DebtTypedNow, PTL

LEMMA SettlementLowersDebt ==
    ASSUME Books, Books', NEW W \in SUBSET Users, NEW D \in SUBSET Assets, Settlement(W, D),
           NEW taken, \A a \in D : taken[a] = Taken(W, a)
    PROVE  /\ AssetsDebt' <= AssetsDebt - SumFunctionOnSet(taken, D)
           /\ Divisible => AssetsDebt' = AssetsDebt - SumFunctionOnSet(taken, D)
           /\ SumFunctionOnSet(taken, D) \in Nat
<1> DEFINE f == [a \in Assets |-> AssetDebt(a)]
           g == [a \in Assets |-> AssetDebt(a)']
           t == [a \in Assets |-> IF a \in D THEN taken[a] ELSE 0]
           both == [a \in Assets |-> g[a] + t[a]]
<1>1. ASSUME NEW a \in Assets
      PROVE  /\ f[a] \in Nat /\ g[a] \in Nat /\ t[a] \in Nat
             /\ both[a] = g[a] + t[a] /\ both[a] \in Int
             /\ both[a] <= f[a] /\ (Divisible => both[a] = f[a])
             /\ t[a] = IF a \in D THEN taken[a] ELSE 0
             /\ a \in D => taken[a] \in Nat
  <2>1. AssetDebt(a) \in Nat /\ AssetDebt(a)' \in Nat
    BY DebtTypedNow, DebtTypedThen DEF DebtTyped
  <2>2. f[a] = AssetDebt(a) /\ g[a] = AssetDebt(a)' /\ both[a] = g[a] + t[a]
        /\ t[a] = IF a \in D THEN taken[a] ELSE 0
    OBVIOUS
  <2> HIDE DEF f, g, t, both
  <2>3. CASE a \in D
    <3>1. /\ Taken(W, a) \in Nat
          /\ AssetDebt(a)' <= AssetDebt(a) - Taken(W, a)
          /\ Divisible => AssetDebt(a)' = AssetDebt(a) - Taken(W, a)
          /\ taken[a] = Taken(W, a)
      BY <2>3, UpdateLowersDebt
    <3> QED BY <2>1, <2>2, <2>3, <3>1
  <2>4. CASE a \notin D
    <3>1. /\ assets'[a] = assets[a] /\ poolSupply'[a] = poolSupply[a] /\ now' = now
          /\ \A u \in Users : /\ poolBalance'[a][u] = poolBalance[a][u]
                              /\ userIndex'[a][u] = userIndex[a][u]
      BY <2>4 DEF Settlement
    <3>2. Behind(a)' = Behind(a)
      BY <3>1 DEF Behind
    <3>3. Pending(a)' = Pending(a)
      BY <3>1 DEF Pending
    <3>4. AssetDebt(a)' = AssetDebt(a)
      BY <3>2, <3>3 DEF AssetDebt
    <3> QED BY <2>1, <2>2, <2>4, <3>4
  <2> QED BY <2>3, <2>4
<1>2. AssetsDebt = SumFunctionOnSet(f, Assets)
  BY DEF AssetsDebt
<1>3. AssetsDebt' = SumFunctionOnSet(g, Assets)
  BY DEF AssetsDebt
<1>4. IsFiniteSet(Assets) /\ IsFiniteSet(D)
  BY IncentivesAssumption, FS_Subset
<1> HIDE DEF f, g, t, both
<1>5. SumFunctionOnSet(both, Assets) = SumFunctionOnSet(g, Assets) + SumFunctionOnSet(t, Assets)
  BY <1>1, <1>4, SumAdds
<1>6. SumFunctionOnSet(t, Assets) = SumFunctionOnSet(taken, D)
  <2> DEFINE h == [a \in Assets |-> IF a \in D THEN taken[a] ELSE 0]
  <2>1. \A a \in Assets : h[a] \in Int /\ t[a] = IF a \in D THEN h[a] ELSE 0
    BY <1>1
  <2>2. \A a \in D : taken[a] = h[a]
    OBVIOUS
  <2> HIDE DEF h
  <2>3. SumFunctionOnSet(t, Assets) = SumFunctionOnSet(h, D)
    BY <1>4, <2>1, SumOfPart
  <2>4. SumFunctionOnSet(taken, D) = SumFunctionOnSet(h, D)
    BY <1>4, <2>2, SumSame
  <2> QED BY <2>3, <2>4
<1>7. SumFunctionOnSet(both, Assets) <= SumFunctionOnSet(f, Assets)
  BY <1>1, <1>4, SumMonotone
<1>8. ASSUME Divisible PROVE SumFunctionOnSet(both, Assets) = SumFunctionOnSet(f, Assets)
  BY <1>1, <1>4, <1>8, SumSame
<1>9. /\ SumFunctionOnSet(t, Assets) \in Nat /\ SumFunctionOnSet(g, Assets) \in Nat
      /\ SumFunctionOnSet(f, Assets) \in Nat
  BY <1>1, <1>4, SumNat
<1> QED BY <1>2, <1>3, <1>5, <1>6, <1>7, <1>8, <1>9

LEMMA NobodySettled ==
    ASSUME Books, Books', NEW D \in SUBSET Assets, Settlement({}, D)
    PROVE  /\ AssetsDebt' <= AssetsDebt
           /\ Divisible => AssetsDebt' = AssetsDebt
<1> DEFINE none == [a \in Assets |-> 0]
<1>1. IsFiniteSet(D) /\ IsFiniteSet(Users)
  BY IncentivesAssumption, FS_Subset
<1>2. ASSUME NEW a \in D
      PROVE  none[a] = Taken({}, a)
  <2> DEFINE m == [u \in Users |-> IF u \in {} THEN UNIT * Due(a, u) ELSE 0]
  <2>1. \A u \in Users : m[u] = 0
    OBVIOUS
  <2> HIDE DEF m
  <2>2. SumFunctionOnSet(m, Users) = 0
    BY <1>1, <2>1, SumZero
  <2> QED BY <2>2 DEF Taken, m
<1>3. \A a \in D : none[a] = 0
  OBVIOUS
<1> HIDE DEF none
<1>4. SumFunctionOnSet(none, D) = 0
  BY <1>1, <1>3, SumZero
<1>5. /\ AssetsDebt' <= AssetsDebt - SumFunctionOnSet(none, D)
      /\ Divisible => AssetsDebt' = AssetsDebt - SumFunctionOnSet(none, D)
  BY <1>2, SettlementLowersDebt
<1>6. AssetsDebt \in Nat
  BY AssetDebtInt
<1> QED BY <1>4, <1>5, <1>6

LEMMA UserSettled ==
    ASSUME Books, Books', NEW u \in Users, NEW D \in SUBSET Assets, Settlement({u}, D)
    PROVE  /\ AssetsDebt' <= AssetsDebt - UNIT * DueOver(u, D)
           /\ Divisible => AssetsDebt' = AssetsDebt - UNIT * DueOver(u, D)
<1> DEFINE due == [a \in Assets |-> Due(a, u)]
           taken == [a \in Assets |-> UNIT * Due(a, u)]
<1>1. IsFiniteSet(D) /\ IsFiniteSet(Users) /\ UNIT \in Int
  BY IncentivesAssumption, DistributionAssumption, FS_Subset
<1>2. ASSUME NEW a \in D
      PROVE  taken[a] = Taken({u}, a)
  <2> DEFINE f == [v \in Users |-> UNIT * Due(a, v)]
             m == [v \in Users |-> IF v \in {u} THEN UNIT * Due(a, v) ELSE 0]
  <2>1. \A v \in Users : f[v] \in Int /\ m[v] = IF v \in {u} THEN f[v] ELSE 0
    BY ShareFacts
  <2>2. f[u] = taken[a] /\ f[u] \in Int
    BY <2>1
  <2> HIDE DEF f, m, taken
  <2>3. SumFunctionOnSet(m, Users) = SumFunctionOnSet(f, {u})
    BY <1>1, <2>1, SumOfPart
  <2>4. IsFiniteSet({u}) /\ {u} \ {u} = {} /\ u \in {u} /\ \A v \in {u} : f[v] \in Int
    BY <2>2, FS_Singleton
  <2>5. SumFunctionOnSet(f, {u}) = f[u] + SumFunctionOnSet(f, {u} \ {u})
    BY <2>4, SumRemove
  <2>6. SumFunctionOnSet(f, {u} \ {u}) = 0
    BY <2>4, SumEmpty
  <2>7. SumFunctionOnSet(m, Users) = taken[a]
    BY <2>2, <2>3, <2>5, <2>6
  <2> QED BY <2>7 DEF Taken, m
<1>3. \A a \in D : due[a] \in Int /\ taken[a] = UNIT * due[a]
  BY UserFacts
<1> HIDE DEF due, taken
<1>4. SumFunctionOnSet(taken, D) = UNIT * SumFunctionOnSet(due, D)
  BY <1>1, <1>3, SumScales
<1>5. SumFunctionOnSet(due, D) = DueOver(u, D)
  BY DEF DueOver, due
<1>6. /\ AssetsDebt' <= AssetsDebt - SumFunctionOnSet(taken, D)
      /\ Divisible => AssetsDebt' = AssetsDebt - SumFunctionOnSet(taken, D)
  BY <1>2, SettlementLowersDebt
<1> QED BY <1>4, <1>5, <1>6

-----------------------------------------------------------------------------
(* What is owed and what was released                                        *)

Unclaimed == SumFunctionOnSet(usersUnclaimedRewards, Users)

Debt == UNIT * Unclaimed + AssetsDebt

(* The controller promises no more than it released: the invariant behind    *)
(* TypeOK and RewardsWithinReleased.  Without rounding it promises it all.   *)
DebtWithinReleased == outstanding \in Int /\ Debt <= UNIT * outstanding

DebtIsReleased == outstanding \in Int /\ Debt = UNIT * outstanding

UnclaimedTyped == Unclaimed \in Nat

LEMMA UnclaimedNow == Books => UnclaimedTyped
  BY SumNat, IncentivesAssumption DEF Books, Typed, Unclaimed, UnclaimedTyped

LEMMA UnclaimedThen == Books' => UnclaimedTyped'
  BY UnclaimedNow, PTL

(* A user is credited n and pays his debt with it.                           *)
LEMMA Credited ==
    ASSUME Books, NEW u \in Users, NEW n \in Nat,
           usersUnclaimedRewards' = [usersUnclaimedRewards EXCEPT ![u] = n]
    PROVE  Unclaimed' = Unclaimed + (n - usersUnclaimedRewards[u])
<1> DEFINE f == usersUnclaimedRewards
           g == usersUnclaimedRewards'
<1>1. f \in [Users -> Nat] /\ IsFiniteSet(Users)
  BY IncentivesAssumption DEF Books, Typed
<1>2. /\ \A v \in Users : f[v] \in Int /\ g[v] \in Int
      /\ \A v \in Users \ {u} : g[v] = f[v]
      /\ g[u] = n
  BY <1>1
<1>3. Unclaimed = SumFunctionOnSet(f, Users) /\ Unclaimed' = SumFunctionOnSet(g, Users)
  BY DEF Unclaimed
<1> HIDE DEF f, g
<1>4. SumFunctionOnSet(g, Users) = SumFunctionOnSet(f, Users) - f[u] + g[u]
  BY <1>1, <1>2, SumChange
<1>5. SumFunctionOnSet(f, Users) \in Int /\ f[u] \in Int
  BY <1>1, <1>2, SumInt
<1>6. Unclaimed' = Unclaimed + (n - f[u])
  BY <1>2, <1>3, <1>4, <1>5
<1> QED BY <1>6 DEF f

(* A settlement of a user that keeps what he accrued, but for what he claims,*)
(* lowers the debt by the claim.                                             *)
LEMMA SettlementPays ==
    ASSUME Books, Books', NEW u \in Users, NEW D \in SUBSET Assets, Settlement({u}, D),
           NEW paid \in Nat, NEW n \in Nat,
           n = (usersUnclaimedRewards[u] + DueOver(u, D)) - paid,
           usersUnclaimedRewards' = [usersUnclaimedRewards EXCEPT ![u] = n],
           outstanding' = outstanding - paid
    PROVE  /\ DebtWithinReleased => DebtWithinReleased'
           /\ Divisible /\ DebtIsReleased => DebtIsReleased'
<1> DEFINE d == DueOver(u, D)
           x == UNIT * Unclaimed
           y == UNIT * d
           z == UNIT * paid
           o == UNIT * outstanding
<1>1. /\ d \in Nat /\ Unclaimed \in Nat /\ UNIT \in Nat /\ usersUnclaimedRewards[u] \in Nat
      /\ AssetsDebt \in Nat /\ AssetsDebt' \in Nat
  BY DueInt, UnclaimedNow, AssetDebtInt, DebtTypedThen, DistributionAssumption
     DEF UnclaimedTyped, DebtTyped, Books, Typed
<1>2. Unclaimed' = Unclaimed + (n - usersUnclaimedRewards[u])
  BY Credited
<1> HIDE DEF d
<1>3. Unclaimed' = Unclaimed + (d - paid)
  BY <1>1, <1>2 DEF d
<1>4. x \in Nat /\ y \in Nat /\ z \in Nat
  BY <1>1, ProductNat
<1>5. UNIT * Unclaimed' = (x + y) - z
  BY <1>1, <1>3
<1>6. /\ AssetsDebt' <= AssetsDebt - y
      /\ Divisible => AssetsDebt' = AssetsDebt - y
  BY UserSettled DEF d
<1>7. outstanding \in Int => /\ o \in Int /\ outstanding' \in Int
                             /\ UNIT * outstanding' = o - z
  BY <1>1
<1>8. Debt = x + AssetsDebt /\ Debt' = UNIT * Unclaimed' + AssetsDebt'
  BY DEF Debt
<1>9. /\ DebtWithinReleased => outstanding \in Int /\ Debt <= o
      /\ DebtIsReleased => outstanding \in Int /\ Debt = o
  BY DEF DebtWithinReleased, DebtIsReleased
<1> HIDE DEF x, y, z, o
<1>10. ASSUME DebtWithinReleased PROVE DebtWithinReleased'
  <2>1. outstanding' \in Int /\ Debt' <= UNIT * outstanding'
    BY <1>1, <1>4, <1>5, <1>6, <1>7, <1>8, <1>9, <1>10
  <2> QED BY <2>1 DEF DebtWithinReleased
<1>11. ASSUME Divisible, DebtIsReleased PROVE DebtIsReleased'
  <2>1. outstanding' \in Int /\ Debt' = UNIT * outstanding'
    BY <1>1, <1>4, <1>5, <1>6, <1>7, <1>8, <1>9, <1>11
  <2> QED BY <2>1 DEF DebtIsReleased
<1> QED BY <1>10, <1>11

(* What a second adds to the debt of the assets is what it releases.         *)
Rate(a) == IF poolSupply[a] # 0 /\ now < DISTRIBUTION_END THEN assets[a].emissionPerSecond ELSE 0

LEMMA SecondAddsDebt ==
    ASSUME Books, Books', AdvanceTime
    PROVE  /\ DebtWithinReleased => DebtWithinReleased'
           /\ DebtIsReleased => DebtIsReleased'
<1> DEFINE f == [a \in Assets |-> AssetDebt(a)]
           g == [a \in Assets |-> AssetDebt(a)']
           r == [a \in Assets |-> Rate(a)]
           scaled == [a \in Assets |-> UNIT * Rate(a)]
<1>1. /\ now' = now + 1 /\ poolBalance' = poolBalance /\ poolSupply' = poolSupply
      /\ assets' = assets /\ userIndex' = userIndex
      /\ usersUnclaimedRewards' = usersUnclaimedRewards
      /\ outstanding' = outstanding + SumFunction([a \in Assets |->
                          IF poolSupply[a] # 0 /\ now < DISTRIBUTION_END
                            THEN assets[a].emissionPerSecond
                            ELSE 0])
  BY DEF AdvanceTime, pool, distribution
<1>2. UNIT \in Nat /\ IsFiniteSet(Assets)
  BY DistributionAssumption, IncentivesAssumption
<1>3. ASSUME NEW a \in Assets
      PROVE  /\ f[a] \in Int /\ g[a] \in Int /\ r[a] \in Int /\ scaled[a] \in Int
             /\ scaled[a] = UNIT * r[a] /\ g[a] = f[a] + scaled[a]
  <2>1. /\ assets[a] \in AssetData /\ assets[a].lastUpdateTimestamp <= now /\ now \in Nat
        /\ poolSupply[a] \in Nat /\ Accrual(assets[a], poolSupply[a], now) \in Nat
    BY AssetFacts
  <2>2. Rate(a) \in Nat
    BY <2>1 DEF Rate, AssetData
  <2>3. Accrual(assets[a], poolSupply[a], now + 1)
          = Accrual(assets[a], poolSupply[a], now) + Rate(a)
    BY <2>1, SecondAccrues DEF Rate
  <2>4. Behind(a)' = Behind(a)
    BY <1>1 DEF Behind
  <2>5. Pending(a)' = UNIT * (Accrual(assets[a], poolSupply[a], now) + Rate(a))
    BY <1>1, <2>3 DEF Pending
  <2>6. Pending(a)' = Pending(a) + UNIT * Rate(a) /\ Pending(a) \in Nat /\ UNIT * Rate(a) \in Nat
    BY <1>2, <2>1, <2>2, <2>5, ProductNat DEF Pending
  <2>7. AssetDebt(a) \in Nat
    BY AssetDebtInt
  <2>8. AssetDebt(a) = Behind(a) + Pending(a) /\ AssetDebt(a)' = Behind(a)' + Pending(a)'
    BY DEF AssetDebt
  <2>9. Behind(a) \in Int
    <3> DEFINE w == [u \in Users |-> poolBalance[a][u] * (assets[a].index - userIndex[a][u])]
    <3>1. \A u \in Users : w[u] \in Int
      BY ShareFacts
    <3> HIDE DEF w
    <3>2. SumFunctionOnSet(w, Users) \in Int
      BY <3>1, IncentivesAssumption, SumInt
    <3> QED BY <3>2 DEF Behind, w
  <2>10. AssetDebt(a)' = AssetDebt(a) + UNIT * Rate(a)
    BY <2>4, <2>6, <2>8, <2>9
  <2> QED BY <2>2, <2>6, <2>7, <2>10
<1>4. AssetsDebt = SumFunctionOnSet(f, Assets) /\ AssetsDebt' = SumFunctionOnSet(g, Assets)
  BY DEF AssetsDebt
<1>5. outstanding' = outstanding + SumFunctionOnSet(r, Assets)
  BY <1>1 DEF SumFunction, Rate
<1> HIDE DEF f, g, r, scaled
<1>6. SumFunctionOnSet(g, Assets) = SumFunctionOnSet(f, Assets) + SumFunctionOnSet(scaled, Assets)
  BY <1>2, <1>3, SumAdds
<1>7. SumFunctionOnSet(scaled, Assets) = UNIT * SumFunctionOnSet(r, Assets)
  BY <1>2, <1>3, SumScales
<1>8. SumFunctionOnSet(f, Assets) \in Int /\ SumFunctionOnSet(r, Assets) \in Int
  BY <1>2, <1>3, SumInt
<1> DEFINE x == UNIT * Unclaimed
           y == SumFunctionOnSet(r, Assets)
           z == UNIT * y
           o == UNIT * outstanding
<1>9. Unclaimed' = Unclaimed /\ Unclaimed \in Nat
  BY <1>1, UnclaimedNow DEF Unclaimed, UnclaimedTyped
<1>10. x \in Int /\ z \in Int /\ AssetsDebt \in Int
  BY <1>2, <1>4, <1>8, <1>9
<1>11. Debt = x + AssetsDebt /\ Debt' = x + (AssetsDebt + z)
  BY <1>4, <1>6, <1>7, <1>9 DEF Debt
<1>12. outstanding \in Int => /\ o \in Int /\ outstanding' \in Int
                              /\ UNIT * outstanding' = o + z
  BY <1>2, <1>5, <1>8
<1>13. /\ DebtWithinReleased => outstanding \in Int /\ Debt <= o
       /\ DebtIsReleased => outstanding \in Int /\ Debt = o
  BY DEF DebtWithinReleased, DebtIsReleased
<1> HIDE DEF x, y, z, o
<1>14. ASSUME DebtWithinReleased PROVE DebtWithinReleased'
  <2>1. outstanding' \in Int /\ Debt' <= UNIT * outstanding'
    BY <1>10, <1>11, <1>12, <1>13, <1>14
  <2> QED BY <2>1 DEF DebtWithinReleased
<1>15. ASSUME DebtIsReleased PROVE DebtIsReleased'
  <2>1. outstanding' \in Int /\ Debt' = UNIT * outstanding'
    BY <1>10, <1>11, <1>12, <1>13, <1>15
  <2> QED BY <2>1 DEF DebtIsReleased
<1> QED BY <1>14, <1>15

(* Updating assets without settling anybody: the debt does not grow.         *)
LEMMA OthersKeepDebt ==
    ASSUME Books, Books', NEW D \in SUBSET Assets, Settlement({}, D),
           UNCHANGED <<usersUnclaimedRewards, outstanding>>
    PROVE  /\ DebtWithinReleased => DebtWithinReleased'
           /\ Divisible /\ DebtIsReleased => DebtIsReleased'
<1> DEFINE x == UNIT * Unclaimed
           o == UNIT * outstanding
<1>1. Unclaimed' = Unclaimed /\ Unclaimed \in Nat /\ UNIT \in Nat
  BY UnclaimedNow, DistributionAssumption DEF Unclaimed, UnclaimedTyped
<1>2. x \in Int /\ AssetsDebt \in Nat /\ AssetsDebt' \in Nat
  BY <1>1, ProductNat, AssetDebtInt, DebtTypedThen DEF DebtTyped
<1>3. Debt = x + AssetsDebt /\ Debt' = x + AssetsDebt'
  BY <1>1 DEF Debt
<1>4. /\ AssetsDebt' <= AssetsDebt
      /\ Divisible => AssetsDebt' = AssetsDebt
  BY NobodySettled
<1>5. outstanding \in Int => o \in Int
  BY <1>1
<1>6. /\ DebtWithinReleased => outstanding \in Int /\ Debt <= o
      /\ DebtIsReleased => outstanding \in Int /\ Debt = o
  BY DEF DebtWithinReleased, DebtIsReleased
<1>7. UNIT * outstanding' = o /\ outstanding' = outstanding
  OBVIOUS
<1> HIDE DEF x, o
<1>8. ASSUME DebtWithinReleased PROVE DebtWithinReleased'
  <2>1. outstanding' \in Int /\ Debt' <= UNIT * outstanding'
    BY <1>2, <1>3, <1>4, <1>5, <1>6, <1>7, <1>8
  <2> QED BY <2>1 DEF DebtWithinReleased
<1>9. ASSUME Divisible, DebtIsReleased PROVE DebtIsReleased'
  <2>1. outstanding' \in Int /\ Debt' = UNIT * outstanding'
    BY <1>2, <1>3, <1>4, <1>5, <1>6, <1>7, <1>9
  <2> QED BY <2>1 DEF DebtIsReleased
<1> QED BY <1>8, <1>9

LEMMA DebtStep ==
    ASSUME Books, Books', [Next]_vars
    PROVE  /\ DebtWithinReleased => DebtWithinReleased'
           /\ Divisible /\ DebtIsReleased => DebtIsReleased'
<1> DEFINE Goal == /\ DebtWithinReleased => DebtWithinReleased'
                   /\ Divisible /\ DebtIsReleased => DebtIsReleased'
<1>1. CASE Initialize \/ UNCHANGED vars
  <2>1. UNCHANGED <<now, poolBalance, poolSupply, assets, userIndex, usersUnclaimedRewards,
                    outstanding>>
    BY <1>1 DEF Initialize, vars, pool, distribution
  <2>2. Settlement({}, {})
    BY <2>1 DEF Settlement
  <2>3. {} \in SUBSET Assets
    OBVIOUS
  <2> QED BY <2>1, <2>2, <2>3, OthersKeepDebt
<1>2. ASSUME NEW a \in Assets, NEW u \in Users, NEW b \in 0 .. MaxBalance, PoolAction(a, u, b)
      PROVE  Goal
  <2> DEFINE n == usersUnclaimedRewards[u] + DueOver(u, {a})
  <2>1. Settlement({u}, {a})
    BY <1>2, ActionSettles
  <2>2. /\ usersUnclaimedRewards' = [usersUnclaimedRewards EXCEPT ![u] = @ + DueOver(u, {a})]
        /\ outstanding' = outstanding
    BY <1>2, ActionStores DEF PoolAction
  <2>3. usersUnclaimedRewards \in [Users -> Nat] /\ DueOver(u, {a}) \in Nat
    BY DueInt DEF Books, Typed
  <2>4. n \in Nat /\ n = n - 0 /\ usersUnclaimedRewards' = [usersUnclaimedRewards EXCEPT ![u] = n]
    BY <2>2, <2>3
  <2>5. CASE outstanding \in Int
    <3>1. outstanding' = outstanding - 0
      BY <2>2, <2>5
    <3> HIDE DEF Goal
    <3>2. 0 \in Nat /\ {a} \in SUBSET Assets
      OBVIOUS
    <3>3. n \in Nat /\ n = (usersUnclaimedRewards[u] + DueOver(u, {a})) - 0
      BY <2>4
    <3> HIDE DEF n
    <3> QED BY <2>1, <2>4, <3>1, <3>2, <3>3, SettlementPays DEF Goal
  <2>6. CASE outstanding \notin Int
    BY <2>6 DEF DebtWithinReleased, DebtIsReleased
  <2> QED BY <2>5, <2>6
<1>3. ASSUME NEW u \in Users, NEW to \in Recipients, NEW list \in Lists, NEW amount \in Amounts,
             NEW stake \in BOOLEAN, ClaimRewards(u, list, amount, to, stake)
      PROVE  Goal
  <2>1. PICK D \in SUBSET Assets : /\ SettledOver(u, list).accrued = DueOver(u, D)
                                   /\ Stores(u, D)
    BY <1>3, ClaimStores
  <2> DEFINE there == usersUnclaimedRewards[u] + SettledOver(u, list).accrued
             paid == AmountToClaim(amount, there)
             n == there - paid
  <2>2. /\ usersUnclaimedRewards[u] \in Nat /\ DueOver(u, D) \in Nat /\ amount \in Nat
    BY DueInt, IncentivesAssumption DEF Books, Typed
  <2>3. there \in Nat /\ there = usersUnclaimedRewards[u] + DueOver(u, D)
    BY <2>1, <2>2
  <2>4. /\ usersUnclaimedRewards' = [usersUnclaimedRewards EXCEPT ![u] = n]
        /\ outstanding' = outstanding - paid
        /\ UNCHANGED <<now, pool>>
    BY <1>3 DEF ClaimRewards
  <2>5. paid \in Nat /\ n \in Nat
    BY <2>2, <2>3 DEF AmountToClaim, Lesser
  <2>6. n = (usersUnclaimedRewards[u] + DueOver(u, D)) - paid
    BY <2>3
  <2>7. Settlement({u}, D)
    BY <2>1, <2>4, ClaimSettlement
  <2> HIDE DEF paid, n
  <2> QED BY <2>4, <2>5, <2>6, <2>7, SettlementPays
<1>4. ASSUME NEW list \in Lists, NEW e \in Emissions, ConfigureAssets(list, e)
      PROVE  Goal
  <2>1. PICK D \in SUBSET Assets : Settlement({}, D)
    BY <1>4, ConfigureSettles
  <2>2. UNCHANGED <<usersUnclaimedRewards, outstanding>>
    BY <1>4 DEF ConfigureAssets
  <2> QED BY <2>1, <2>2, OthersKeepDebt
<1>5. CASE AdvanceTime
  BY <1>5, SecondAddsDebt
<1> HIDE DEF Goal
<1>6. Goal
  BY <1>1, <1>2, <1>3, <1>4, <1>5 DEF Next, Goal
<1> QED BY <1>6 DEF Goal

LEMMA DebtStart ==
    ASSUME Init
    PROVE  DebtWithinReleased /\ DebtIsReleased
<1>1. Books /\ IsFiniteSet(Users) /\ IsFiniteSet(Assets) /\ UNIT \in Nat
  BY BooksFromStart, IncentivesAssumption, DistributionAssumption
<1>2. ASSUME NEW a \in Assets
      PROVE  AssetDebt(a) = 0
  <2> DEFINE w == [u \in Users |-> poolBalance[a][u] * (assets[a].index - userIndex[a][u])]
  <2>1. \A u \in Users : w[u] = 0
    BY DEF Init, NoAsset
  <2> HIDE DEF w
  <2>2. SumFunctionOnSet(w, Users) = 0
    BY <1>1, <2>1, SumZero
  <2>3. Behind(a) = 0
    BY <2>2 DEF Behind, w
  <2>4. Accrual(assets[a], poolSupply[a], now) = 0
    BY DEF Init, Accrual
  <2>5. Pending(a) = 0
    BY <1>1, <2>4 DEF Pending
  <2> QED BY <2>3, <2>5 DEF AssetDebt
<1>3. AssetsDebt = 0
  <2> DEFINE f == [a \in Assets |-> AssetDebt(a)]
  <2>1. \A a \in Assets : f[a] = 0
    BY <1>2
  <2> HIDE DEF f
  <2>2. SumFunctionOnSet(f, Assets) = 0
    BY <1>1, <2>1, SumZero
  <2> QED BY <2>2 DEF AssetsDebt, f
<1>4. Unclaimed = 0
  <2>1. \A u \in Users : usersUnclaimedRewards[u] = 0
    BY DEF Init
  <2>2. SumFunctionOnSet(usersUnclaimedRewards, Users) = 0
    BY <1>1, <2>1, SumZero
  <2> QED BY <2>2 DEF Unclaimed
<1>5. outstanding = 0 /\ UNIT * 0 = 0
  BY <1>1 DEF Init
<1> QED BY <1>3, <1>4, <1>5 DEF DebtWithinReleased, DebtIsReleased, Debt

LEMMA DebtStaysWithin == Spec => [](Books /\ DebtWithinReleased)
<1>1. Init => Books /\ DebtWithinReleased
  BY BooksFromStart, DebtStart
<1>2. Books /\ DebtWithinReleased /\ [Next]_vars => (Books /\ DebtWithinReleased)'
  BY BooksKept, DebtStep
<1> QED BY <1>1, <1>2, PTL DEF Spec

(***************************************************************************)
(* Every variable keeps its type; for `outstanding' that is the claim that *)
(* nothing is paid which was not released, for it falls with every claim   *)
(* and only time raises it.                                                *)
(***************************************************************************)
THEOREM TypesKept == Spec => []TypeOK
<1>1. Books /\ DebtWithinReleased => TypeOK
  <2> SUFFICES ASSUME Books, DebtWithinReleased PROVE TypeOK
    OBVIOUS
  <2>1. UNIT \in Nat /\ Unclaimed \in Nat /\ AssetsDebt \in Nat
    BY UnclaimedNow, AssetDebtInt, DistributionAssumption DEF UnclaimedTyped
  <2>2. UNIT * Unclaimed \in Nat /\ UNIT * 0 = 0
    BY <2>1, ProductNat
  <2>3. outstanding \in Int /\ UNIT * outstanding \in Int /\ Debt <= UNIT * outstanding
    BY <2>1 DEF DebtWithinReleased
  <2>4. UNIT * 0 <= UNIT * outstanding
    BY <2>1, <2>2, <2>3 DEF Debt
  <2>5. 0 <= outstanding
    BY <2>3, <2>4, CancelUnit
  <2> QED BY <2>3, <2>5 DEF Books, Typed, TypeOK
<1> QED BY <1>1, DebtStaysWithin, PTL

-----------------------------------------------------------------------------
(* The users' rewards and the debt                                           *)

LEMMA DebtCoversOwed ==
    ASSUME Books
    PROVE  LET total == SumFunction([u \in Users |-> Owed(u)])
           IN  /\ total \in Nat
               /\ UNIT * total <= Debt
               /\ Divisible => UNIT * total = Debt
<1> DEFINE owed == [u \in Users |-> Owed(u)]
           kept == usersUnclaimedRewards
           due == [u \in Users |-> DueOver(u, Assets)]
           table == [u \in Users |-> [a \in Assets |-> Due(a, u)]]
           across == [a \in Assets |-> [u \in Users |-> Due(a, u)]]
           column == [a \in Assets |-> SumFunctionOnSet(across[a], Users)]
           scaled == [a \in Assets |-> UNIT * column[a]]
           debt == [a \in Assets |-> AssetDebt(a)]
<1>1. IsFiniteSet(Users) /\ IsFiniteSet(Assets) /\ UNIT \in Nat
  BY IncentivesAssumption, DistributionAssumption
<1>2. \A u \in Users : /\ kept[u] \in Nat /\ due[u] \in Nat /\ owed[u] = kept[u] + due[u]
                       /\ owed[u] \in Nat
  BY OwedSplits, DueInt DEF OwedIsDue, Books, Typed
<1>3. \A u \in Users, a \in Assets : table[u][a] \in Int /\ across[a][u] = table[u][a]
  BY UserFacts
<1>4. \A u \in Users : due[u] = SumFunctionOnSet(table[u], Assets)
  BY DEF DueOver
<1>5. \A a \in Assets : column[a] = SumFunctionOnSet(across[a], Users)
  OBVIOUS
<1>6. ASSUME NEW a \in Assets
      PROVE  /\ column[a] \in Nat /\ scaled[a] \in Nat /\ debt[a] \in Nat
             /\ scaled[a] = UNIT * column[a] /\ scaled[a] <= debt[a]
             /\ Divisible => scaled[a] = debt[a]
  <2> DEFINE f == [u \in Users |-> Due(a, u)]
             fs == [u \in Users |-> UNIT * Due(a, u)]
             s == [u \in Users |-> Share(a, u)]
  <2>1. \A u \in Users : /\ f[u] \in Nat /\ fs[u] \in Nat /\ fs[u] = UNIT * f[u]
                         /\ s[u] \in Nat /\ fs[u] <= s[u]
                         /\ Divisible => fs[u] = s[u]
    BY UserFacts, ShareFacts DEF Divisible
  <2>2. across[a] = f
    OBVIOUS
  <2>3. column[a] = SumFunctionOnSet(f, Users)
    BY <2>2
  <2>4. Shares(a) = SumFunctionOnSet(s, Users)
    BY DEF Shares
  <2>5. /\ AssetDebt(a) = Shares(a) + Lost(a) /\ Lost(a) \in Nat /\ Shares(a) \in Nat
        /\ Divisible => Lost(a) = 0
    BY DebtIsShares DEF Divisible
  <2>6. debt[a] = AssetDebt(a) /\ scaled[a] = UNIT * column[a]
    OBVIOUS
  <2> HIDE DEF f, fs, s, column, scaled, debt, across
  <2>7. SumFunctionOnSet(fs, Users) = UNIT * SumFunctionOnSet(f, Users)
    BY <1>1, <2>1, SumScales
  <2>8. SumFunctionOnSet(fs, Users) <= SumFunctionOnSet(s, Users)
    BY <1>1, <2>1, SumMonotone
  <2>9. ASSUME Divisible PROVE SumFunctionOnSet(fs, Users) = SumFunctionOnSet(s, Users)
    BY <1>1, <2>1, <2>9, SumSame
  <2>10. /\ SumFunctionOnSet(f, Users) \in Nat /\ SumFunctionOnSet(fs, Users) \in Nat
    BY <1>1, <2>1, SumNat
  <2>11. scaled[a] = SumFunctionOnSet(fs, Users)
    BY <2>3, <2>6, <2>7
  <2>12. scaled[a] <= debt[a] /\ (Divisible => scaled[a] = debt[a])
    BY <2>4, <2>5, <2>6, <2>8, <2>9, <2>10, <2>11
  <2> QED BY <2>3, <2>5, <2>6, <2>10, <2>11, <2>12
<1>7. /\ SumFunction(owed) = SumFunctionOnSet(owed, Users)
      /\ Unclaimed = SumFunctionOnSet(kept, Users)
      /\ AssetsDebt = SumFunctionOnSet(debt, Assets)
  BY DEF SumFunction, Unclaimed, AssetsDebt
<1> HIDE DEF owed, kept, due, table, across, column, scaled, debt
<1>8. SumFunctionOnSet(owed, Users) = SumFunctionOnSet(kept, Users) + SumFunctionOnSet(due, Users)
  BY <1>1, <1>2, SumAdds
<1>9. SumFunctionOnSet(due, Users) = SumFunctionOnSet(column, Assets)
  <2>1. Tabulated(Users, Assets, table, across, due, column)
    BY <1>3, <1>4, <1>5 DEF Tabulated
  <2> QED BY <1>1, <2>1, SumSwap
<1>10. SumFunctionOnSet(scaled, Assets) = UNIT * SumFunctionOnSet(column, Assets)
  BY <1>1, <1>6, SumScales
<1>11. SumFunctionOnSet(scaled, Assets) <= SumFunctionOnSet(debt, Assets)
  BY <1>1, <1>6, SumMonotone
<1>12. ASSUME Divisible PROVE SumFunctionOnSet(scaled, Assets) = SumFunctionOnSet(debt, Assets)
  BY <1>1, <1>6, <1>12, SumSame
<1>13. /\ SumFunctionOnSet(owed, Users) \in Nat /\ SumFunctionOnSet(kept, Users) \in Nat
       /\ SumFunctionOnSet(column, Assets) \in Nat
       /\ SumFunctionOnSet(scaled, Assets) \in Nat /\ SumFunctionOnSet(debt, Assets) \in Nat
  BY <1>1, <1>2, <1>6, SumNat
<1> DEFINE k == SumFunctionOnSet(kept, Users)
           c == SumFunctionOnSet(column, Assets)
           x == UNIT * k
           y == UNIT * c
<1>14. UNIT * (k + c) = x + y /\ x \in Nat /\ y \in Nat
  BY <1>1, <1>13, ProductNat
<1>15. SumFunction(owed) = k + c
  BY <1>7, <1>8, <1>9
<1>16. Debt = x + AssetsDebt
  BY <1>7 DEF Debt
<1>17. y = SumFunctionOnSet(scaled, Assets)
  BY <1>10
<1> HIDE DEF k, c, x, y
<1>18. /\ UNIT * SumFunction(owed) <= Debt
       /\ Divisible => UNIT * SumFunction(owed) = Debt
  BY <1>7, <1>11, <1>12, <1>13, <1>14, <1>15, <1>16, <1>17
<1>19. SumFunction(owed) \in Nat
  BY <1>7, <1>13
<1> QED BY <1>18, <1>19 DEF owed

(***************************************************************************)
(* RewardsWithinReleased for any rates, balances, lists and scale of the   *)
(* indices.                                                                *)
(***************************************************************************)
THEOREM NoMoreIsOwedThanReleased == Spec => []RewardsWithinReleased
<1>1. Books /\ DebtWithinReleased => RewardsWithinReleased
  <2> SUFFICES ASSUME Books, DebtWithinReleased PROVE RewardsWithinReleased
    OBVIOUS
  <2> DEFINE total == SumFunction([u \in Users |-> Owed(u)])
  <2>1. total \in Nat /\ UNIT * total <= Debt
    BY DebtCoversOwed
  <2> HIDE DEF total
  <2>2. UNIT \in Nat /\ Unclaimed \in Nat /\ AssetsDebt \in Nat
    BY UnclaimedNow, AssetDebtInt, DistributionAssumption DEF UnclaimedTyped
  <2>3. UNIT * Unclaimed \in Nat
    BY <2>2, ProductNat
  <2>4. Debt \in Int
    BY <2>2, <2>3 DEF Debt
  <2>5. outstanding \in Int /\ Debt <= UNIT * outstanding
    BY DEF DebtWithinReleased
  <2>6. UNIT * outstanding \in Int /\ UNIT * total \in Int
    BY <2>1, <2>2, <2>5
  <2>7. UNIT * total <= UNIT * outstanding
    BY <2>1, <2>4, <2>5, <2>6
  <2>8. total <= outstanding
    BY <2>1, <2>5, <2>7, CancelUnit
  <2> QED BY <2>8 DEF RewardsWithinReleased, total
<1> QED BY <1>1, DebtStaysWithin, PTL

-----------------------------------------------------------------------------
(* Without rounding                                                          *)

(* Every rate is a multiple of every supply that the users' balances allow.  *)
NoRounding ==
    \A e \in Emissions : \A n \in 1 .. Cardinality(Users) * MaxBalance : \E k \in Nat : e = n * k

(* What makes the divisions exact: no balance exceeds the bound, and every   *)
(* index is a whole number of UNITs.                                         *)
IndicesWhole ==
    \A a \in Assets :
        /\ assets[a].emissionPerSecond \in Emissions \cup {0}
        /\ \E k \in Nat : assets[a].index = UNIT * k
        /\ \A u \in Users : /\ \E k \in Nat : userIndex[a][u] = UNIT * k
                            /\ poolBalance[a][u] <= MaxBalance

LEMMA SupplyBounded ==
    ASSUME Books, IndicesWhole, NEW a \in Assets, poolSupply[a] # 0
    PROVE  poolSupply[a] \in 1 .. Cardinality(Users) * MaxBalance
<1> DEFINE b == poolBalance[a]
<1>1. IsFiniteSet(Users) /\ MaxBalance \in Nat /\ Cardinality(Users) \in Nat
  BY IncentivesAssumption, FS_CardinalityType
<1>2. \A u \in Users : b[u] \in Int /\ b[u] <= MaxBalance
  BY UserFacts DEF IndicesWhole
<1>3. poolSupply[a] = SumFunctionOnSet(b, Users) /\ poolSupply[a] \in Nat
  BY DEF Books, Typed, Reported
<1> HIDE DEF b
<1>4. SumFunctionOnSet(b, Users) <= Cardinality(Users) * MaxBalance
  BY <1>1, <1>2, SumBounded
<1>5. Cardinality(Users) * MaxBalance \in Nat
  BY <1>1, ProductNat
<1> QED BY <1>3, <1>4, <1>5

LEMMA GrowthExact ==
    ASSUME Books, IndicesWhole, NoRounding, NEW a \in Assets
    PROVE  /\ Lost(a) = 0
           /\ \E k \in Nat : Updated(a).index = UNIT * k
<1>1. /\ assets[a] \in AssetData /\ poolSupply[a] \in Nat /\ now \in Nat
      /\ assets[a].lastUpdateTimestamp <= now
      /\ Growth(a) \in Nat /\ Updated(a).index = assets[a].index + Growth(a)
      /\ Accrual(assets[a], poolSupply[a], now) \in Nat
  BY AssetFacts
<1>2. poolSupply[a] # 0 => \E q \in Nat : assets[a].emissionPerSecond = poolSupply[a] * q
  <2>1. CASE assets[a].emissionPerSecond = 0
    <3>1. poolSupply[a] * 0 = 0
      BY <1>1
    <3> QED BY <2>1, <3>1
  <2>2. CASE assets[a].emissionPerSecond \in Emissions
    BY <2>2, SupplyBounded DEF NoRounding
  <2> QED BY <2>1, <2>2 DEF IndicesWhole
<1>3. /\ \E k \in Nat : Growth(a) = UNIT * k
      /\ poolSupply[a] * Growth(a) = UNIT * Accrual(assets[a], poolSupply[a], now)
  BY <1>1, <1>2, GrowthIsAccrual DEF Growth, Updated
<1>4. UNIT \in Nat /\ UNIT * Accrual(assets[a], poolSupply[a], now) \in Nat
  BY <1>1, DistributionAssumption, ProductNat
<1>5. Lost(a) = 0
  BY <1>3, <1>4 DEF Lost, Pending
<1>6. PICK g \in Nat : Growth(a) = UNIT * g
  BY <1>3
<1>7. PICK i \in Nat : assets[a].index = UNIT * i
  BY DEF IndicesWhole
<1>8. Updated(a).index = UNIT * (i + g) /\ i + g \in Nat
  BY <1>1, <1>4, <1>6, <1>7
<1> QED BY <1>5, <1>8

LEMMA NothingRounds ==
    ASSUME Books, IndicesWhole, NoRounding
    PROVE  Divisible
<1>1. ASSUME NEW a \in Assets, NEW u \in Users
      PROVE  UNIT * Due(a, u) = Share(a, u)
  <2> DEFINE b == poolBalance[a][u]
             x == Updated(a).index
             j == userIndex[a][u]
  <2>1. b \in Nat /\ x \in Nat /\ j \in Nat /\ UNIT \in Nat \ {0}
    BY AssetFacts, UserFacts, DistributionAssumption
  <2>2. Due(a, u) = (b * (x - j)) \div UNIT /\ Share(a, u) = b * (x - j)
    <3>1. Due(a, u) = AccruedRewards(b, x, j)
      BY DEF Due
    <3> HIDE DEF b, x, j
    <3>2. Due(a, u) = GetRewards(b, x, j)
      BY <2>1, <3>1, AccruedIsRewards
    <3> QED BY <3>2 DEF GetRewards, Share, b, x, j
  <2>3. PICK m \in Nat : x = UNIT * m
    BY GrowthExact
  <2>4. PICK k \in Nat : j = UNIT * k
    BY DEF IndicesWhole
  <2> HIDE DEF b, x, j
  <2>5. x - j = UNIT * (m - k) /\ m - k \in Int
    BY <2>1, <2>3, <2>4
  <2>6. b * (x - j) = UNIT * (b * (m - k)) /\ b * (m - k) \in Int
    <3> DEFINE d == m - k
    <3>1. d \in Int /\ x - j = UNIT * d
      BY <2>5
    <3> HIDE DEF d
    <3>2. b * (UNIT * d) = UNIT * (b * d) /\ b * d \in Int
      BY <2>1, <3>1
    <3> QED BY <3>1, <3>2 DEF d
  <2> DEFINE n == b * (m - k)
  <2>7. n \in Int /\ b * (x - j) = UNIT * n
    BY <2>6
  <2> HIDE DEF n
  <2>8. (UNIT * n) \div UNIT = n
    BY <2>1, <2>7, DivExact
  <2> QED BY <2>2, <2>7, <2>8
<1>2. \A a \in Assets : Lost(a) = 0
  BY GrowthExact
<1> QED BY <1>1, <1>2 DEF Divisible

LEMMA WholeStep ==
    ASSUME Books, Books', IndicesWhole, NoRounding, [Next]_vars
    PROVE  IndicesWhole'
<1>1. ASSUME NEW W \in SUBSET Users, NEW D \in SUBSET Assets, Settlement(W, D),
             \A a \in D : assets'[a].emissionPerSecond \in Emissions \cup {0},
             \A a \in Assets, u \in Users : poolBalance'[a][u] <= MaxBalance
      PROVE  IndicesWhole'
  <2>1. ASSUME NEW a \in Assets
        PROVE  /\ assets'[a].emissionPerSecond \in Emissions \cup {0}
               /\ \E k \in Nat : assets'[a].index = UNIT * k
    <3>1. CASE a \in D
      <4>1. assets'[a].index = Updated(a).index
        BY <1>1, <3>1 DEF Settlement
      <4> QED BY <1>1, <3>1, <4>1, GrowthExact
    <3>2. CASE a \notin D
      <4>1. assets'[a] = assets[a]
        BY <1>1, <3>2 DEF Settlement
      <4> QED BY <4>1 DEF IndicesWhole
    <3> QED BY <3>1, <3>2
  <2>2. ASSUME NEW a \in Assets, NEW u \in Users
        PROVE  \E k \in Nat : userIndex'[a][u] = UNIT * k
    <3>1. CASE a \in D /\ u \in W
      <4>1. userIndex'[a][u] = Updated(a).index
        BY <1>1, <3>1 DEF Settlement
      <4> QED BY <4>1, GrowthExact
    <3>2. CASE ~(a \in D /\ u \in W)
      <4>1. userIndex'[a][u] = userIndex[a][u]
        BY <1>1, <3>2 DEF Settlement
      <4> QED BY <4>1 DEF IndicesWhole
    <3> QED BY <3>1, <3>2
  <2> QED BY <1>1, <2>1, <2>2 DEF IndicesWhole
<1>2. \A a \in Assets, u \in Users : poolBalance[a][u] <= MaxBalance
  BY DEF IndicesWhole
<1>3. \A a \in Assets : assets[a].emissionPerSecond \in Emissions \cup {0}
  BY DEF IndicesWhole
<1>4. ASSUME UNCHANGED <<poolBalance, assets, userIndex>>
      PROVE  IndicesWhole'
  BY <1>4 DEF IndicesWhole
<1>5. ASSUME NEW a \in Assets, NEW u \in Users, NEW b \in 0 .. MaxBalance, PoolAction(a, u, b)
      PROVE  IndicesWhole'
  <2>1. Settlement({u}, {a}) /\ Stores(u, {a})
    BY <1>5, ActionSettles, ActionStores DEF PoolAction
  <2>2. \A c \in {a} : assets'[c].emissionPerSecond \in Emissions \cup {0}
    BY <1>3, <2>1, StoredTypes
  <2>3. poolBalance' = [poolBalance EXCEPT ![a][u] = b]
    BY <1>5 DEF PoolAction
  <2>4. b <= MaxBalance /\ poolBalance \in [Assets -> [Users -> Nat]]
    BY IncentivesAssumption DEF Books, Typed
  <2>5. \A c \in Assets, v \in Users : poolBalance'[c][v] <= MaxBalance
    BY <1>2, <2>3, <2>4
  <2> QED BY <1>1, <2>1, <2>2, <2>5
<1>6. ASSUME NEW u \in Users, NEW to \in Recipients, NEW list \in Lists, NEW n \in Amounts,
             NEW stake \in BOOLEAN, ClaimRewards(u, list, n, to, stake)
      PROVE  IndicesWhole'
  <2>1. PICK D \in SUBSET Assets : Stores(u, D)
    BY <1>6, ClaimStores
  <2>2. UNCHANGED <<now, pool>> /\ poolBalance' = poolBalance
    BY <1>6 DEF ClaimRewards, pool
  <2>3. Settlement({u}, D)
    BY <2>1, <2>2, ClaimSettlement
  <2>4. \A c \in D : assets'[c].emissionPerSecond \in Emissions \cup {0}
    BY <1>3, <2>1, StoredTypes
  <2> QED BY <1>1, <1>2, <2>2, <2>3, <2>4
<1>7. ASSUME NEW list \in Lists, NEW e \in Emissions, ConfigureAssets(list, e)
      PROVE  IndicesWhole'
  <2>1. PICK D \in SUBSET Assets :
          Settlement({}, D) /\ \A a \in D : assets'[a].emissionPerSecond = e
    BY <1>7, ConfigureSettles
  <2>2. poolBalance' = poolBalance
    BY <1>7 DEF ConfigureAssets, pool
  <2> QED BY <1>1, <1>2, <2>1, <2>2
<1>8. CASE Initialize \/ AdvanceTime \/ UNCHANGED vars
  BY <1>4, <1>8 DEF Initialize, AdvanceTime, vars, pool, distribution
<1> QED BY <1>5, <1>6, <1>7, <1>8 DEF Next

(***************************************************************************)
(* EveryRewardOwed for any users, assets, lists and scale of the indices:  *)
(* if every rate is a multiple of every supply the balances allow, what    *)
(* users are owed is all that was released and nobody claimed.             *)
(***************************************************************************)
THEOREM AllReleasedIsOwed == NoRounding => (Spec => []EveryRewardOwed)
<1> SUFFICES ASSUME NoRounding PROVE Spec => []EveryRewardOwed
  OBVIOUS
<1>1. Init => Books /\ IndicesWhole /\ DebtIsReleased
  <2> SUFFICES ASSUME Init PROVE IndicesWhole
    BY BooksFromStart, DebtStart
  <2>1. UNIT * 0 = 0 /\ 0 \in Nat /\ MaxBalance \in Nat
    BY DistributionAssumption, IncentivesAssumption
  <2> QED BY <2>1 DEF Init, NoAsset, IndicesWhole
<1>2. Books /\ IndicesWhole /\ DebtIsReleased /\ [Next]_vars
        => (Books /\ IndicesWhole /\ DebtIsReleased)'
  BY BooksKept, WholeStep, NothingRounds, DebtStep
<1>3. Books /\ IndicesWhole /\ DebtIsReleased => EveryRewardOwed
  <2> SUFFICES ASSUME Books, IndicesWhole, DebtIsReleased PROVE EveryRewardOwed
    OBVIOUS
  <2> DEFINE total == SumFunction([u \in Users |-> Owed(u)])
  <2>1. total \in Nat /\ UNIT * total = Debt
    BY NothingRounds, DebtCoversOwed
  <2> HIDE DEF total
  <2>2. UNIT \in Nat /\ outstanding \in Int /\ UNIT * total = UNIT * outstanding
    BY <2>1, DistributionAssumption DEF DebtIsReleased
  <2>3. UNIT * total \in Int
    BY <2>1, <2>2
  <2>4. total <= outstanding /\ outstanding <= total
    BY <2>1, <2>2, <2>3, CancelUnit
  <2>5. total = outstanding
    BY <2>1, <2>2, <2>4
  <2> QED BY <2>5 DEF EveryRewardOwed, total
<1> QED BY <1>1, <1>2, <1>3, PTL DEF Spec

-----------------------------------------------------------------------------
(* The stream: IncentivesController implements StreamedRewards               *)

(* A sum is the same sum in the abstract specification.                      *)
LEMMA StreamedSum ==
    ASSUME NEW f, NEW S
    PROVE  Stream!SumFunctionOnSet(f, S) = SumFunctionOnSet(f, S)
  BY DEF SumFunctionOnSet, FoldFunctionOnSet, MapThenFoldSet,
         Stream!SumFunctionOnSet, Stream!FoldFunctionOnSet, Stream!MapThenFoldSet

(* What getRewardsBalance would report for one asset at time t.              *)
RewardsAt(a, u, t) ==
    GetRewards(poolBalance[a][u], GetAssetIndex(assets[a], poolSupply[a], t), userIndex[a][u])

LEMMA SecondStreamsAsset ==
    ASSUME Books, NEW a \in Assets, NEW u \in Users
    PROVE  /\ RewardsAt(a, u, now) \in Nat /\ RewardsAt(a, u, now + 1) \in Nat
           /\ Stream!LeastShare(a, u) \in Nat /\ Stream!MostShare(a, u) \in Nat
           /\ Stream!LeastShare(a, u) <= RewardsAt(a, u, now + 1) - RewardsAt(a, u, now)
           /\ RewardsAt(a, u, now + 1) - RewardsAt(a, u, now) <= Stream!MostShare(a, u)
<1> DEFINE rate == assets[a].emissionPerSecond
           lo == LeastStreamed(poolBalance[a][u], rate, poolSupply[a], now)
           hi == MostStreamed(poolBalance[a][u], rate, poolSupply[a], now)
<1>1. /\ assets[a] \in AssetData /\ poolSupply[a] \in Nat /\ now \in Nat
      /\ assets[a].lastUpdateTimestamp <= now
      /\ poolBalance[a][u] \in Nat /\ userIndex[a][u] \in Nat
      /\ userIndex[a][u] <= assets[a].index
  BY AssetFacts, UserFacts
<1>2. Stream!Supply(a) = poolSupply[a]
  BY StreamedSum DEF Stream!Supply, Books, Reported
<1>3. Stream!Streams(a) <=> poolSupply[a] # 0 /\ now < DISTRIBUTION_END
  BY <1>2 DEF Stream!Streams
<1>4. Stream!LeastShare(a, u) = lo
  BY <1>2, <1>3 DEF Stream!LeastShare, LeastStreamed
<1>5. Stream!MostShare(a, u) = hi
  BY <1>2, <1>3 DEF Stream!MostShare, MostStreamed, Stream!DivUp, RoundedUp
<1>6. /\ RewardsAt(a, u, now) \in Nat /\ RewardsAt(a, u, now + 1) \in Nat
      /\ lo \in Nat /\ hi \in Nat
      /\ lo <= RewardsAt(a, u, now + 1) - RewardsAt(a, u, now)
      /\ RewardsAt(a, u, now + 1) - RewardsAt(a, u, now) <= hi
  BY <1>1, SecondStreams DEF RewardsAt
<1> QED BY <1>4, <1>5, <1>6

OwedTyped == \A u \in Users : Owed(u) \in Nat

LEMMA OwedTypedNow == Books => OwedTyped
<1> SUFFICES ASSUME Books, NEW u \in Users PROVE Owed(u) \in Nat
  BY DEF OwedTyped
<1>1. Owed(u) = usersUnclaimedRewards[u] + DueOver(u, Assets)
  BY OwedSplits DEF OwedIsDue
<1>2. DueOver(u, Assets) \in Nat /\ usersUnclaimedRewards[u] \in Nat
  BY DueInt DEF Books, Typed
<1> QED BY <1>1, <1>2

LEMMA OwedTypedThen == Books' => OwedTyped'
  BY OwedTypedNow, PTL

(* A second adds to each user's rewards his shares in all the assets.        *)
LEMMA TimeStreams ==
    ASSUME Books, Books', AdvanceTime
    PROVE  Stream!Tick
<1>1. /\ now' = now + 1
      /\ UNCHANGED <<poolBalance, poolSupply, assets, userIndex, usersUnclaimedRewards>>
  BY DEF AdvanceTime, pool, distribution
<1>2. IsFiniteSet(Assets)
  BY IncentivesAssumption
<1>3. ASSUME NEW u \in Users
      PROVE  Owed(u)' \in Owed(u) + Stream!Least(u) .. Owed(u) + Stream!Most(u)
  <2> DEFINE f == [a \in Assets |-> RewardsAt(a, u, now)]
             g == [a \in Assets |-> RewardsAt(a, u, now + 1)]
             d == [a \in Assets |-> g[a] - f[a]]
             least == [a \in Assets |-> Stream!LeastShare(a, u)]
             most == [a \in Assets |-> Stream!MostShare(a, u)]
  <2>1. \A a \in Assets :
          /\ f[a] \in Int /\ g[a] \in Int /\ d[a] \in Int /\ g[a] = f[a] + d[a]
          /\ least[a] \in Int /\ most[a] \in Int /\ least[a] <= d[a] /\ d[a] <= most[a]
    BY SecondStreamsAsset
  <2>2. Owed(u) = usersUnclaimedRewards[u] + SumFunctionOnSet(f, Assets)
    BY DEF Owed, SumFunction, RewardsAt
  <2>3. Owed(u)' = usersUnclaimedRewards[u] + SumFunctionOnSet(g, Assets)
    BY <1>1 DEF Owed, SumFunction, RewardsAt
  <2>4. /\ Stream!Least(u) = SumFunctionOnSet(least, Assets)
        /\ Stream!Most(u) = SumFunctionOnSet(most, Assets)
    BY StreamedSum DEF Stream!Least, Stream!Most
  <2> HIDE DEF f, g, d, least, most
  <2>5. SumFunctionOnSet(g, Assets) = SumFunctionOnSet(f, Assets) + SumFunctionOnSet(d, Assets)
    BY <1>2, <2>1, SumAdds
  <2>6. /\ SumFunctionOnSet(least, Assets) <= SumFunctionOnSet(d, Assets)
        /\ SumFunctionOnSet(d, Assets) <= SumFunctionOnSet(most, Assets)
    BY <1>2, <2>1, SumMonotone
  <2>7. /\ SumFunctionOnSet(f, Assets) \in Int /\ SumFunctionOnSet(d, Assets) \in Int
        /\ SumFunctionOnSet(least, Assets) \in Int /\ SumFunctionOnSet(most, Assets) \in Int
    BY <1>2, <2>1, SumInt
  <2>8. usersUnclaimedRewards[u] \in Nat
    BY DEF Books, Typed
  <2> QED BY <2>2, <2>3, <2>4, <2>5, <2>6, <2>7, <2>8
<1>4. \A u \in Users : Owed(u)' \in Nat
  BY OwedTypedThen DEF OwedTyped
<1> QED BY <1>1, <1>3, <1>4 DEF Stream!Tick

LEMMA ClaimStreams ==
    ASSUME Books, Books', NEW u \in Users, NEW to \in Recipients, NEW list \in Lists,
           NEW n \in Amounts, NEW stake \in BOOLEAN, ClaimRewards(u, list, n, to, stake)
    PROVE  Stream!Claim(u)
<1>1. PICK paid \in Nat : /\ Owed(u)' = Owed(u) - paid
                          /\ \A v \in Users \ {u} : Owed(v)' = Owed(v)
  BY ClaimTakes
<1>2. Owed(u) \in Nat /\ Owed(u)' \in Nat
  BY OwedTypedNow, OwedTypedThen DEF OwedTyped
<1>3. Owed(u)' \in 0 .. [v \in Users |-> Owed(v)][u]
  BY <1>1, <1>2
<1>4. [v \in Users |-> Owed(v)]' = [[v \in Users |-> Owed(v)] EXCEPT ![u] = Owed(u)']
  BY <1>1
<1>5. UNCHANGED <<now, poolBalance>>
  BY DEF ClaimRewards, pool
<1>6. PICK D \in SUBSET Assets : Stores(u, D)
  BY ClaimStores
<1>7. \A a \in Assets : assets'[a].emissionPerSecond = assets[a].emissionPerSecond
  BY <1>6, StoredTypes
<1>8. [a \in Assets |-> assets[a].emissionPerSecond]' = [a \in Assets |-> assets[a].emissionPerSecond]
  BY <1>7
<1> QED BY <1>3, <1>4, <1>5, <1>8 DEF Stream!Claim

LEMMA StreamStep ==
    ASSUME Books, Books', [Next]_vars
    PROVE  [Stream!Next]_(Stream!vars)
<1>1. CASE AdvanceTime
  BY <1>1, TimeStreams DEF Stream!Next
<1>2. ASSUME NEW u \in Users, NEW to \in Recipients, NEW list \in Lists, NEW n \in Amounts,
             NEW stake \in BOOLEAN, ClaimRewards(u, list, n, to, stake)
      PROVE  Stream!Next
  BY <1>2, ClaimStreams DEF Stream!Next
<1>3. CASE \/ Initialize \/ UNCHANGED vars
           \/ \E a \in Assets, u \in Users, b \in 0 .. MaxBalance : PoolAction(a, u, b)
           \/ \E list \in Lists, e \in Emissions : ConfigureAssets(list, e)
  <2>1. \A u \in Users : Owed(u)' = Owed(u)
    BY <1>3, OthersOweTheSame
  <2>2. [u \in Users |-> Owed(u)]' = [u \in Users |-> Owed(u)]
    BY <2>1
  <2>3. now' = now
    BY <1>3 DEF Initialize, vars, PoolAction, ConfigureAssets
  <2>4. poolBalance' \in [Assets -> [Users -> Nat]] /\ \A a \in Assets : assets'[a] \in AssetData
    BY DEF Books, Typed
  <2>5. \A a \in Assets : assets'[a].emissionPerSecond \in Nat
    BY <2>4 DEF AssetData
  <2> QED BY <2>2, <2>3, <2>4, <2>5 DEF Stream!Next, Stream!Move
<1> QED BY <1>1, <1>2, <1>3 DEF Next

LEMMA StreamStarts == Init => Stream!Init
<1> SUFFICES ASSUME Init PROVE Stream!Init
  OBVIOUS
<1>1. Books /\ now \in Nat
  BY BooksFromStart DEF Books, Typed
<1>2. poolBalance = [a \in Assets |-> [u \in Users |-> 0]] /\ assets = [a \in Assets |-> NoAsset]
  BY DEF Init
<1>3. \A a \in Assets : assets[a].emissionPerSecond = 0
  BY <1>2 DEF NoAsset
<1>4. ASSUME NEW u \in Users
      PROVE  Owed(u) = 0
  <2> DEFINE f == [a \in Assets |-> RewardsAt(a, u, now)]
  <2>1. ASSUME NEW a \in Assets
        PROVE  f[a] = 0
    <3>1. GetAssetIndex(assets[a], poolSupply[a], now) = 0
      BY <1>2 DEF Init, GetAssetIndex, Idle, NoAsset
    <3>2. poolBalance[a][u] = 0 /\ userIndex[a][u] = 0
      BY DEF Init
    <3>3. GetRewards(0, 0, 0) = 0
      BY NoRewardsSinceSettled
    <3> QED BY <3>1, <3>2, <3>3 DEF RewardsAt
  <2>2. Owed(u) = usersUnclaimedRewards[u] + SumFunctionOnSet(f, Assets)
    BY DEF Owed, SumFunction, RewardsAt
  <2> HIDE DEF f
  <2>3. SumFunctionOnSet(f, Assets) = 0
    BY <2>1, IncentivesAssumption, SumZero
  <2>4. usersUnclaimedRewards[u] = 0
    BY DEF Init
  <2> QED BY <2>2, <2>3, <2>4
<1> QED BY <1>1, <1>2, <1>3, <1>4 DEF Stream!Init

(***************************************************************************)
(* For any users, assets, lists, rates and scale of the indices, however   *)
(* the divisions round: every second adds to what a user is owed his share *)
(* of each asset's rate, rounded twice, and nothing but the claims made    *)
(* for him takes from it.                                                  *)
(***************************************************************************)
THEOREM RewardsAreStreamed == Spec => ImplementsStreamedRewards
<1>1. Books /\ Books' /\ [Next]_vars => [Stream!Next]_(Stream!vars)
  BY StreamStep
<1> QED BY <1>1, StreamStarts, BooksHold, PTL
        DEF Spec, ImplementsStreamedRewards, Stream!Spec

=============================================================================
