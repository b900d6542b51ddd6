---------------------- MODULE DistributionManagerProofs ----------------------
(***************************************************************************)
(* Lemmas about the reward arithmetic of DistributionManager, for any      *)
(* rate, supply and time, and the facts about division they rest on.  The  *)
(* proofs about StakedToken and IncentivesController, which inherit the    *)
(* contract, use them.                                                     *)
(***************************************************************************)
EXTENDS DistributionManager, TLAPS

-----------------------------------------------------------------------------
(* Division *)

LEMMA DivNat ==
    ASSUME NEW n \in Nat, NEW d \in Nat \ {0}
    PROVE  n \div d \in Nat
  OBVIOUS

LEMMA ProductNat ==
    ASSUME NEW m \in Nat, NEW n \in Nat
    PROVE  m * n \in Nat
  OBVIOUS

LEMMA DivBounds ==
    ASSUME NEW n \in Nat, NEW d \in Nat \ {0}, NEW lo \in Nat, NEW hi \in Nat,
           lo * d <= n, n <= hi * d
    PROVE  n \div d \in Nat /\ lo <= n \div d /\ n \div d <= hi
<1> DEFINE q == n \div d
           r == n % d
<1>1. q \in Int /\ r \in 0 .. d - 1 /\ n = d * q + r
  BY Z3
<1>2. q >= lo
  <2>1. SUFFICES ASSUME q + 1 <= lo PROVE FALSE
    BY <1>1
  <2>2. d * (q + 1) <= d * lo
    BY <2>1, <1>1
  <2> QED BY <2>2, <1>1
<1>3. q <= hi
  <2>1. SUFFICES ASSUME hi + 1 <= q PROVE FALSE
    BY <1>1
  <2>2. d * (hi + 1) <= d * q
    BY <2>1, <1>1
  <2> QED BY <2>2, <1>1
<1> QED BY <1>1, <1>2, <1>3

LEMMA DivDefinition ==
    ASSUME NEW n \in Int, NEW d \in Nat \ {0}
    PROVE  /\ n \div d \in Int
           /\ d * (n \div d) <= n
           /\ n < d * (n \div d) + d
<1> DEFINE q == n \div d
           r == n % d
<1>1. q \in Int /\ r \in 0 .. d - 1 /\ n = d * q + r
  BY Z3
<1>2. d * q \in Int
  BY <1>1
<1> HIDE DEF q, r
<1>3. d * q <= n /\ n < d * q + d
  BY <1>1, <1>2
<1> QED BY <1>1, <1>3 DEF q

LEMMA DivExact ==
    ASSUME NEW d \in Nat \ {0}, NEW m \in Int
    PROVE  (d * m) \div d = m
<1> DEFINE q == (d * m) \div d
<1>1. d * m \in Int
  OBVIOUS
<1>2. q \in Int /\ d * q <= d * m /\ d * m < d * q + d
  BY <1>1, DivDefinition
<1> HIDE DEF q
<1>3. ~(q < m)
  <2> SUFFICES ASSUME q + 1 <= m PROVE FALSE
    BY <1>2
  <2>1. d * (q + 1) <= d * m /\ d * (q + 1) = d * q + d
    BY <1>2
  <2>2. d * q \in Int
    BY <1>2
  <2> QED BY <1>1, <1>2, <2>1, <2>2
<1>4. ~(m < q)
  <2> SUFFICES ASSUME m + 1 <= q PROVE FALSE
    BY <1>2
  <2>1. d * (m + 1) <= d * q /\ d * (m + 1) = d * m + d
    BY <1>2
  <2>2. d * q \in Int
    BY <1>2
  <2> QED BY <1>1, <1>2, <2>1, <2>2
<1>5. q = m
  BY <1>2, <1>3, <1>4
<1> QED BY <1>5 DEF q

LEMMA CancelUnit ==
    ASSUME NEW m \in Int, NEW n \in Int, UNIT * m <= UNIT * n
    PROVE  m <= n
<1>1. UNIT \in Nat /\ UNIT > 0
  BY DistributionAssumption
<1> SUFFICES ASSUME n + 1 <= m PROVE FALSE
  OBVIOUS
<1>2. UNIT * (n + 1) <= UNIT * m
  BY <1>1
<1>3. UNIT * (n + 1) = UNIT * n + UNIT
  BY <1>1
<1>4. UNIT * n \in Int /\ UNIT * m \in Int
  BY <1>1
<1> QED BY <1>1, <1>2, <1>3, <1>4

LEMMA CancelFactor ==
    ASSUME NEW d \in Nat \ {0}, NEW m \in Int, NEW n \in Int, d * m < d * n + d
    PROVE  m <= n
<1> SUFFICES ASSUME n + 1 <= m PROVE FALSE
  OBVIOUS
<1>1. d * (n + 1) <= d * m
  OBVIOUS
<1>2. d * (n + 1) = d * n + d /\ d * n \in Int /\ d * m \in Int
  OBVIOUS
<1> QED BY <1>1, <1>2

LEMMA DivMonotone ==
    ASSUME NEW d \in Nat \ {0}, NEW m \in Nat, NEW n \in Nat, m <= n
    PROVE  m \div d \in Nat /\ n \div d \in Nat /\ m \div d <= n \div d
<1> DEFINE p == m \div d
           q == n \div d
<1>1. p \in Nat /\ q \in Nat
  BY DivNat
<1>2. d * p <= m /\ n < d * q + d
  BY DivDefinition
<1> HIDE DEF p, q
<1>3. d * p \in Int /\ d * q \in Int
  BY <1>1
<1>4. d * p < d * q + d
  BY <1>2, <1>3
<1>5. p <= q
  BY <1>1, <1>4, CancelFactor
<1> QED BY <1>1, <1>5 DEF p, q

RoundedUp(n, d) == (n + d - 1) \div d

(* A quotient grows with its dividend by what is added over the divisor,     *)
(* rounded down or up.                                                       *)
LEMMA DivOfSum ==
    ASSUME NEW d \in Nat \ {0}, NEW m \in Nat, NEW n \in Nat
    PROVE  /\ n \div d \in Nat /\ RoundedUp(n, d) \in Nat
           /\ m \div d \in Nat /\ (m + n) \div d \in Nat
           /\ n \div d <= (m + n) \div d - m \div d
           /\ (m + n) \div d - m \div d <= RoundedUp(n, d)
<1> DEFINE p == m \div d
           q == (m + n) \div d
           f == n \div d
           c == RoundedUp(n, d)
<1>1. m + n \in Nat /\ n + d - 1 \in Nat
  OBVIOUS
<1>2. p \in Nat /\ q \in Nat /\ f \in Nat /\ c \in Nat
  BY <1>1, DivNat DEF RoundedUp
<1>3. /\ d * p <= m /\ m < d * p + d
      /\ d * q <= m + n /\ m + n < d * q + d
      /\ d * f <= n
      /\ n + d - 1 < d * c + d
  BY <1>1, DivDefinition DEF RoundedUp
<1> HIDE DEF p, q, f, c
<1>4. /\ d * p \in Int /\ d * q \in Int /\ d * f \in Int /\ d * c \in Int
      /\ d * (p + f) = d * p + d * f /\ d * (p + c) = d * p + d * c
  BY <1>2
<1>5. d * (p + f) < d * q + d
  BY <1>3, <1>4
<1>6. d * q < d * (p + c) + d
  BY <1>3, <1>4
<1>7. p + f <= q
  BY <1>2, <1>5, CancelFactor
<1>8. q <= p + c
  BY <1>2, <1>6, CancelFactor
<1>9. f <= q - p /\ q - p <= c
  BY <1>2, <1>7, <1>8
<1> QED BY <1>2, <1>9 DEF p, q, f, c

-----------------------------------------------------------------------------
(* Updating an asset and settling a user                                     *)

(* Updating an asset keeps its type and never lowers its index. *)
LEMMA UpdatedAsset ==
    ASSUME NEW a \in AssetData, NEW total \in Nat, NEW t \in Nat,
           CanUpdate(a, total, t)
    PROVE  /\ UpdateAssetState(a, total, t) \in AssetData
           /\ UpdateAssetState(a, total, t).lastUpdateTimestamp = t
           /\ UpdateAssetState(a, total, t).index >= a.index
<1>1. a.index \in Nat /\ a.emissionPerSecond \in Nat /\ a.lastUpdateTimestamp \in Nat
  BY DEF AssetData
<1>2. GetAssetIndex(a, total, t) \in Nat /\ GetAssetIndex(a, total, t) >= a.index
  <2>1. CASE Idle(a, total, t)
    BY <1>1, <2>1 DEF GetAssetIndex
  <2>2. CASE ~Idle(a, total, t)
    <3>1. TimeDelta(a, t) \in Nat
      BY <1>1, <2>2, DistributionAssumption DEF CanUpdate, TimeDelta, Lesser
    <3>2. total \in Nat \ {0}
      BY <2>2 DEF Idle
    <3> DEFINE earned == a.emissionPerSecond * TimeDelta(a, t) * UNIT
    <3>3. earned \in Nat
      BY <1>1, <3>1, DistributionAssumption, ProductNat
    <3>4. earned \div total \in Nat
      BY <3>2, <3>3, DivNat
    <3> QED BY <1>1, <2>2, <3>4 DEF GetAssetIndex
  <2> QED BY <2>1, <2>2
<1> QED BY <1>1, <1>2 DEF UpdateAssetState, AssetData

(* Settling a user never takes rewards away. *)
LEMMA AccruedNat ==
    ASSUME NEW b \in Nat, NEW i \in Nat, NEW j \in Nat, CanAccrue(b, i, j)
    PROVE  AccruedRewards(b, i, j) \in Nat
<1>1. CASE b = 0
  BY <1>1 DEF AccruedRewards
<1>2. CASE b # 0
  <2>1. i - j \in Nat
    BY <1>2 DEF CanAccrue
  <2>2. b * (i - j) \in Nat
    BY <2>1, ProductNat
  <2> QED BY <2>2, DivNat, DistributionAssumption DEF AccruedRewards, GetRewards
<1> QED BY <1>1, <1>2

(* The shortcuts of _updateUserAssetInternal only skip what would be zero.   *)
LEMMA AccruedIsRewards ==
    ASSUME NEW b \in Nat, NEW i \in Nat, NEW j \in Nat
    PROVE  AccruedRewards(b, i, j) = GetRewards(b, i, j)
<1>1. 0 \div UNIT = 0
  BY DistributionAssumption
<1>2. CASE i = j
  <2>1. b * (i - j) = 0
    BY <1>2
  <2> QED BY <1>1, <1>2, <2>1 DEF AccruedRewards, GetRewards
<1>3. CASE b = 0
  <2>1. b * (i - j) = 0
    BY <1>3
  <2> QED BY <1>1, <1>3, <2>1 DEF AccruedRewards, GetRewards
<1>4. CASE i # j /\ b # 0
  BY <1>4 DEF AccruedRewards
<1> QED BY <1>2, <1>3, <1>4

LEMMA NoRewardsSinceSettled ==
    ASSUME NEW b \in Nat, NEW i \in Nat
    PROVE  GetRewards(b, i, i) = 0
<1>1. 0 \div UNIT = 0 /\ b * (i - i) = 0
  BY DistributionAssumption
<1> QED BY <1>1 DEF GetRewards

(* An asset updated in this second stands at its index until the next.       *)
LEMMA UpdatedIsIdle ==
    ASSUME NEW a, NEW total, NEW t, a.lastUpdateTimestamp = t
    PROVE  GetAssetIndex(a, total, t) = a.index
  BY DEF GetAssetIndex, Idle

(* What the schedule released to the stakers of an asset since its last      *)
(* update, if they held `total' all the time.                                *)
Accrual(a, total, t) ==
    IF total = 0 \/ a.lastUpdateTimestamp >= DISTRIBUTION_END
      THEN 0
      ELSE a.emissionPerSecond * TimeDelta(a, t)

(* An update spreads no more than what is pending, if the total it divides   *)
(* by is not below the one that earned it.                                   *)
LEMMA GrowthWithinAccrual ==
    ASSUME NEW a \in AssetData, NEW total \in Nat, NEW more \in Nat, total <= more,
           NEW t \in Nat, a.lastUpdateTimestamp <= t
    PROVE  LET d == UpdateAssetState(a, more, t).index - a.index
           IN  /\ CanUpdate(a, more, t)
               /\ d \in Nat
               /\ Accrual(a, total, t) \in Nat
               /\ total * d <= UNIT * Accrual(a, total, t)
<1> DEFINE d == UpdateAssetState(a, more, t).index - a.index
<1>1. a.index \in Nat /\ a.emissionPerSecond \in Nat /\ a.lastUpdateTimestamp \in Nat
  BY DEF AssetData
<1>2. UNIT \in Nat \ {0} /\ DISTRIBUTION_END \in Nat
  BY DistributionAssumption
<1>3. a.lastUpdateTimestamp < DISTRIBUTION_END => TimeDelta(a, t) \in Nat
  BY <1>1, <1>2 DEF TimeDelta, Lesser
<1>4. CanUpdate(a, more, t)
  BY <1>1, <1>2, <1>3 DEF CanUpdate, Idle
<1>5. UpdateAssetState(a, more, t).index = GetAssetIndex(a, more, t)
  BY DEF UpdateAssetState, AssetData
<1>6. Accrual(a, total, t) \in Nat
  BY <1>1, <1>2, <1>3, ProductNat DEF Accrual
<1>7. UNIT * Accrual(a, total, t) \in Nat
  BY <1>2, <1>6, ProductNat
<1>8. CASE Idle(a, more, t)
  <2>1. d = 0
    BY <1>1, <1>5, <1>8 DEF GetAssetIndex
  <2> QED BY <1>4, <1>6, <1>7, <2>1
<1>9. CASE ~Idle(a, more, t)
  <2> DEFINE earned == a.emissionPerSecond * TimeDelta(a, t) * UNIT
  <2>1. more \in Nat \ {0} /\ TimeDelta(a, t) \in Nat /\ a.lastUpdateTimestamp < DISTRIBUTION_END
    BY <1>1, <1>2, <1>3, <1>9 DEF Idle
  <2>2. earned \in Nat
    BY <1>1, <1>2, <2>1, ProductNat
  <2>3. d = earned \div more
    <3>1. earned \div more \in Nat
      BY <2>1, <2>2, DivNat
    <3> QED BY <1>1, <1>5, <1>9, <3>1 DEF GetAssetIndex
  <2>4. d \in Nat /\ more * d <= earned
    <3> HIDE DEF d, earned
    <3> QED BY <2>1, <2>2, <2>3, DivNat, DivDefinition
  <2>5. total * d <= more * d
    <3> HIDE DEF d
    <3> QED BY <2>1, <2>4
  <2>6. CASE total = 0
    <3> HIDE DEF d
    <3>1. total * d = 0
      BY <2>4, <2>6
    <3> QED BY <1>4, <1>6, <1>7, <2>4, <3>1 DEF d
  <2>7. CASE total # 0
    <3>1. Accrual(a, total, t) = a.emissionPerSecond * TimeDelta(a, t)
      BY <1>1, <1>2, <2>1, <2>7 DEF Accrual
    <3>2. earned = UNIT * Accrual(a, total, t)
      BY <1>1, <1>2, <2>1, <3>1
    <3> HIDE DEF d, earned
    <3>3. total * d \in Int /\ more * d \in Int
      BY <2>1, <2>4
    <3> QED BY <1>4, <1>6, <2>2, <2>4, <2>5, <3>2, <3>3 DEF d
  <2> QED BY <2>6, <2>7
<1> QED BY <1>8, <1>9

(* An asset updated this second has nothing pending, whatever its supply.    *)
LEMMA NothingPending ==
    ASSUME NEW a \in AssetData, NEW total \in Nat, NEW t \in Nat,
           a.lastUpdateTimestamp = t
    PROVE  Accrual(a, total, t) = 0
<1>1. a.emissionPerSecond \in Nat /\ DISTRIBUTION_END \in Nat
  BY DistributionAssumption DEF AssetData
<1>2. t < DISTRIBUTION_END => TimeDelta(a, t) = 0
  BY <1>1 DEF TimeDelta, Lesser
<1>3. a.emissionPerSecond * 0 = 0
  BY <1>1
<1> QED BY <1>1, <1>2, <1>3 DEF Accrual

(* A second that passes releases the rate, if there is stake and the         *)
(* distribution still runs.                                                  *)
LEMMA SecondAccrues ==
    ASSUME NEW a \in AssetData, NEW total \in Nat, NEW t \in Nat,
           a.lastUpdateTimestamp <= t
    PROVE  Accrual(a, total, t + 1) = Accrual(a, total, t)
             + (IF total # 0 /\ t < DISTRIBUTION_END THEN a.emissionPerSecond ELSE 0)
<1>1. /\ a.emissionPerSecond \in Nat /\ a.lastUpdateTimestamp \in Nat
      /\ DISTRIBUTION_END \in Nat
  BY DistributionAssumption DEF AssetData
<1> DEFINE r == a.emissionPerSecond
           k == TimeDelta(a, t)
<1>2. CASE total # 0 /\ t < DISTRIBUTION_END
  <2>1. TimeDelta(a, t + 1) = k + 1 /\ k \in Nat
    BY <1>1, <1>2 DEF TimeDelta, Lesser
  <2>2. Accrual(a, total, t) = r * k /\ Accrual(a, total, t + 1) = r * (k + 1)
    BY <1>1, <1>2, <2>1 DEF Accrual
  <2>3. r * (k + 1) = r * k + r
    BY <1>1, <2>1
  <2> QED BY <1>2, <2>2, <2>3
<1>3. CASE ~(total # 0 /\ t < DISTRIBUTION_END)
  <2>1. a.lastUpdateTimestamp < DISTRIBUTION_END /\ total # 0 =>
          TimeDelta(a, t + 1) = k /\ k \in Nat
    BY <1>1, <1>3 DEF TimeDelta, Lesser
  <2> HIDE DEF k
  <2>2. a.lastUpdateTimestamp < DISTRIBUTION_END /\ total # 0 => r * k \in Nat
    BY <1>1, <2>1, ProductNat
  <2>3. Accrual(a, total, t + 1) = Accrual(a, total, t) /\ Accrual(a, total, t) \in Nat
    BY <1>1, <2>1, <2>2 DEF Accrual, k
  <2> QED BY <1>3, <2>3
<1> QED BY <1>2, <1>3

(* If the rate is a multiple of the supply, an update spreads exactly what   *)
(* is pending, in whole UNITs.                                               *)
LEMMA GrowthIsAccrual ==
    ASSUME NEW a \in AssetData, NEW total \in Nat, NEW t \in Nat,
           a.lastUpdateTimestamp <= t,
           total # 0 => \E q \in Nat : a.emissionPerSecond = total * q
    PROVE  LET d == UpdateAssetState(a, total, t).index - a.index
           IN  /\ \E k \in Nat : d = UNIT * k
               /\ total * d = UNIT * Accrual(a, total, t)
<1> DEFINE d == UpdateAssetState(a, total, t).index - a.index
           r == a.emissionPerSecond
           k == TimeDelta(a, t)
<1>1. r \in Nat /\ a.index \in Nat /\ a.lastUpdateTimestamp \in Nat
  BY DEF AssetData
<1>2. UNIT \in Nat \ {0} /\ DISTRIBUTION_END \in Nat
  BY DistributionAssumption
<1>3. a.lastUpdateTimestamp < DISTRIBUTION_END => k \in Nat
  BY <1>1, <1>2 DEF TimeDelta, Lesser
<1>4. UpdateAssetState(a, total, t).index = GetAssetIndex(a, total, t)
  BY DEF UpdateAssetState, AssetData
<1>5. CASE Idle(a, total, t)
  <2>1. d = 0
    BY <1>1, <1>4, <1>5 DEF GetAssetIndex
  <2>2. Accrual(a, total, t) = 0
    <3>1. CASE total = 0 \/ a.lastUpdateTimestamp >= DISTRIBUTION_END
      BY <3>1 DEF Accrual
    <3>2. CASE total # 0 /\ a.lastUpdateTimestamp < DISTRIBUTION_END
      <4>1. Accrual(a, total, t) = r * k
        BY <1>1, <1>2, <3>2 DEF Accrual
      <4>2. r = 0 \/ k = 0
        BY <1>1, <1>2, <1>5, <3>2 DEF Idle, TimeDelta, Lesser
      <4>3. k \in Nat
        BY <1>3, <3>2
      <4> HIDE DEF k
      <4> QED BY <1>1, <4>1, <4>2, <4>3
    <3> QED BY <1>1, <1>2, <3>1, <3>2
  <2>3. UNIT * 0 = 0 /\ total * 0 = 0
    BY <1>2
  <2> QED BY <2>1, <2>2, <2>3
<1>6. CASE ~Idle(a, total, t)
  <2>1. k \in Nat /\ total \in Nat \ {0} /\ a.lastUpdateTimestamp < DISTRIBUTION_END
    BY <1>1, <1>2, <1>3, <1>6 DEF Idle
  <2>2. PICK q \in Nat : r = total * q
    BY <2>1
  <2>3. Accrual(a, total, t) = r * k
    BY <1>1, <1>2, <2>1 DEF Accrual
  <2>4. d = (r * k * UNIT) \div total
    <3>1. r * k * UNIT \in Nat
      BY <1>1, <1>2, <2>1, ProductNat
    <3>2. (r * k * UNIT) \div total \in Nat
      BY <2>1, <3>1, DivNat
    <3> QED BY <1>1, <1>4, <1>6, <3>2 DEF GetAssetIndex
  <2> HIDE DEF r, k, d
  <2>5. r * k * UNIT = total * (q * k * UNIT) /\ q * k * UNIT \in Int
    BY <1>1, <1>2, <2>1, <2>2
  <2>6. d = q * k * UNIT
    BY <1>1, <2>1, <2>4, <2>5, DivExact
  <2>7. d = UNIT * (q * k) /\ q * k \in Nat
    BY <1>2, <2>1, <2>6
  <2>8. total * d = UNIT * Accrual(a, total, t)
    BY <1>1, <1>2, <2>1, <2>2, <2>3, <2>6
  <2> QED BY <2>7, <2>8 DEF d
<1> QED BY <1>5, <1>6

-----------------------------------------------------------------------------
(* What a second adds to a user's rewards                                    *)

(* The share of a user who has `b' of `total' staked when a second passes,   *)
(* each division rounded down, or each rounded up.                           *)
LeastStreamed(b, rate, total, t) ==
    IF total # 0 /\ t < DISTRIBUTION_END THEN (b * ((rate * UNIT) \div total)) \div UNIT ELSE 0

MostStreamed(b, rate, total, t) ==
    IF total # 0 /\ t < DISTRIBUTION_END
      THEN RoundedUp(b * RoundedUp(rate * UNIT, total), UNIT)
      ELSE 0

(* The shortcuts of _getAssetIndex skip only what adds nothing, as long as   *)
(* there is stake and the last update was before the end.                    *)
LEMMA IndexFormula ==
    ASSUME NEW a \in AssetData, NEW total \in Nat \ {0}, NEW t \in Nat,
           a.lastUpdateTimestamp <= t, a.lastUpdateTimestamp < DISTRIBUTION_END
    PROVE  /\ TimeDelta(a, t) \in Nat
           /\ a.emissionPerSecond * TimeDelta(a, t) * UNIT \in Nat
           /\ GetAssetIndex(a, total, t) =
                a.index + (a.emissionPerSecond * TimeDelta(a, t) * UNIT) \div total
<1>1. /\ a.index \in Nat /\ a.emissionPerSecond \in Nat /\ a.lastUpdateTimestamp \in Nat
      /\ UNIT \in Nat \ {0} /\ DISTRIBUTION_END \in Nat
  BY DistributionAssumption DEF AssetData
<1>2. TimeDelta(a, t) \in Nat
  BY <1>1 DEF TimeDelta, Lesser
<1>3. a.emissionPerSecond * TimeDelta(a, t) * UNIT \in Nat
  BY <1>1, <1>2, ProductNat
<1>4. CASE Idle(a, total, t)
  <2>1. a.emissionPerSecond = 0 \/ TimeDelta(a, t) = 0
    BY <1>1, <1>4 DEF Idle, TimeDelta, Lesser
  <2> DEFINE k == TimeDelta(a, t)
             r == a.emissionPerSecond
  <2>2. r \in Nat /\ k \in Nat /\ (r = 0 \/ k = 0)
    BY <1>1, <1>2, <2>1
  <2> HIDE DEF k, r
  <2>3. r * k = 0
    BY <2>2
  <2>4. r * k * UNIT = 0
    BY <1>1, <2>3
  <2>5. 0 \div total = 0
    OBVIOUS
  <2> QED BY <1>1, <1>2, <1>3, <1>4, <2>4, <2>5 DEF GetAssetIndex, k, r
<1>5. CASE ~Idle(a, total, t)
  BY <1>2, <1>3, <1>5 DEF GetAssetIndex
<1> QED BY <1>4, <1>5

(* A second raises the index by the rate over the supply, rounded down or    *)
(* up, and without stake or after the end not at all.                        *)
LEMMA SecondRaisesIndex ==
    ASSUME NEW a \in AssetData, NEW total \in Nat, NEW t \in Nat,
           a.lastUpdateTimestamp <= t
    PROVE  LET i == GetAssetIndex(a, total, t)
               j == GetAssetIndex(a, total, t + 1)
               perToken == a.emissionPerSecond * UNIT
           IN  /\ i \in Nat /\ j \in Nat /\ a.index <= i /\ i <= j
               /\ total # 0 /\ t < DISTRIBUTION_END =>
                    /\ perToken \div total \in Nat /\ RoundedUp(perToken, total) \in Nat
                    /\ perToken \div total <= j - i
                    /\ j - i <= RoundedUp(perToken, total)
               /\ ~(total # 0 /\ t < DISTRIBUTION_END) => j = i
<1> DEFINE i == GetAssetIndex(a, total, t)
           j == GetAssetIndex(a, total, t + 1)
           r == a.emissionPerSecond
           k == TimeDelta(a, t)
<1>1. /\ a.index \in Nat /\ r \in Nat /\ a.lastUpdateTimestamp \in Nat
      /\ UNIT \in Nat \ {0} /\ DISTRIBUTION_END \in Nat /\ t + 1 \in Nat
  BY DistributionAssumption DEF AssetData
<1>2. CASE total = 0 \/ a.lastUpdateTimestamp >= DISTRIBUTION_END
  <2>1. i = a.index /\ j = a.index
    BY <1>2 DEF GetAssetIndex, Idle
  <2>2. ~(total # 0 /\ t < DISTRIBUTION_END)
    BY <1>1, <1>2
  <2> QED BY <1>1, <2>1, <2>2
<1>3. CASE total # 0 /\ a.lastUpdateTimestamp < DISTRIBUTION_END
  <2>1. total \in Nat \ {0} /\ a.lastUpdateTimestamp <= t + 1
    BY <1>1, <1>3
  <2>2. k \in Nat /\ r * k * UNIT \in Nat /\ i = a.index + (r * k * UNIT) \div total
    BY <1>3, <2>1, IndexFormula
  <2>3. j = a.index + (r * TimeDelta(a, t + 1) * UNIT) \div total
    BY <1>1, <1>3, <2>1, IndexFormula
  <2>4. CASE t < DISTRIBUTION_END
    <3>1. TimeDelta(a, t + 1) = k + 1
      BY <1>1, <2>4 DEF TimeDelta, Lesser
    <3> HIDE DEF r, k
    <3>2. r * (k + 1) * UNIT = r * k * UNIT + r * UNIT /\ r * UNIT \in Nat
      BY <1>1, <2>2, ProductNat
    <3> DEFINE m == r * k * UNIT
               n == r * UNIT
    <3>3. m \in Nat /\ n \in Nat /\ i = a.index + m \div total /\ j = a.index + (m + n) \div total
      BY <2>2, <2>3, <3>1, <3>2
    <3> HIDE DEF m, n, i, j
    <3>4. /\ n \div total \in Nat /\ RoundedUp(n, total) \in Nat
          /\ m \div total \in Nat /\ (m + n) \div total \in Nat
          /\ n \div total <= (m + n) \div total - m \div total
          /\ (m + n) \div total - m \div total <= RoundedUp(n, total)
      BY <2>1, <3>3, DivOfSum
    <3>5. /\ i \in Nat /\ j \in Nat /\ a.index <= i /\ i <= j
          /\ n \div total <= j - i /\ j - i <= RoundedUp(n, total)
      BY <1>1, <3>3, <3>4
    <3> QED BY <2>1, <2>4, <3>4, <3>5 DEF n, i, j, r
  <2>5. CASE ~(t < DISTRIBUTION_END)
    <3>1. TimeDelta(a, t + 1) = k
      BY <1>1, <2>5 DEF TimeDelta, Lesser
    <3>2. j = i
      BY <2>2, <2>3, <3>1
    <3>3. (r * k * UNIT) \div total \in Nat
      BY <2>1, <2>2, DivNat
    <3> QED BY <1>1, <2>2, <2>5, <3>2, <3>3
  <2> QED BY <2>4, <2>5
<1> QED BY <1>1, <1>2, <1>3

(* Whenever he was last settled, a second adds to a user's rewards his share *)
(* of the rate, to within what the two divisions round.                      *)
LEMMA SecondStreams ==
    ASSUME NEW a \in AssetData, NEW total \in Nat, NEW t \in Nat,
           a.lastUpdateTimestamp <= t, NEW b \in Nat, NEW k \in Nat, k <= a.index
    PROVE  LET before == GetRewards(b, GetAssetIndex(a, total, t), k)
               after  == GetRewards(b, GetAssetIndex(a, total, t + 1), k)
           IN  /\ before \in Nat /\ after \in Nat
               /\ LeastStreamed(b, a.emissionPerSecond, total, t) \in Nat
               /\ MostStreamed(b, a.emissionPerSecond, total, t) \in Nat
               /\ LeastStreamed(b, a.emissionPerSecond, total, t) <= after - before
               /\ after - before <= MostStreamed(b, a.emissionPerSecond, total, t)
<1> DEFINE i == GetAssetIndex(a, total, t)
           j == GetAssetIndex(a, total, t + 1)
           g == j - i
           perToken == a.emissionPerSecond * UNIT
           lo == perToken \div total
           hi == RoundedUp(perToken, total)
<1>1. UNIT \in Nat \ {0} /\ a.index \in Nat
  BY DistributionAssumption DEF AssetData
<1>2. /\ i \in Nat /\ j \in Nat /\ a.index <= i /\ i <= j
      /\ total # 0 /\ t < DISTRIBUTION_END =>
           lo \in Nat /\ hi \in Nat /\ lo <= g /\ g <= hi
      /\ ~(total # 0 /\ t < DISTRIBUTION_END) => j = i
  BY SecondRaisesIndex
<1>3. GetRewards(b, i, k) = (b * (i - k)) \div UNIT /\ GetRewards(b, j, k) = (b * (j - k)) \div UNIT
  BY DEF GetRewards
<1> HIDE DEF i, j, lo, hi
<1>4. i - k \in Nat /\ j - k \in Nat /\ g \in Nat /\ j - k = (i - k) + g
  BY <1>1, <1>2
<1>5. b * (i - k) \in Nat /\ b * g \in Nat /\ b * (j - k) = b * (i - k) + b * g
  <2> DEFINE e == i - k
  <2>1. e \in Nat /\ j - k = e + g
    BY <1>4
  <2> HIDE DEF e, g
  <2>2. b * (e + g) = b * e + b * g /\ b * e \in Nat /\ b * g \in Nat
    BY <1>4, <2>1, ProductNat
  <2> QED BY <2>1, <2>2 DEF e
<1> DEFINE m == b * (i - k)
           n == b * g
<1>6. /\ m \in Nat /\ n \in Nat
      /\ GetRewards(b, i, k) = m \div UNIT /\ GetRewards(b, j, k) = (m + n) \div UNIT
  BY <1>3, <1>5
<1> HIDE DEF m
<1>7. /\ n \div UNIT \in Nat /\ RoundedUp(n, UNIT) \in Nat
      /\ m \div UNIT \in Nat /\ (m + n) \div UNIT \in Nat
      /\ n \div UNIT <= (m + n) \div UNIT - m \div UNIT
      /\ (m + n) \div UNIT - m \div UNIT <= RoundedUp(n, UNIT)
  BY <1>1, <1>6, DivOfSum
<1>8. CASE ~(total # 0 /\ t < DISTRIBUTION_END)
  <2>1. j = i
    BY <1>2, <1>8
  <2>2. LeastStreamed(b, a.emissionPerSecond, total, t) = 0 /\ MostStreamed(b, a.emissionPerSecond, total, t) = 0
    BY <1>8 DEF LeastStreamed, MostStreamed
  <2> QED BY <1>6, <1>7, <2>1, <2>2 DEF i, j
<1>9. CASE total # 0 /\ t < DISTRIBUTION_END
  <2>1. lo \in Nat /\ hi \in Nat /\ lo <= g /\ g <= hi
    BY <1>2, <1>9
  <2>2. /\ LeastStreamed(b, a.emissionPerSecond, total, t) = (b * lo) \div UNIT
        /\ MostStreamed(b, a.emissionPerSecond, total, t) = RoundedUp(b * hi, UNIT)
    BY <1>9 DEF LeastStreamed, MostStreamed, lo, hi
  <2> HIDE DEF g, n
  <2>3. b * lo \in Nat /\ b * hi \in Nat
    BY <2>1, ProductNat
  <2>4. b * lo <= b * g /\ b * g <= b * hi
    BY <1>4, <2>1
  <2>5. n = b * g
    BY DEF n
  <2>6. (b * lo) \div UNIT \in Nat /\ (b * lo) \div UNIT <= n \div UNIT
    BY <1>1, <1>6, <2>3, <2>4, <2>5, DivMonotone
  <2>7. RoundedUp(b * hi, UNIT) \in Nat /\ RoundedUp(n, UNIT) <= RoundedUp(b * hi, UNIT)
    <3>1. n + UNIT - 1 \in Nat /\ b * hi + UNIT - 1 \in Nat /\ n + UNIT - 1 <= b * hi + UNIT - 1
      BY <1>1, <1>6, <2>3, <2>4, <2>5
    <3> QED BY <1>1, <3>1, DivMonotone DEF RoundedUp
  <2> QED BY <1>6, <1>7, <2>2, <2>6, <2>7 DEF i, j
<1> QED BY <1>8, <1>9

=============================================================================
