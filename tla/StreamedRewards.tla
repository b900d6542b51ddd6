--------------------------- MODULE StreamedRewards ---------------------------
(***************************************************************************)
(* What the reward arithmetic of DistributionManager promises to users,    *)
(* without indices: while a distribution runs, every second an asset       *)
(* streams its rate to its stakers, to each in proportion to his stake at  *)
(* that second.  Two divisions may round a user's share, so that he gets   *)
(* between the share rounded down twice and the share rounded up twice;    *)
(* where nothing rounds that is the share.  Nothing but time adds to what  *)
(* a user is owed, and only his own claim takes from it.                   *)
(***************************************************************************)
EXTENDS Integers, Functions

CONSTANTS Users, Assets, DISTRIBUTION_END, UNIT

VARIABLES now,
          stake,   \* what each user has staked, by asset
          rate,    \* rewards per second, by asset
          owed     \* what each user could claim

vars == <<now, stake, rate, owed>>

Supply(a) == SumFunctionOnSet(stake[a], Users)

Streams(a) == Supply(a) # 0 /\ now < DISTRIBUTION_END

DivUp(m, n) == (m + n - 1) \div n

LeastShare(a, u) ==
    IF Streams(a) THEN (stake[a][u] * ((rate[a] * UNIT) \div Supply(a))) \div UNIT ELSE 0

MostShare(a, u) ==
    IF Streams(a) THEN DivUp(stake[a][u] * DivUp(rate[a] * UNIT, Supply(a)), UNIT) ELSE 0

Least(u) == SumFunctionOnSet([a \in Assets |-> LeastShare(a, u)], Assets)

Most(u) == SumFunctionOnSet([a \in Assets |-> MostShare(a, u)], Assets)

Init ==
    /\ now \in Nat
    /\ stake = [a \in Assets |-> [u \in Users |-> 0]]
    /\ rate = [a \in Assets |-> 0]
    /\ owed = [u \in Users |-> 0]

\* A second passes.
Tick ==
    /\ now' = now + 1
    /\ \A u \in Users : owed'[u] \in owed[u] + Least(u) .. owed[u] + Most(u)
    /\ owed' \in [Users -> Nat]
    /\ UNCHANGED <<stake, rate>>

\* Stakes move or rates are set anew: this gives and takes no rewards.
Move ==
    /\ stake' \in [Assets -> [Users -> Nat]]
    /\ rate' \in [Assets -> Nat]
    /\ UNCHANGED <<now, owed>>

Claim(u) ==
    /\ \E left \in 0 .. owed[u] : owed' = [owed EXCEPT ![u] = left]
    /\ UNCHANGED <<now, stake, rate>>

Next ==
    \/ Tick
    \/ Move
    \/ \E u \in Users : Claim(u)

Spec == Init /\ [][Next]_vars

=============================================================================
