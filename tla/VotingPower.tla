----------------------------- MODULE VotingPower -----------------------------
(***************************************************************************)
(* What the governance side of the staked token promises, without          *)
(* snapshots: in every block a user's power is the sum of the balances of  *)
(* those who chose him as their delegatee (himself, unless he chose        *)
(* another), and the power of a block that is over never changes again.    *)
(***************************************************************************)
EXTENDS Integers, Functions

CONSTANTS Users, Types

VARIABLES height,      \* the current block
          balance,
          delegatee,   \* who exercises a user's power, by type
          power        \* the power of every user in every block, by type

vars == <<height, balance, delegatee, power>>

DelegatedBalance(t, u) ==
    SumFunctionOnSet(balance, {v \in Users : delegatee[t][v] = u})

Init ==
    /\ height \in Nat
    /\ balance \in [Users -> Nat]
    /\ delegatee \in [Types -> [Users -> Users]]
    /\ power = [t \in Types |-> [u \in Users |->
                  [b \in 0 .. height |-> DelegatedBalance(t, u)]]]

\* Stake moves or is delegated anew: only the current block's power changes.
Change ==
    /\ balance' \in [Users -> Nat]
    /\ delegatee' \in [Types -> [Users -> Users]]
    /\ power' = [t \in Types |-> [u \in Users |->
                   [power[t][u] EXCEPT ![height] = DelegatedBalance(t, u)']]]
    /\ UNCHANGED height

\* The next block starts with the power the last one ended with.
NextBlock ==
    /\ height' = height + 1
    /\ power' = [t \in Types |-> [u \in Users |->
                   [b \in 0 .. height + 1 |->
                      IF b <= height THEN power[t][u][b] ELSE power[t][u][height]]]]
    /\ UNCHANGED <<balance, delegatee>>

Next == Change \/ NextBlock

Spec == Init /\ [][Next]_vars

=============================================================================
