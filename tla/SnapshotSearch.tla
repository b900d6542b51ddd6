---------------------------- MODULE SnapshotSearch ----------------------------
(***************************************************************************)
(* _searchByBlockNumber of GovernancePowerDelegationERC20.sol, one step at *)
(* a time: the two checks before the loop, and the binary search.  A user  *)
(* without snapshots never gets here (his balance is returned).            *)
(***************************************************************************)
EXTENDS Snapshots

CONSTANTS Histories,  \* the snapshot sequences a user may have
          Blocks      \* the blocks that may be searched for

ASSUME SearchAssumption ==
    /\ Histories \subseteq {s \in Seq(Snapshot) : s # <<>> /\ Increasing(s)}
    /\ Blocks \subseteq Nat

VARIABLES s, blockNumber,  \* the arguments
          lower, upper,
          pc, result

vars == <<s, blockNumber, lower, upper, pc, result>>

TypeOK ==
    /\ s \in Histories
    /\ blockNumber \in Blocks
    /\ lower \in 1 .. Len(s)
    /\ upper \in 1 .. Len(s)
    /\ pc \in {"check", "loop", "done"}
    /\ result \in Nat

Init ==
    /\ s \in Histories
    /\ blockNumber \in Blocks
    /\ lower = 1
    /\ upper = Len(s)
    /\ pc = "check"
    /\ result = 0

Return(value) ==
    /\ pc' = "done"
    /\ result' = value
    /\ UNCHANGED <<s, blockNumber, lower, upper>>

ReturnLatest ==
    /\ pc = "check"
    /\ Latest(s).blockNumber <= blockNumber
    /\ Return(Latest(s).value)

\* Implicit zero balance before the first snapshot.
ReturnZero ==
    /\ pc = "check"
    /\ Latest(s).blockNumber > blockNumber
    /\ s[1].blockNumber > blockNumber
    /\ Return(0)

EnterLoop ==
    /\ pc = "check"
    /\ Latest(s).blockNumber > blockNumber
    /\ s[1].blockNumber <= blockNumber
    /\ pc' = "loop"
    /\ UNCHANGED <<s, blockNumber, lower, upper, result>>

\* Faulty: the middle is rounded down, so that lower may stay where it is.
floorCenter == lower + (upper - lower) \div 2

\* The middle, rounded up: above lower whenever the loop runs.
center == upper - (upper - lower) \div 2

FoundAtCenter ==
    /\ pc = "loop"
    /\ upper > lower
    /\ s[center].blockNumber = blockNumber
    /\ Return(s[center].value)

GoRight ==
    /\ pc = "loop"
    /\ upper > lower
    /\ s[center].blockNumber < blockNumber
    /\ lower' = center
    /\ UNCHANGED <<s, blockNumber, upper, pc, result>>

\* Faulty: the snapshot before the center, which may be the answer, is skipped.
GoLeftTooFar ==
    /\ pc = "loop"
    /\ upper > lower
    /\ s[center].blockNumber > blockNumber
    /\ upper' = center - 2
    /\ UNCHANGED <<s, blockNumber, lower, pc, result>>

GoLeft ==
    /\ pc = "loop"
    /\ upper > lower
    /\ s[center].blockNumber > blockNumber
    /\ upper' = center - 1
    /\ UNCHANGED <<s, blockNumber, lower, pc, result>>

ReturnLower ==
    /\ pc = "loop"
    /\ upper <= lower
    /\ Return(s[lower].value)

Next ==
    \/ ReturnLatest \/ ReturnZero \/ EnterLoop
    \/ FoundAtCenter \/ GoRight \/ GoLeft \/ ReturnLower

\* A call runs to its end: the EVM executes it in one transaction.
Spec == Init /\ [][Next]_vars /\ WF_vars(Next)

(***************************************************************************)
(* The search returns the value that was current at the end of the block   *)
(* it was asked for, on every history and for every block.                 *)
(***************************************************************************)
SearchIsCorrect == pc = "done" => result = ValueAt(s, blockNumber)

(***************************************************************************)
(* The search ends: each probe shrinks the interval, so that a vote never  *)
(* runs out of gas in a loop that stands still.                            *)
(***************************************************************************)
SearchTerminates == <>(pc = "done")

=============================================================================
