------------------------------ MODULE Snapshots ------------------------------
(***************************************************************************)
(* The per-user history of a value that GovernancePowerDelegationERC20     *)
(* (and ERC20WithSnapshot) keeps: snapshots of increasing block number,    *)
(* one a block at most.  Sequences here start at 1, the mapping at 0.      *)
(***************************************************************************)
EXTENDS Integers, Sequences

Snapshot == [blockNumber : Nat, value : Nat]

Increasing(s) ==
    \A i, j \in 1 .. Len(s) : i < j => s[i].blockNumber < s[j].blockNumber

Latest(s) == s[Len(s)]

\* Faulty: a second write in a block is appended like the first.
AppendSnapshot(s, block, newValue) ==
    Append(s, [blockNumber |-> block, value |-> newValue])

\* Faulty: every write replaces the last snapshot, in whichever block it was.
ReplaceLatest(s, block, newValue) ==
    IF s # <<>>
      THEN [s EXCEPT ![Len(s)].value = newValue]
      ELSE Append(s, [blockNumber |-> block, value |-> newValue])

\* _writeSnapshot: operations in the same block share a snapshot.
WriteSnapshot(s, block, newValue) ==
    IF s # <<>> /\ Latest(s).blockNumber = block
      THEN [s EXCEPT ![Len(s)] = [blockNumber |-> block, value |-> newValue]]
      ELSE Append(s, [blockNumber |-> block, value |-> newValue])

\* The snapshots no later than a block.
NoLater(s, block) == {i \in 1 .. Len(s) : s[i].blockNumber <= block}

\* What a search for a block must return: the value of the last snapshot no
\* later than it, 0 when there is none.
ValueAt(s, block) ==
    IF NoLater(s, block) = {}
      THEN 0
      ELSE s[CHOOSE i \in NoLater(s, block) : \A j \in NoLater(s, block) : j <= i].value

=============================================================================
