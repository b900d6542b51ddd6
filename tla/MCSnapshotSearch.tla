--------------------------- MODULE MCSnapshotSearch ---------------------------
(***************************************************************************)
(* SnapshotSearch on every history of up to MaxLen snapshots in the blocks *)
(* 1 .. MaxBlock; each snapshot's value is its position, so that no two    *)
(* can be mistaken for each other.                                         *)
(***************************************************************************)
EXTENDS SnapshotSearch, FiniteSets

CONSTANTS MaxLen, MaxBlock

HistoryOf(blocks) ==
    [i \in 1 .. Cardinality(blocks) |->
        [blockNumber |-> CHOOSE b \in blocks : Cardinality({c \in blocks : c <= b}) = i,
         value |-> i]]

MCHistories ==
    {HistoryOf(B) : B \in {C \in SUBSET (1 .. MaxBlock) : Cardinality(C) \in 1 .. MaxLen}}

MCBlocks == 0 .. MaxBlock + 1

=============================================================================
