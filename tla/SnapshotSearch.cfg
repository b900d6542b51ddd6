\* Up to six snapshots in eight blocks: three rounds of the loop.
SPECIFICATION Spec
CONSTANTS
    MaxLen = 6
    MaxBlock = 8
    Histories <- MCHistories
    Blocks <- MCBlocks
INVARIANTS
    TypeOK
    SearchIsCorrect
PROPERTIES
    SearchTerminates
CHECK_DEADLOCK FALSE
