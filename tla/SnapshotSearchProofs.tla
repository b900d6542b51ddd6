------------------------- MODULE SnapshotSearchProofs -------------------------
(***************************************************************************)
(* The binary search over a user's snapshots returns the right value on    *)
(* any history and for any block, each probe halving what is left.         *)
(***************************************************************************)
EXTENDS SnapshotSearch, TLAPS

(* The arguments are fixed; the interval holds the last snapshot no later    *)
(* than the block, whenever the loop looks at it.                            *)
Interval ==
    /\ pc = "check" => lower = 1 /\ upper = Len(s)
    /\ pc = "loop" =>
         /\ lower <= upper
         /\ s[lower].blockNumber <= blockNumber
         /\ \A j \in upper + 1 .. Len(s) : s[j].blockNumber > blockNumber

SearchInv == TypeOK /\ Interval /\ SearchIsCorrect

LEMMA HistoryFacts ==
    ASSUME NEW h \in Histories
    PROVE  /\ h \in Seq(Snapshot) /\ Increasing(h)
           /\ Len(h) \in Nat /\ Len(h) >= 1
           /\ \A i \in 1 .. Len(h) : h[i].blockNumber \in Nat /\ h[i].value \in Nat
<1>1. h \in Seq(Snapshot) /\ h # <<>> /\ Increasing(h)
  BY SearchAssumption
<1>2. Len(h) \in Nat /\ Len(h) >= 1
  BY <1>1
<1>3. \A i \in 1 .. Len(h) : h[i] \in Snapshot
  BY <1>1
<1> QED BY <1>1, <1>2, <1>3 DEF Snapshot

(* The snapshot that decides: no later than the block, all after it later.   *)
LEMMA ValueOfLast ==
    ASSUME NEW h \in Histories, NEW b \in Nat, NEW k \in 1 .. Len(h),
           h[k].blockNumber <= b,
           \A j \in k + 1 .. Len(h) : h[j].blockNumber > b
    PROVE  ValueAt(h, b) = h[k].value
<1> DEFINE before == NoLater(h, b)
<1>1. k \in before
  BY DEF NoLater
<1>2. before \subseteq 1 .. Len(h) /\ \A j \in before : j <= k
  BY HistoryFacts DEF NoLater
<1>3. \A i \in before : (\A j \in before : j <= i) => i = k
  BY <1>1, <1>2, HistoryFacts
<1>4. (CHOOSE i \in before : \A j \in before : j <= i) = k
  BY <1>1, <1>2, <1>3
<1> QED BY <1>1, <1>4 DEF ValueAt

LEMMA ValueBeforeFirst ==
    ASSUME NEW h \in Histories, NEW b \in Nat, h[1].blockNumber > b
    PROVE  ValueAt(h, b) = 0
<1>1. \A i \in 1 .. Len(h) : h[i].blockNumber >= h[1].blockNumber
  BY HistoryFacts DEF Increasing
<1>2. NoLater(h, b) = {}
  BY <1>1, HistoryFacts DEF NoLater
<1> QED BY <1>2 DEF ValueAt

LEMMA InitSearch == Init => SearchInv
<1> SUFFICES ASSUME Init PROVE SearchInv
  OBVIOUS
<1>1. TypeOK
  BY HistoryFacts DEF Init, TypeOK
<1> QED BY <1>1 DEF Init, SearchInv, Interval, SearchIsCorrect

LEMMA NextSearch == SearchInv /\ [Next]_vars => SearchInv'
<1> SUFFICES ASSUME SearchInv, [Next]_vars PROVE SearchInv'
  OBVIOUS
<1>1. /\ s \in Histories /\ blockNumber \in Nat
      /\ lower \in 1 .. Len(s) /\ upper \in 1 .. Len(s)
      /\ Len(s) \in Nat /\ Len(s) >= 1 /\ Increasing(s)
      /\ \A i \in 1 .. Len(s) : s[i].blockNumber \in Nat /\ s[i].value \in Nat
  BY HistoryFacts, SearchAssumption DEF SearchInv, TypeOK
<1>2. ASSUME NEW v \in Nat, Return(v), v = ValueAt(s, blockNumber)
      PROVE  SearchInv'
  BY <1>2 DEF Return, SearchInv, TypeOK, Interval, SearchIsCorrect
<1>3. CASE ReturnLatest
  <2>1. ValueAt(s, blockNumber) = s[Len(s)].value
    BY <1>1, <1>3, ValueOfLast DEF ReturnLatest, Latest
  <2> QED BY <1>1, <1>2, <1>3, <2>1 DEF ReturnLatest, Latest
<1>4. CASE ReturnZero
  BY <1>1, <1>2, <1>4, ValueBeforeFirst DEF ReturnZero
<1>5. CASE EnterLoop
  <2>1. lower = 1 /\ upper = Len(s)
    BY <1>5 DEF EnterLoop, SearchInv, Interval
  <2>2. Interval'
    BY <1>1, <1>5, <2>1 DEF EnterLoop, Interval
  <2> QED BY <1>5, <2>2 DEF EnterLoop, SearchInv, TypeOK, SearchIsCorrect
<1>6. ASSUME pc = "loop", upper > lower
      PROVE  center \in lower + 1 .. upper /\ center \in 1 .. Len(s)
  BY <1>1, <1>6 DEF center
<1>7. CASE FoundAtCenter
  <2>1. center \in 1 .. Len(s) /\ s[center].blockNumber = blockNumber
    BY <1>6, <1>7 DEF FoundAtCenter
  <2>2. \A j \in center + 1 .. Len(s) : s[j].blockNumber > blockNumber
    BY <1>1, <2>1 DEF Increasing
  <2>3. s[center].blockNumber <= blockNumber
    BY <1>1, <2>1
  <2>4. ValueAt(s, blockNumber) = s[center].value
    BY <1>1, <2>1, <2>2, <2>3, ValueOfLast
  <2> QED BY <1>1, <1>2, <1>7, <2>1, <2>4 DEF FoundAtCenter
<1>8. CASE GoRight
  <2>1. center \in lower + 1 .. upper /\ center \in 1 .. Len(s)
    BY <1>6, <1>8 DEF GoRight
  <2> QED BY <1>1, <1>8, <2>1 DEF GoRight, SearchInv, TypeOK, Interval, SearchIsCorrect
<1>9. CASE GoLeft
  <2>1. center \in lower + 1 .. upper /\ center \in 1 .. Len(s)
    BY <1>6, <1>9 DEF GoLeft
  <2>2. \A j \in center .. Len(s) : s[j].blockNumber > blockNumber
    BY <1>1, <1>9, <2>1 DEF GoLeft, Increasing
  <2>3. center - 1 \in 1 .. Len(s) /\ lower <= center - 1
    BY <1>1, <2>1
  <2> QED BY <1>1, <1>9, <2>1, <2>2, <2>3
          DEF GoLeft, SearchInv, TypeOK, Interval, SearchIsCorrect
<1>10. CASE ReturnLower
  <2>1. upper = lower /\ s[lower].blockNumber <= blockNumber
    BY <1>1, <1>10 DEF ReturnLower, SearchInv, Interval
  <2>2. ValueAt(s, blockNumber) = s[lower].value
    BY <1>1, <1>10, <2>1, ValueOfLast DEF ReturnLower, SearchInv, Interval
  <2> QED BY <1>1, <1>2, <1>10, <2>2 DEF ReturnLower
<1>11. CASE UNCHANGED vars
  BY <1>11 DEF vars, SearchInv, TypeOK, Interval, SearchIsCorrect
<1> QED BY <1>3, <1>4, <1>5, <1>7, <1>8, <1>9, <1>10, <1>11 DEF Next

(* Every index the search touches is that of a snapshot.                     *)
THEOREM SearchTyped == Spec => []TypeOK
<1>1. SearchInv => TypeOK
  BY DEF SearchInv
<1> QED BY <1>1, InitSearch, NextSearch, PTL DEF Spec

(* What the search returns is the value at the end of the block asked for.   *)
THEOREM SearchCorrect == Spec => []SearchIsCorrect
<1>1. SearchInv => SearchIsCorrect
  BY DEF SearchInv
<1> QED BY <1>1, InitSearch, NextSearch, PTL DEF Spec

(* Every probe that goes on leaves at most half of the interval, and less    *)
(* than it found: a search among n snapshots makes a number of probes        *)
(* logarithmic in n, SearchTerminates up to the fairness of its steps.       *)
IntervalHalves ==
    [][pc = "loop" /\ pc' = "loop" =>
         /\ 2 * (upper' - lower') <= upper - lower
         /\ upper' - lower' < upper - lower]_vars

(* IntervalHalves for histories of any length and every block.               *)
THEOREM SearchHalves == Spec => IntervalHalves
<1>1. SearchInv /\ [Next]_vars =>
        [pc = "loop" /\ pc' = "loop" =>
           /\ 2 * (upper' - lower') <= upper - lower
           /\ upper' - lower' < upper - lower]_vars
  <2> SUFFICES ASSUME SearchInv, Next, pc = "loop", pc' = "loop"
               PROVE  /\ 2 * (upper' - lower') <= upper - lower
                      /\ upper' - lower' < upper - lower
    OBVIOUS
  <2>1. lower \in Nat /\ upper \in Nat
    <3>1. Len(s) \in Nat
      BY HistoryFacts DEF SearchInv, TypeOK
    <3> QED BY <3>1 DEF SearchInv, TypeOK
  <2>2. CASE GoRight
    BY <2>1, <2>2 DEF GoRight, center
  <2>3. CASE GoLeft
    BY <2>1, <2>3 DEF GoLeft, center
  <2> QED BY <2>2, <2>3
          DEF Next, ReturnLatest, ReturnZero, EnterLoop, FoundAtCenter, ReturnLower, Return
<1> QED BY <1>1, InitSearch, NextSearch, PTL DEF Spec, IntervalHalves

=============================================================================
