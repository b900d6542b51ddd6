------------------------- MODULE GovernancePowerProofs -------------------------
(***************************************************************************)
(* Theorems about GovernancePower, for any users, types of power, amounts  *)
(* and number of blocks.                                                   *)
(***************************************************************************)
EXTENDS GovernancePower, WellFoundedInduction, Sums

-----------------------------------------------------------------------------
(* Histories *)

LEMMA HistoryFacts ==
    ASSUME NEW s \in Seq(Snapshot)
    PROVE  /\ Len(s) \in Nat
           /\ s # <<>> => Len(s) \in 1 .. Len(s)
           /\ \A i \in 1 .. Len(s) : /\ s[i] \in Snapshot
                                    /\ s[i].blockNumber \in Nat
                                    /\ s[i].value \in Nat
<1>1. Len(s) \in Nat /\ (s # <<>> => Len(s) >= 1)
  OBVIOUS
<1>2. \A i \in 1 .. Len(s) : s[i] \in Snapshot
  OBVIOUS
<1> QED BY <1>1, <1>2 DEF Snapshot

(* A nonempty set of positions has a last one.                               *)
LEMMA LargestIndex ==
    ASSUME NEW n \in Nat, NEW T \in SUBSET (1 .. n), T # {}
    PROVE  \E i \in T : \A j \in T : j <= i
<1> DEFINE R == OpToRel(<, Nat)
           D == {n - i : i \in T}
<1>1. D \subseteq Nat /\ D # {}
  <2>1. PICK i \in T : TRUE
    OBVIOUS
  <2>2. n - i \in D
    BY <2>1
  <2>3. \A k \in T : n - k \in Nat
    OBVIOUS
  <2> QED BY <2>2, <2>3
<1>2. IsWellFoundedOn(R, Nat)
  BY NatLessThanWellFounded
<1>3. \A x, y \in Nat : y < x => <<y, x>> \in R
  BY DEF OpToRel
<1> HIDE DEF R
<1>4. PICK x \in D : \A y \in D : ~(<<y, x>> \in R)
  BY <1>1, <1>2, WFMin
<1>5. PICK i \in T : x = n - i
  BY <1>4
<1>6. \A j \in T : ~(n - j < n - i)
  BY <1>1, <1>3, <1>4, <1>5
<1>7. \A j \in T : j <= i
  BY <1>6
<1> QED BY <1>7

LEMMA LastNoLater ==
    ASSUME NEW h \in Seq(Snapshot), NEW b, NoLater(h, b) # {}
    PROVE  (CHOOSE i \in NoLater(h, b) : \A j \in NoLater(h, b) : j <= i)
             \in NoLater(h, b)
<1>1. Len(h) \in Nat /\ NoLater(h, b) \in SUBSET (1 .. Len(h))
  BY DEF NoLater
<1>2. \E i \in NoLater(h, b) : \A j \in NoLater(h, b) : j <= i
  BY <1>1, LargestIndex
<1> QED BY <1>2

(* Histories with the same positions no later than a block, and the same     *)
(* values there, agree on that block.                                        *)
LEMMA SameValueAt ==
    ASSUME NEW g \in Seq(Snapshot), NEW h \in Seq(Snapshot), NEW b,
           NoLater(g, b) = NoLater(h, b),
           \A i \in NoLater(h, b) : g[i].value = h[i].value
    PROVE  ValueAt(g, b) = ValueAt(h, b)
<1>1. CASE NoLater(h, b) = {}
  BY <1>1 DEF ValueAt
<1>2. CASE NoLater(h, b) # {}
  BY <1>2, LastNoLater DEF ValueAt
<1> QED BY <1>1, <1>2

(* A write in the current block keeps the history in order and leaves every  *)
(* block before it alone.                                                    *)
LEMMA WriteKeepsHistory ==
    ASSUME NEW s \in Seq(Snapshot), Increasing(s), NEW block \in Nat, NEW v \in Nat,
           s # <<>> => Latest(s).blockNumber <= block
    PROVE  /\ WriteSnapshot(s, block, v) \in Seq(Snapshot)
           /\ WriteSnapshot(s, block, v) # <<>>
           /\ Increasing(WriteSnapshot(s, block, v))
           /\ Latest(WriteSnapshot(s, block, v)).blockNumber = block
           /\ \A b \in Nat : b < block =>
                ValueAt(WriteSnapshot(s, block, v), b) = ValueAt(s, b)
<1> DEFINE new == [blockNumber |-> block, value |-> v]
           w == WriteSnapshot(s, block, v)
<1>1. new \in Snapshot /\ new.blockNumber = block
  BY DEF Snapshot
<1> HIDE DEF new
<1>2. CASE s # <<>> /\ Latest(s).blockNumber = block
  <2>1. w = [s EXCEPT ![Len(s)] = new]
    BY <1>2 DEF WriteSnapshot, new
  <2>2. Len(s) \in Nat /\ Len(s) \in 1 .. Len(s)
    BY <1>2, HistoryFacts
  <2>3. w \in Seq(Snapshot) /\ Len(w) = Len(s) /\ w # <<>>
    BY <1>1, <1>2, <2>1, <2>2
  <2>4. /\ w[Len(s)] = new
        /\ \A i \in 1 .. Len(s) : i # Len(s) => w[i] = s[i]
    BY <2>1, <2>2
  <2> HIDE DEF w
  <2>5. \A i \in 1 .. Len(s) : w[i].blockNumber = s[i].blockNumber
    BY <1>1, <1>2, <2>4 DEF Latest
  <2>6. Increasing(w) /\ Latest(w).blockNumber = block
    BY <1>2, <2>2, <2>3, <2>5 DEF Increasing, Latest
  <2>7. ASSUME NEW b \in Nat, b < block
        PROVE  ValueAt(w, b) = ValueAt(s, b)
    <3>1. NoLater(w, b) = NoLater(s, b) /\ \A i \in NoLater(s, b) : i # Len(s)
      BY <1>2, <2>2, <2>3, <2>5, <2>7 DEF Latest, NoLater
    <3>2. \A i \in NoLater(s, b) : w[i].value = s[i].value
      BY <2>4, <3>1 DEF NoLater
    <3> QED BY <2>3, <3>1, <3>2, SameValueAt
  <2> QED BY <2>3, <2>6, <2>7 DEF w
<1>3. CASE ~(s # <<>> /\ Latest(s).blockNumber = block)
  <2>1. w = Append(s, new)
    BY <1>3 DEF WriteSnapshot, new
  <2>2. /\ w \in Seq(Snapshot) /\ Len(w) = Len(s) + 1 /\ Len(s) \in Nat
        /\ w[Len(s) + 1] = new
        /\ \A i \in 1 .. Len(s) : w[i] = s[i]
    BY <1>1, <2>1
  <2>3. \A i \in 1 .. Len(s) : s[i].blockNumber \in Nat /\ s[i].blockNumber < block
    <3>1. CASE s = <<>>
      BY <3>1
    <3>2. CASE s # <<>>
      <4>1. Latest(s).blockNumber \in Nat /\ Latest(s).blockNumber < block
        BY <1>3, <3>2, HistoryFacts DEF Latest
      <4>2. \A i \in 1 .. Len(s) : s[i].blockNumber <= Latest(s).blockNumber
        BY <3>2, HistoryFacts DEF Increasing, Latest
      <4> QED BY <4>1, <4>2, HistoryFacts
    <3> QED BY <3>1, <3>2
  <2> HIDE DEF w
  <2>4. Increasing(w)
    <3> SUFFICES ASSUME NEW i \in 1 .. Len(s) + 1, NEW j \in 1 .. Len(s) + 1, i < j
                 PROVE  w[i].blockNumber < w[j].blockNumber
      BY <2>2 DEF Increasing
    <3>1. i \in 1 .. Len(s) /\ w[i] = s[i]
      BY <2>2
    <3>2. CASE j = Len(s) + 1
      BY <1>1, <2>2, <2>3, <3>1, <3>2
    <3>3. CASE j # Len(s) + 1
      <4>1. j \in 1 .. Len(s) /\ w[j] = s[j]
        BY <2>2, <3>3
      <4> QED BY <3>1, <4>1 DEF Increasing
    <3> QED BY <3>2, <3>3
  <2>5. ASSUME NEW b \in Nat, b < block
        PROVE  ValueAt(w, b) = ValueAt(s, b)
    <3>1. NoLater(w, b) = NoLater(s, b)
      <4>1. Len(s) + 1 \notin NoLater(w, b)
        BY <1>1, <2>2, <2>5 DEF NoLater
      <4> QED BY <2>2, <4>1 DEF NoLater
    <3>2. \A i \in NoLater(s, b) : w[i].value = s[i].value
      BY <2>2 DEF NoLater
    <3> QED BY <2>2, <3>1, <3>2, SameValueAt
  <2>6. w # <<>> /\ Latest(w).blockNumber = block
    BY <1>1, <2>2 DEF Latest
  <2> QED BY <2>2, <2>4, <2>5, <2>6 DEF w
<1> QED BY <1>2, <1>3

-----------------------------------------------------------------------------
(* Types and order of the histories *)

Ordered == TypeOK /\ HistoriesOrdered

(* What a transaction may do to a history h: write the current block.        *)
KeepsHistory(h, g) ==
    /\ g \in Seq(Snapshot)
    /\ Increasing(g)
    /\ g # <<>> => Latest(g).blockNumber <= height
    /\ h # <<>> => g # <<>>
    /\ \A b \in Nat : b < height => ValueAt(g, b) = ValueAt(h, b)

LEMMA CurrentPowerNat ==
    ASSUME TypeOK, NEW t \in Types, NEW u \in Users
    PROVE  CurrentPower(t, u) \in Nat
<1>1. snapshots[t][u] \in Seq(Snapshot) /\ balance[u] \in Nat
  BY DEF TypeOK
<1> QED BY <1>1, HistoryFacts DEF CurrentPower, Latest

LEMMA DelegateeOfUser ==
    ASSUME TypeOK, NEW t \in Types, NEW u \in Users
    PROVE  GetDelegatee(t, u) \in Users
BY GovernanceAssumption DEF TypeOK, GetDelegatee

(* Moving power writes to the histories of the two delegatees, if they are   *)
(* two, and leaves the other histories alone.                                *)
LEMMA MovedPowerKeeps ==
    ASSUME Ordered, NEW t \in Types, NEW from \in Users \cup {NoOne},
           NEW to \in Users \cup {NoOne}, NEW amount \in Nat,
           CanMovePower(t, from, to, amount)
    PROVE  /\ MovedPower(t, from, to, amount) \in [Users -> Seq(Snapshot)]
           /\ \A u \in Users :
                /\ KeepsHistory(snapshots[t][u], MovedPower(t, from, to, amount)[u])
                /\ from # to /\ u \in {from, to} =>
                     MovedPower(t, from, to, amount)[u] # <<>>
<1> DEFINE M == MovedPower(t, from, to, amount)
<1>1. height \in Nat /\ snapshots[t] \in [Users -> Seq(Snapshot)]
  BY DEF Ordered, TypeOK
<1>2. \A u \in Users : /\ Increasing(snapshots[t][u])
                       /\ snapshots[t][u] # <<>> =>
                            Latest(snapshots[t][u]).blockNumber <= height
  BY DEF Ordered, HistoriesOrdered
<1>3. CASE from = to
  <2>1. M = snapshots[t]
    BY <1>3 DEF MovedPower
  <2> QED BY <1>1, <1>2, <1>3, <2>1 DEF KeepsHistory
<1>4. CASE from # to
  <2>1. ASSUME NEW u \in Users
        PROVE  /\ KeepsHistory(snapshots[t][u], M[u])
               /\ u \in {from, to} => M[u] # <<>>
    <3>1. CurrentPower(t, u) \in Nat
      BY CurrentPowerNat DEF Ordered
    <3>2. ASSUME NEW v \in Nat, M[u] = WriteSnapshot(snapshots[t][u], height, v)
          PROVE  KeepsHistory(snapshots[t][u], M[u]) /\ M[u] # <<>>
      <4> DEFINE s == snapshots[t][u]
      <4>1. /\ s \in Seq(Snapshot) /\ Increasing(s)
            /\ s # <<>> => Latest(s).blockNumber <= height
        BY <1>1, <1>2
      <4> HIDE DEF s
      <4>2. /\ WriteSnapshot(s, height, v) \in Seq(Snapshot)
            /\ WriteSnapshot(s, height, v) # <<>>
            /\ Increasing(WriteSnapshot(s, height, v))
            /\ Latest(WriteSnapshot(s, height, v)).blockNumber = height
            /\ \A b \in Nat : b < height =>
                 ValueAt(WriteSnapshot(s, height, v), b) = ValueAt(s, b)
        BY <1>1, <4>1, WriteKeepsHistory
      <4> QED BY <1>1, <3>2, <4>2 DEF KeepsHistory, s
    <3>3. CASE u = from
      <4>1. amount <= CurrentPower(t, u)
        BY <1>4, <3>3, GovernanceAssumption DEF CanMovePower
      <4>2. CurrentPower(t, u) - amount \in Nat
        BY <3>1, <4>1
      <4>3. M[u] = WriteSnapshot(snapshots[t][u], height, CurrentPower(t, u) - amount)
        BY <1>4, <3>3 DEF MovedPower
      <4> QED BY <3>2, <4>2, <4>3
    <3>4. CASE u # from /\ u = to
      <4>1. CurrentPower(t, u) + amount \in Nat
        BY <3>1
      <4>2. M[u] = WriteSnapshot(snapshots[t][u], height, CurrentPower(t, u) + amount)
        BY <1>4, <3>4 DEF MovedPower
      <4> QED BY <3>2, <4>1, <4>2
    <3>5. CASE u # from /\ u # to
      <4>1. M[u] = snapshots[t][u]
        BY <1>4, <3>5 DEF MovedPower
      <4> QED BY <1>1, <1>2, <3>5, <4>1 DEF KeepsHistory
    <3> QED BY <3>3, <3>4, <3>5
  <2>2. M \in [Users -> Seq(Snapshot)]
    <3>1. M = [u \in Users |-> M[u]]
      BY <1>4 DEF MovedPower
    <3>2. \A u \in Users : M[u] \in Seq(Snapshot)
      BY <2>1 DEF KeepsHistory
    <3> QED BY <3>1, <3>2
  <2> QED BY <2>1, <2>2
<1> QED BY <1>3, <1>4

(* The hook of a mint, a burn or a transfer.                                 *)
LEMMA HookKeeps ==
    ASSUME Ordered, NEW from \in Users \cup {NoOne}, NEW to \in Users \cup {NoOne},
           NEW amount \in Nat, BeforeTokenTransfer(from, to, amount)
    PROVE  /\ snapshots' \in [Types -> [Users -> Seq(Snapshot)]]
           /\ \A t \in Types, u \in Users :
                /\ KeepsHistory(snapshots[t][u], snapshots'[t][u])
                /\ GetDelegatee(t, from) # GetDelegatee(t, to)
                     /\ u \in {GetDelegatee(t, from), GetDelegatee(t, to)} =>
                       snapshots'[t][u] # <<>>
<1>1. \A t \in Types : /\ GetDelegatee(t, from) \in Users \cup {NoOne}
                        /\ GetDelegatee(t, to) \in Users \cup {NoOne}
  BY DelegateeOfUser DEF Ordered, GetDelegatee
<1>2. \A t \in Types :
        /\ CanMovePower(t, GetDelegatee(t, from), GetDelegatee(t, to), amount)
        /\ snapshots'[t] = MovedPower(t, GetDelegatee(t, from), GetDelegatee(t, to), amount)
  BY DEF BeforeTokenTransfer
<1>3. snapshots' = [t \in Types |-> snapshots'[t]]
  BY DEF BeforeTokenTransfer
<1>4. ASSUME NEW t \in Types
      PROVE  /\ snapshots'[t] \in [Users -> Seq(Snapshot)]
             /\ \A u \in Users :
                  /\ KeepsHistory(snapshots[t][u], snapshots'[t][u])
                  /\ GetDelegatee(t, from) # GetDelegatee(t, to)
                       /\ u \in {GetDelegatee(t, from), GetDelegatee(t, to)} =>
                         snapshots'[t][u] # <<>>
  BY <1>1, <1>2, MovedPowerKeeps
<1> QED BY <1>3, <1>4

(* A delegation: its histories, and the delegatees it leaves.                *)
LEMMA DelegationKeeps ==
    ASSUME Ordered, NEW v \in Users, NEW to \in Users, NEW types \in SUBSET Types,
           Delegate(v, to, types)
    PROVE  /\ TypeOK'
           /\ \A t \in Types, u \in Users :
                /\ KeepsHistory(snapshots[t][u], snapshots'[t][u])
                /\ t \in types /\ GetDelegatee(t, v) # to
                     /\ u \in {GetDelegatee(t, v), to} => snapshots'[t][u] # <<>>
<1>1. balance[v] \in Nat /\ height \in Nat /\ UNCHANGED <<height, balance, totalSupply>>
  BY DEF Ordered, TypeOK, Delegate
<1>2. delegates' \in [Types -> [Users -> Users \cup {NoOne}]]
  BY DEF Ordered, TypeOK, Delegate
<1>3. snapshots' = [t \in Types |-> snapshots'[t]]
  BY DEF Delegate
<1>4. ASSUME NEW t \in Types
      PROVE  /\ snapshots'[t] \in [Users -> Seq(Snapshot)]
             /\ \A u \in Users :
                  /\ KeepsHistory(snapshots[t][u], snapshots'[t][u])
                  /\ t \in types /\ GetDelegatee(t, v) # to
                       /\ u \in {GetDelegatee(t, v), to} => snapshots'[t][u] # <<>>
  <2>1. CASE t \in types
    <3>1. GetDelegatee(t, v) \in Users
      BY DelegateeOfUser DEF Ordered
    <3>2. /\ CanMovePower(t, GetDelegatee(t, v), to, balance[v])
          /\ snapshots'[t] = MovedPower(t, GetDelegatee(t, v), to, balance[v])
      BY <2>1 DEF Delegate
    <3> QED BY <1>1, <3>1, <3>2, MovedPowerKeeps
  <2>2. CASE t \notin types
    <3>1. snapshots'[t] = snapshots[t]
      BY <2>2 DEF Delegate
    <3>2. snapshots[t] \in [Users -> Seq(Snapshot)]
      BY DEF Ordered, TypeOK
    <3> QED BY <2>2, <3>1, <3>2
            DEF Ordered, HistoriesOrdered, KeepsHistory
  <2> QED BY <2>1, <2>2
<1> QED BY <1>1, <1>2, <1>3, <1>4 DEF Ordered, TypeOK

(* Every step keeps the types, and every block that is over.                 *)
LEMMA StepKeeps ==
    ASSUME Ordered, [Next]_vars
    PROVE  /\ TypeOK'
           /\ height' \in Nat /\ height <= height'
           /\ \A t \in Types, u \in Users :
                KeepsHistory(snapshots[t][u], snapshots'[t][u])
<1> USE DEF Ordered
<1>0. \A n \in Amounts : n \in Nat
  BY GovernanceAssumption
<1>1. ASSUME NEW u \in Users, NEW n \in Amounts, Mint(u, n)
      PROVE  /\ TypeOK' /\ height' = height
             /\ \A t \in Types, w \in Users :
                  KeepsHistory(snapshots[t][w], snapshots'[t][w])
  <2>1. BeforeTokenTransfer(NoOne, u, n)
    BY <1>1 DEF Mint
  <2>2. /\ snapshots' \in [Types -> [Users -> Seq(Snapshot)]]
        /\ \A t \in Types, w \in Users :
             KeepsHistory(snapshots[t][w], snapshots'[t][w])
    BY <1>0, <2>1, HookKeeps
  <2>3. /\ balance' \in [Users -> Nat] /\ totalSupply' \in Nat
        /\ UNCHANGED <<height, delegates>>
    BY <1>0, <1>1 DEF Mint, TypeOK
  <2> QED BY <2>2, <2>3 DEF TypeOK
<1>2. ASSUME NEW u \in Users, NEW n \in Amounts, Burn(u, n)
      PROVE  /\ TypeOK' /\ height' = height
             /\ \A t \in Types, w \in Users :
                  KeepsHistory(snapshots[t][w], snapshots'[t][w])
  <2>1. BeforeTokenTransfer(u, NoOne, n)
    BY <1>2 DEF Burn
  <2>2. /\ snapshots' \in [Types -> [Users -> Seq(Snapshot)]]
        /\ \A t \in Types, w \in Users :
             KeepsHistory(snapshots[t][w], snapshots'[t][w])
    BY <1>0, <2>1, HookKeeps
  <2>3. balance[u] - n \in Nat /\ totalSupply - n \in Nat
    BY <1>0, <1>2 DEF Burn, TypeOK
  <2>4. /\ balance' \in [Users -> Nat] /\ totalSupply' \in Nat
        /\ UNCHANGED <<height, delegates>>
    BY <1>2, <2>3 DEF Burn, TypeOK
  <2> QED BY <2>2, <2>4 DEF TypeOK
<1>3. ASSUME NEW u \in Users, NEW v \in Users, NEW n \in Amounts, Transfer(u, v, n)
      PROVE  /\ TypeOK' /\ height' = height
             /\ \A t \in Types, w \in Users :
                  KeepsHistory(snapshots[t][w], snapshots'[t][w])
  <2>1. BeforeTokenTransfer(u, v, n)
    BY <1>3 DEF Transfer
  <2>2. /\ snapshots' \in [Types -> [Users -> Seq(Snapshot)]]
        /\ \A t \in Types, w \in Users :
             KeepsHistory(snapshots[t][w], snapshots'[t][w])
    BY <1>0, <2>1, HookKeeps
  <2>3. balance[u] - n \in Nat /\ balance \in [Users -> Nat]
    BY <1>0, <1>3 DEF Transfer, TypeOK
  <2>4. [balance EXCEPT ![u] = @ - n] \in [Users -> Nat]
    BY <2>3
  <2>5. balance' \in [Users -> Nat] /\ UNCHANGED <<height, totalSupply, delegates>>
    BY <1>0, <1>3, <2>4 DEF Transfer
  <2> QED BY <2>2, <2>5 DEF TypeOK
<1>4. ASSUME NEW u \in Users, NEW v \in Users, NEW T \in SUBSET Types, Delegate(u, v, T)
      PROVE  /\ TypeOK' /\ height' = height
             /\ \A t \in Types, w \in Users :
                  KeepsHistory(snapshots[t][w], snapshots'[t][w])
  BY <1>4, DelegationKeeps DEF Delegate
<1>5. CASE NextBlock \/ UNCHANGED vars
  <2>1. /\ TypeOK' /\ height' \in Nat /\ height <= height'
        /\ UNCHANGED <<balance, totalSupply, delegates, snapshots>>
    BY <1>5 DEF NextBlock, vars, TypeOK
  <2> QED BY <2>1 DEF TypeOK, HistoriesOrdered, KeepsHistory
<1>6. height \in Nat
  BY DEF TypeOK
<1>7. CASE \/ \E u \in Users, n \in Amounts : Mint(u, n) \/ Burn(u, n)
           \/ \E u, v \in Users, n \in Amounts : Transfer(u, v, n)
           \/ \E u, v \in Users, T \in SUBSET Types : Delegate(u, v, T)
  <2>1. /\ TypeOK' /\ height' = height
        /\ \A t \in Types, w \in Users :
             KeepsHistory(snapshots[t][w], snapshots'[t][w])
    BY <1>1, <1>2, <1>3, <1>4, <1>7
  <2> QED BY <1>6, <2>1
<1>8. \A t \in Types : {t} \in SUBSET Types
  OBVIOUS
<1> QED BY <1>5, <1>7, <1>8 DEF Next

LEMMA OrderedInit == Init => Ordered
<1> SUFFICES ASSUME Init PROVE Ordered
  OBVIOUS
<1> USE GovernanceAssumption
<1> DEFINE first == [blockNumber |-> 1, value |-> InitialStake]
<1>1. first \in Snapshot /\ <<first>> \in Seq(Snapshot)
  BY DEF Snapshot
<1>2. \A t \in Types, u \in Users : snapshots[t][u] \in {<<>>, <<first>>}
  BY DEF Init
<1>3. totalSupply \in Nat
  BY FS_CardinalityType DEF Init
<1>4. snapshots \in [Types -> [Users -> Seq(Snapshot)]]
  BY <1>1 DEF Init
<1>5. TypeOK
  BY <1>3, <1>4 DEF Init, TypeOK
<1>6. HistoriesOrdered
  <2> SUFFICES ASSUME NEW t \in Types, NEW u \in Users
               PROVE  /\ Increasing(snapshots[t][u])
                      /\ snapshots[t][u] # <<>> =>
                           Latest(snapshots[t][u]).blockNumber <= height
    BY DEF HistoriesOrdered
  <2>1. CASE snapshots[t][u] = <<>>
    BY <2>1 DEF Increasing
  <2>2. CASE snapshots[t][u] = <<first>>
    BY <2>2 DEF Increasing, Latest, Init
  <2> QED BY <1>2, <2>1, <2>2
<1> QED BY <1>5, <1>6 DEF Ordered

LEMMA OrderedStep == Ordered /\ [Next]_vars => Ordered'
<1> SUFFICES ASSUME Ordered, [Next]_vars PROVE Ordered'
  OBVIOUS
<1>1. /\ TypeOK' /\ height \in Nat /\ height' \in Nat /\ height <= height'
      /\ \A t \in Types, u \in Users :
           KeepsHistory(snapshots[t][u], snapshots'[t][u])
  BY StepKeeps DEF Ordered, TypeOK
<1>2. ASSUME NEW t \in Types, NEW u \in Users
      PROVE  /\ Increasing(snapshots'[t][u])
             /\ snapshots'[t][u] # <<>> =>
                  Latest(snapshots'[t][u]).blockNumber <= height'
  <2>1. KeepsHistory(snapshots[t][u], snapshots'[t][u])
    BY <1>1
  <2>2. snapshots'[t][u] # <<>> =>
          /\ Latest(snapshots'[t][u]).blockNumber \in Nat
          /\ Latest(snapshots'[t][u]).blockNumber <= height
    BY <2>1, HistoryFacts DEF KeepsHistory, Latest
  <2> QED BY <1>1, <2>1, <2>2 DEF KeepsHistory
<1> QED BY <1>1, <1>2 DEF Ordered, HistoriesOrdered

(* No step leaves the types: power, like balances, never goes below zero.    *)
THEOREM TypeCorrect == Spec => []TypeOK
<1> QED BY OrderedInit, OrderedStep, PTL DEF Spec, Ordered

(* HistoriesOrdered, on which the code's binary search relies, however many  *)
(* transactions of a block write to a history.                               *)
THEOREM HistoriesStayOrdered == Spec => []HistoriesOrdered
<1> QED BY OrderedInit, OrderedStep, PTL DEF Spec, Ordered

-----------------------------------------------------------------------------
(* Who has a history                                                         *)

LEMMA PartiesFacts ==
    ASSUME Ordered
    PROVE  /\ \A n \in Amounts : n \in Nat
           /\ \A t \in Types, u \in Users : GetDelegatee(t, u) \in Users
           /\ \A t \in Types : GetDelegatee(t, NoOne) = NoOne
           /\ NoOne \notin Users
  BY GovernanceAssumption, DelegateeOfUser DEF Ordered, GetDelegatee

(* Whoever delegated, and whoever he chose, has a history: a balance is read *)
(* as power only where it is the power of its holder alone.                  *)
Entrusted ==
    \A t \in Types, u \in Users : GetDelegatee(t, u) # u =>
        snapshots[t][u] # <<>> /\ snapshots[t][GetDelegatee(t, u)] # <<>>

LEMMA EntrustedInit == Init => Entrusted
BY GovernanceAssumption DEF Init, Entrusted, GetDelegatee

(* Whom a delegation leaves as delegatees.                                   *)
LEMMA DelegateesAfter ==
    ASSUME Ordered, NEW v \in Users, NEW to \in Users, NEW T \in SUBSET Types,
           Delegate(v, to, T)
    PROVE  \A t \in Types, u \in Users :
             GetDelegatee(t, u)' = IF t \in T /\ u = v THEN to ELSE GetDelegatee(t, u)
  BY PartiesFacts DEF Delegate, GetDelegatee, Ordered, TypeOK

LEMMA EntrustedStep == Ordered /\ Entrusted /\ [Next]_vars => Entrusted'
<1> SUFFICES ASSUME Ordered, Entrusted, [Next]_vars PROVE Entrusted'
  OBVIOUS
<1>1. \A t \in Types, u \in Users : snapshots[t][u] # <<>> => snapshots'[t][u] # <<>>
  BY StepKeeps DEF KeepsHistory
<1>2. ASSUME UNCHANGED delegates
      PROVE  Entrusted'
  <2>1. \A t \in Types, u \in Users : GetDelegatee(t, u)' = GetDelegatee(t, u)
    BY <1>2 DEF GetDelegatee
  <2> QED BY <1>1, <2>1, PartiesFacts DEF Entrusted
<1>3. ASSUME NEW v \in Users, NEW to \in Users, NEW T \in SUBSET Types, Delegate(v, to, T)
      PROVE  Entrusted'
  <2>1. \A t \in T : GetDelegatee(t, v) # to =>
          snapshots'[t][GetDelegatee(t, v)] # <<>> /\ snapshots'[t][to] # <<>>
    BY <1>3, PartiesFacts, DelegationKeeps
  <2>2. \A t \in T : to # v => snapshots'[t][v] # <<>> /\ snapshots'[t][to] # <<>>
    BY <1>1, <2>1, PartiesFacts DEF Entrusted
  <2> SUFFICES ASSUME NEW t \in Types, NEW u \in Users, GetDelegatee(t, u)' # u
               PROVE  snapshots'[t][u] # <<>> /\ snapshots'[t][GetDelegatee(t, u)'] # <<>>
    BY DEF Entrusted
  <2>3. CASE t \in T /\ u = v
    BY <1>3, <2>2, <2>3, DelegateesAfter
  <2>4. CASE ~(t \in T /\ u = v)
    <3>1. GetDelegatee(t, u)' = GetDelegatee(t, u)
      BY <1>3, <2>4, DelegateesAfter
    <3> QED BY <1>1, <3>1, PartiesFacts DEF Entrusted
  <2> QED BY <2>3, <2>4
<1>4. \A t \in Types : {t} \in SUBSET Types
  OBVIOUS
<1> QED BY <1>2, <1>3, <1>4 DEF Next, Mint, Burn, Transfer, NextBlock, vars

-----------------------------------------------------------------------------
(* Power and the balances behind it                                          *)

Delegators(t, u) == {v \in Users : GetDelegatee(t, v) = u}

LEMMA DelegatorsFinite ==
    ASSUME NEW t \in Types, NEW u
    PROVE  IsFiniteSet(Delegators(t, u)) /\ Delegators(t, u) \subseteq Users
  BY GovernanceAssumption, FS_Subset DEF Delegators

LEMMA WrittenValue ==
    ASSUME NEW s \in Seq(Snapshot), NEW block \in Nat, NEW v \in Nat
    PROVE  /\ WriteSnapshot(s, block, v) # <<>>
           /\ Latest(WriteSnapshot(s, block, v)).value = v
<1> DEFINE new == [blockNumber |-> block, value |-> v]
<1>1. new \in Snapshot /\ new.value = v
  BY DEF Snapshot
<1> HIDE DEF new
<1>2. CASE s # <<>> /\ Latest(s).blockNumber = block
  <2> DEFINE w == [s EXCEPT ![Len(s)] = new]
  <2>1. WriteSnapshot(s, block, v) = w
    BY <1>2 DEF WriteSnapshot, new
  <2>2. Len(s) \in Nat /\ Len(s) \in 1 .. Len(s)
    BY <1>2, HistoryFacts
  <2>3. Len(w) = Len(s) /\ w # <<>> /\ w[Len(s)] = new
    BY <1>1, <1>2, <2>2
  <2> HIDE DEF w
  <2> QED BY <1>1, <2>1, <2>3 DEF Latest
<1>3. CASE ~(s # <<>> /\ Latest(s).blockNumber = block)
  <2> DEFINE w == Append(s, new)
  <2>1. WriteSnapshot(s, block, v) = w
    BY <1>3 DEF WriteSnapshot, new
  <2>2. Len(w) = Len(s) + 1 /\ w[Len(s) + 1] = new /\ w # <<>>
    BY <1>1
  <2> HIDE DEF w
  <2> QED BY <1>1, <2>1, <2>2 DEF Latest
<1> QED BY <1>2, <1>3

(* Moving power between two delegatees takes the amount from the one and     *)
(* gives it to the other; a balance that changes belongs to one of them or   *)
(* to a user with a history, so the power of nobody else changes.            *)
LEMMA MovedPowerValue ==
    ASSUME Ordered, NEW t \in Types, NEW from \in Users \cup {NoOne},
           NEW to \in Users \cup {NoOne}, from # to, NEW amount \in Nat,
           CanMovePower(t, from, to, amount),
           snapshots'[t] = MovedPower(t, from, to, amount), NEW w \in Users,
           snapshots[t][w] = <<>> => w \in {from, to} \/ balance'[w] = balance[w]
    PROVE  /\ w = from => CurrentPower(t, w)' = CurrentPower(t, w) - amount
           /\ w = to => CurrentPower(t, w)' = CurrentPower(t, w) + amount
           /\ w \notin {from, to} => CurrentPower(t, w)' = CurrentPower(t, w)
<1>1. /\ snapshots[t][w] \in Seq(Snapshot) /\ height \in Nat
      /\ CurrentPower(t, w) \in Nat
  BY CurrentPowerNat DEF Ordered, TypeOK
<1>2. ASSUME NEW v \in Nat, snapshots'[t][w] = WriteSnapshot(snapshots[t][w], height, v)
      PROVE  CurrentPower(t, w)' = v
  <2>1. snapshots'[t][w] # <<>> /\ Latest(snapshots'[t][w]).value = v
    BY <1>1, <1>2, WrittenValue
  <2> QED BY <2>1 DEF CurrentPower
<1>3. CASE w = from
  <2>1. snapshots'[t][w] = WriteSnapshot(snapshots[t][w], height, CurrentPower(t, w) - amount)
    BY <1>3 DEF MovedPower
  <2>2. CurrentPower(t, w) - amount \in Nat
    BY <1>1, <1>3, GovernanceAssumption DEF CanMovePower
  <2> QED BY <1>2, <1>3, <2>1, <2>2
<1>4. CASE w = to
  <2>1. snapshots'[t][w] = WriteSnapshot(snapshots[t][w], height, CurrentPower(t, w) + amount)
    BY <1>4 DEF MovedPower
  <2>2. CurrentPower(t, w) + amount \in Nat
    BY <1>1
  <2> QED BY <1>2, <1>4, <2>1, <2>2
<1>5. CASE w \notin {from, to}
  <2>1. snapshots'[t][w] = snapshots[t][w]
    BY <1>5 DEF MovedPower
  <2> QED BY <1>5, <2>1 DEF CurrentPower
<1> QED BY <1>3, <1>4, <1>5

PInv == Ordered /\ Entrusted /\ PowerIsDelegated

LEMMA PowerInit == Init => PowerIsDelegated
<1> SUFFICES ASSUME Init PROVE PowerIsDelegated
  OBVIOUS
<1> SUFFICES ASSUME NEW t \in Types, NEW u \in Users
             PROVE  CurrentPower(t, u) = SumFunctionOnSet(balance, Delegators(t, u))
  BY DEF PowerIsDelegated, Delegators
<1>1. \A v \in Users : balance[v] = InitialStake /\ balance[v] \in Int
  BY GovernanceAssumption DEF Init
<1>2. CurrentPower(t, u) = InitialStake
  <2>1. CASE snapshots[t][u] = <<>>
    BY <1>1, <2>1 DEF CurrentPower
  <2>2. CASE snapshots[t][u] # <<>>
    <3>1. snapshots[t][u] = <<[blockNumber |-> 1, value |-> InitialStake]>>
      BY <2>2 DEF Init
    <3>2. Latest(snapshots[t][u]).value = InitialStake
      BY <3>1 DEF Latest
    <3> QED BY <2>2, <3>2 DEF CurrentPower
  <2> QED BY <2>1, <2>2
<1>3. Delegators(t, u) = {u}
  BY DEF Init, Delegators, GetDelegatee
<1>4. SumFunctionOnSet(balance, {u}) = balance[u] + SumFunctionOnSet(balance, {u} \ {u})
  BY <1>1, FS_Singleton, SumRemove
<1>5. SumFunctionOnSet(balance, {u} \ {u}) = 0
  <2>1. {u} \ {u} = {}
    OBVIOUS
  <2> QED BY <2>1, SumEmpty
<1> QED BY <1>1, <1>2, <1>3, <1>4, <1>5

(* What backs a delegatee once one balance is another.                       *)
LEMMA BackingChange ==
    ASSUME NEW f \in [Users -> Int], NEW g \in [Users -> Int], NEW x \in Users,
           \A v \in Users \ {x} : g[v] = f[v], NEW t \in Types, NEW w \in Users
    PROVE  /\ SumFunctionOnSet(f, Delegators(t, w)) \in Int
           /\ SumFunctionOnSet(g, Delegators(t, w)) =
                SumFunctionOnSet(f, Delegators(t, w))
                  + IF w = GetDelegatee(t, x) THEN g[x] - f[x] ELSE 0
<1> DEFINE D == Delegators(t, w)
<1>1. IsFiniteSet(D) /\ D \subseteq Users /\ (x \in D <=> w = GetDelegatee(t, x))
  BY DelegatorsFinite DEF Delegators
<1> HIDE DEF D
<1>2. \A v \in D : f[v] \in Int /\ g[v] \in Int
  BY <1>1
<1>3. SumFunctionOnSet(f, D) \in Int /\ f[x] \in Int /\ g[x] \in Int
  BY <1>1, <1>2, SumInt
<1>4. CASE x \in D
  <2>1. \A v \in D \ {x} : g[v] = f[v]
    BY <1>1
  <2>2. SumFunctionOnSet(g, D) = SumFunctionOnSet(f, D) - f[x] + g[x]
    BY <1>1, <1>2, <1>4, <2>1, SumChange
  <2> QED BY <1>1, <1>3, <1>4, <2>2 DEF D
<1>5. CASE x \notin D
  <2>1. \A v \in D : g[v] = f[v]
    BY <1>1, <1>5
  <2>2. SumFunctionOnSet(g, D) = SumFunctionOnSet(f, D)
    BY <1>1, <2>1, SumSame
  <2> QED BY <1>1, <1>3, <1>5, <2>2 DEF D
<1> QED BY <1>4, <1>5

(* The hook keeps power and balances together when n moves between two       *)
(* users, or between a user and nobody in a mint or a burn.                  *)
LEMMA HookKeepsPower ==
    ASSUME PInv, NEW from \in Users \cup {NoOne}, NEW to \in Users \cup {NoOne},
           from # to, NEW n \in Nat, BeforeTokenTransfer(from, to, n),
           UNCHANGED delegates, balance' \in [Users -> Nat],
           \A w \in Users : balance'[w] = (balance[w] - (IF w = from THEN n ELSE 0))
                                             + (IF w = to THEN n ELSE 0)
    PROVE  PowerIsDelegated'
<1> SUFFICES ASSUME NEW t \in Types, NEW w \in Users
             PROVE  CurrentPower(t, w)' = SumFunctionOnSet(balance', Delegators(t, w))
  <2>1. \A t \in Types, w \in Users : Delegators(t, w) = {v \in Users : GetDelegatee(t, v)' = w}
    BY DEF Delegators, GetDelegatee
  <2> QED BY <2>1 DEF PowerIsDelegated
<1> DEFINE df == GetDelegatee(t, from)
           dt == GetDelegatee(t, to)
           mid == [v \in Users |-> balance[v] - (IF v = from THEN n ELSE 0)]
<1>1. /\ Ordered /\ Entrusted /\ balance \in [Users -> Nat]
      /\ CurrentPower(t, w) = SumFunctionOnSet(balance, Delegators(t, w))
  BY DEF PInv, Ordered, TypeOK, PowerIsDelegated, Delegators
<1>2. /\ df \in Users \cup {NoOne} /\ dt \in Users \cup {NoOne} /\ NoOne \notin Users
      /\ from = NoOne => df = NoOne
      /\ to = NoOne => dt = NoOne
      /\ from \in Users => df \in Users
      /\ to \in Users => dt \in Users
  BY <1>1, PartiesFacts
<1>3. CurrentPower(t, w) \in Nat
  BY <1>1, CurrentPowerNat DEF Ordered
<1>4. /\ CanMovePower(t, df, dt, n)
      /\ snapshots'[t] = MovedPower(t, df, dt, n)
  BY DEF BeforeTokenTransfer
<1> HIDE DEF df, dt
<1>5. SumFunctionOnSet(balance', Delegators(t, w)) =
        (CurrentPower(t, w) - (IF w = df THEN n ELSE 0)) + (IF w = dt THEN n ELSE 0)
  <2>1. mid \in [Users -> Int] /\ balance \in [Users -> Int] /\ balance' \in [Users -> Int]
    BY <1>1
  <2>2. /\ \A v \in Users : v # from => mid[v] = balance[v]
        /\ \A v \in Users : v # to => balance'[v] = mid[v]
        /\ from \in Users => mid[from] - balance[from] = 0 - n
        /\ to \in Users => balance'[to] - mid[to] = n
    BY <1>1
  <2> HIDE DEF mid
  <2>3. SumFunctionOnSet(mid, Delegators(t, w)) = CurrentPower(t, w) - (IF w = df THEN n ELSE 0)
    <3>1. CASE from \in Users
      <4>1. SumFunctionOnSet(mid, Delegators(t, w)) =
              CurrentPower(t, w) + IF w = df THEN mid[from] - balance[from] ELSE 0
        BY <1>1, <2>1, <2>2, <3>1, BackingChange DEF df
      <4> QED BY <1>3, <2>2, <3>1, <4>1
    <3>2. CASE from \notin Users
      <4>1. \A v \in Delegators(t, w) : mid[v] = balance[v]
        BY <2>2, <3>2, DelegatorsFinite
      <4>2. SumFunctionOnSet(mid, Delegators(t, w)) = CurrentPower(t, w)
        BY <1>1, <4>1, DelegatorsFinite, SumSame
      <4> QED BY <1>2, <1>3, <3>2, <4>2
    <3> QED BY <3>1, <3>2
  <2>4. SumFunctionOnSet(balance', Delegators(t, w)) =
          SumFunctionOnSet(mid, Delegators(t, w)) + (IF w = dt THEN n ELSE 0)
    <3>1. CASE to \in Users
      <4>1. \A v \in Users \ {to} : balance'[v] = mid[v]
        BY <2>2
      <4>2. /\ SumFunctionOnSet(mid, Delegators(t, w)) \in Int
            /\ SumFunctionOnSet(balance', Delegators(t, w)) =
                 SumFunctionOnSet(mid, Delegators(t, w))
                   + IF w = GetDelegatee(t, to) THEN balance'[to] - mid[to] ELSE 0
        <5> DEFINE after == balance'
        <5>1. after \in [Users -> Int] /\ \A v \in Users \ {to} : after[v] = mid[v]
          BY <2>1, <4>1
        <5> HIDE DEF after
        <5>2. /\ SumFunctionOnSet(mid, Delegators(t, w)) \in Int
              /\ SumFunctionOnSet(after, Delegators(t, w)) =
                   SumFunctionOnSet(mid, Delegators(t, w))
                     + IF w = GetDelegatee(t, to) THEN after[to] - mid[to] ELSE 0
          BY <2>1, <3>1, <5>1, BackingChange
        <5> QED BY <5>2 DEF after
      <4> QED BY <2>2, <3>1, <4>2 DEF dt
    <3>2. CASE to \notin Users
      <4>1. \A v \in Delegators(t, w) : balance'[v] = mid[v]
        BY <2>2, <3>2, DelegatorsFinite
      <4>2. SumFunctionOnSet(balance', Delegators(t, w)) = SumFunctionOnSet(mid, Delegators(t, w))
        BY <4>1, DelegatorsFinite, SumSame
      <4>3. SumFunctionOnSet(mid, Delegators(t, w)) \in Int
        BY <1>3, <2>3
      <4> QED BY <1>2, <3>2, <4>2, <4>3
    <3> QED BY <3>1, <3>2
  <2> QED BY <2>3, <2>4
<1>6. \A v \in Users : v \notin {from, to} => balance'[v] = balance[v]
  BY <1>1
<1>7. /\ from \in Users /\ df # from => snapshots[t][from] # <<>> /\ snapshots[t][df] # <<>>
      /\ to \in Users /\ dt # to => snapshots[t][to] # <<>> /\ snapshots[t][dt] # <<>>
  BY <1>1 DEF Entrusted, df, dt
<1>8. CASE df # dt
  <2>1. snapshots[t][w] = <<>> => w \in {df, dt} \/ balance'[w] = balance[w]
    BY <1>6, <1>7
  <2>2. /\ w = df => CurrentPower(t, w)' = CurrentPower(t, w) - n
        /\ w = dt => CurrentPower(t, w)' = CurrentPower(t, w) + n
        /\ w \notin {df, dt} => CurrentPower(t, w)' = CurrentPower(t, w)
    BY <1>1, <1>2, <1>4, <1>8, <2>1, MovedPowerValue
  <2> QED BY <1>3, <1>5, <1>8, <2>2
<1>9. CASE df = dt
  <2>1. snapshots'[t] = snapshots[t]
    BY <1>4, <1>9 DEF MovedPower
  <2>2. from \in Users /\ to \in Users
    BY <1>2, <1>9
  <2>3. snapshots[t][w] = <<>> => balance'[w] = balance[w]
    BY <1>6, <1>7, <1>9, <2>2
  <2>4. CurrentPower(t, w)' = CurrentPower(t, w)
    BY <2>1, <2>3 DEF CurrentPower
  <2> QED BY <1>3, <1>5, <1>9, <2>4
<1> QED BY <1>8, <1>9

(* A delegation takes the whole balance of the delegator from his old        *)
(* delegatee to the new one.                                                 *)
LEMMA DelegationKeepsPower ==
    ASSUME PInv, NEW v \in Users, NEW to \in Users, NEW T \in SUBSET Types,
           Delegate(v, to, T)
    PROVE  PowerIsDelegated'
<1> SUFFICES ASSUME NEW t \in Types, NEW w \in Users
             PROVE  CurrentPower(t, w)' =
                      SumFunctionOnSet(balance, {u \in Users : GetDelegatee(t, u)' = w})
  BY DEF PowerIsDelegated, Delegate
<1> DEFINE d == GetDelegatee(t, v)
           after == {u \in Users : GetDelegatee(t, u)' = w}
<1>1. /\ Ordered /\ balance \in [Users -> Nat] /\ balance' = balance
      /\ CurrentPower(t, w) = SumFunctionOnSet(balance, Delegators(t, w))
      /\ d \in Users /\ d # NoOne /\ CurrentPower(t, w) \in Nat /\ balance[v] \in Nat
  BY PartiesFacts, CurrentPowerNat
     DEF PInv, Ordered, TypeOK, PowerIsDelegated, Delegators, Delegate
<1>2. \A u \in Users : GetDelegatee(t, u)' = IF t \in T /\ u = v THEN to ELSE GetDelegatee(t, u)
  BY <1>1, DelegateesAfter
<1>3. CASE t \in T /\ d # to
  <2>1. /\ CanMovePower(t, d, to, balance[v])
        /\ snapshots'[t] = MovedPower(t, d, to, balance[v])
    BY <1>3 DEF Delegate
  <2>2. /\ w = d => CurrentPower(t, w)' = CurrentPower(t, w) - balance[v]
        /\ w = to => CurrentPower(t, w)' = CurrentPower(t, w) + balance[v]
        /\ w \notin {d, to} => CurrentPower(t, w)' = CurrentPower(t, w)
    BY <1>1, <1>3, <2>1, MovedPowerValue
  <2>3. v \in Delegators(t, d) /\ \A x : v \in Delegators(t, x) => x = d
    BY DEF Delegators
  <2>4. after = IF w = d THEN Delegators(t, w) \ {v}
                ELSE IF w = to THEN Delegators(t, w) \cup {v} ELSE Delegators(t, w)
    BY <1>2, <1>3 DEF Delegators
  <2> HIDE DEF d, after
  <2>5. /\ IsFiniteSet(Delegators(t, w)) /\ IsFiniteSet(Delegators(t, w) \cup {v})
        /\ \A x \in Delegators(t, w) \cup {v} : balance[x] \in Int
    BY <1>1, DelegatorsFinite, FS_AddElement
  <2>6. CASE w = d
    <3>1. CurrentPower(t, w) = balance[v] + SumFunctionOnSet(balance, Delegators(t, w) \ {v})
      BY <1>1, <2>3, <2>5, <2>6, SumRemove
    <3>2. SumFunctionOnSet(balance, Delegators(t, w) \ {v}) \in Int
      BY <2>5, FS_Subset, SumInt
    <3>3. CurrentPower(t, w)' = SumFunctionOnSet(balance, Delegators(t, w) \ {v})
      <4>1. CurrentPower(t, w)' = CurrentPower(t, w) - balance[v]
        BY <2>2, <2>6
      <4> QED BY <1>1, <3>1, <3>2, <4>1
    <3>4. after = Delegators(t, w) \ {v}
      BY <2>4, <2>6
    <3> QED BY <3>3, <3>4 DEF after
  <2>7. CASE w = to
    <3>1. v \notin Delegators(t, w) /\ w # d
      BY <1>3, <2>3, <2>7
    <3>2. (Delegators(t, w) \cup {v}) \ {v} = Delegators(t, w)
      BY <3>1
    <3>3. SumFunctionOnSet(balance, Delegators(t, w) \cup {v}) =
            balance[v] + SumFunctionOnSet(balance, (Delegators(t, w) \cup {v}) \ {v})
      BY <2>5, SumRemove
    <3>4. CurrentPower(t, w)' = SumFunctionOnSet(balance, Delegators(t, w) \cup {v})
      <4>1. CurrentPower(t, w)' = CurrentPower(t, w) + balance[v]
        BY <2>2, <2>7
      <4>2. SumFunctionOnSet(balance, Delegators(t, w) \cup {v}) = balance[v] + CurrentPower(t, w)
        <5>1. SumFunctionOnSet(balance, (Delegators(t, w) \cup {v}) \ {v}) = CurrentPower(t, w)
          BY ONLY <1>1, <3>2
        <5> QED BY <3>3, <5>1
      <4>3. balance[v] + CurrentPower(t, w) = CurrentPower(t, w) + balance[v]
        BY <1>1
      <4> QED BY <4>1, <4>2, <4>3
    <3>5. after = Delegators(t, w) \cup {v}
      BY <2>4, <2>7, <3>1
    <3> QED BY <3>4, <3>5 DEF after
  <2>8. CASE w \notin {d, to}
    BY <1>1, <2>2, <2>4, <2>8 DEF after
  <2> QED BY <2>6, <2>7, <2>8
<1>4. CASE ~(t \in T /\ d # to)
  <2>1. after = Delegators(t, w)
    BY <1>2, <1>4 DEF Delegators
  <2>2. snapshots'[t] = snapshots[t]
    BY <1>4 DEF Delegate, MovedPower
  <2>3. CurrentPower(t, w)' = CurrentPower(t, w)
    BY <1>1, <2>2 DEF CurrentPower
  <2> QED BY <1>1, <2>1, <2>3
<1> QED BY <1>3, <1>4

LEMMA PowerStep == PInv /\ [Next]_vars => PowerIsDelegated'
<1> SUFFICES ASSUME PInv, [Next]_vars PROVE PowerIsDelegated'
  OBVIOUS
<1>1. /\ Ordered /\ TypeOK' /\ balance \in [Users -> Nat] /\ balance' \in [Users -> Nat]
      /\ \A n \in Amounts : n \in Nat
      /\ NoOne \notin Users
  BY StepKeeps, PartiesFacts DEF PInv, Ordered, TypeOK
<1>2. ASSUME NEW u \in Users, NEW n \in Amounts, Mint(u, n)
      PROVE  PowerIsDelegated'
  <2>1. \A w \in Users : balance'[w] = (balance[w] - 0) + (IF w = u THEN n ELSE 0)
    BY <1>1, <1>2 DEF Mint
  <2>2. \A w \in Users : balance'[w] = (balance[w] - (IF w = NoOne THEN n ELSE 0))
                                          + (IF w = u THEN n ELSE 0)
    BY <1>1, <2>1
  <2> QED BY <1>1, <1>2, <2>2, HookKeepsPower DEF Mint
<1>3. ASSUME NEW u \in Users, NEW n \in Amounts, Burn(u, n)
      PROVE  PowerIsDelegated'
  <2>1. \A w \in Users : balance'[w] = (balance[w] - (IF w = u THEN n ELSE 0))
                                          + (IF w = NoOne THEN n ELSE 0)
    BY <1>1, <1>3 DEF Burn
  <2> QED BY <1>1, <1>3, <2>1, HookKeepsPower DEF Burn
<1>4. ASSUME NEW u \in Users, NEW v \in Users, NEW n \in Amounts, Transfer(u, v, n)
      PROVE  PowerIsDelegated'
  <2>1. CASE u # v
    <3>1. \A w \in Users : balance'[w] = (balance[w] - (IF w = u THEN n ELSE 0))
                                            + (IF w = v THEN n ELSE 0)
      BY <1>1, <1>4, <2>1 DEF Transfer
    <3> QED BY <1>1, <1>4, <2>1, <3>1, HookKeepsPower DEF Transfer
  <2>2. CASE u = v
    <3>1. balance' = balance
      BY <1>1, <1>4, <2>2 DEF Transfer
    <3>2. \A t \in Types : snapshots'[t] = snapshots[t]
      BY <1>4, <2>2 DEF Transfer, BeforeTokenTransfer, MovedPower
    <3>3. UNCHANGED delegates
      BY <1>4 DEF Transfer
    <3>4. \A t \in Types, w \in Users : /\ CurrentPower(t, w)' = CurrentPower(t, w)
                                       /\ GetDelegatee(t, w)' = GetDelegatee(t, w)
      BY <3>1, <3>2, <3>3 DEF CurrentPower, GetDelegatee
    <3> QED BY <3>1, <3>4 DEF PInv, PowerIsDelegated
  <2> QED BY <2>1, <2>2
<1>5. ASSUME NEW v \in Users, NEW to \in Users, NEW T \in SUBSET Types, Delegate(v, to, T)
      PROVE  PowerIsDelegated'
  BY <1>5, DelegationKeepsPower
<1>6. CASE NextBlock \/ UNCHANGED vars
  <2>1. UNCHANGED <<balance, delegates, snapshots>>
    BY <1>6 DEF NextBlock, vars
  <2>2. \A t \in Types, w \in Users : /\ CurrentPower(t, w)' = CurrentPower(t, w)
                                     /\ GetDelegatee(t, w)' = GetDelegatee(t, w)
    BY <2>1 DEF CurrentPower, GetDelegatee
  <2> QED BY <2>1, <2>2 DEF PInv, PowerIsDelegated
<1>7. \A t \in Types : {t} \in SUBSET Types
  OBVIOUS
<1> QED BY <1>2, <1>3, <1>4, <1>5, <1>6, <1>7 DEF Next

(* PowerIsDelegated for any users, types and amounts, and also for a token   *)
(* installed over one whose users hold receipts, with the snapshots of some  *)
(* types or of none: the current power of a delegatee is always the stake of *)
(* those who chose him.                                                      *)
THEOREM PowerStaysDelegated == Spec => []PowerIsDelegated
<1>1. PInv /\ [Next]_vars => PInv'
  BY OrderedStep, EntrustedStep, PowerStep DEF PInv
<1>2. Init => PInv
  BY OrderedInit, EntrustedInit, PowerInit DEF PInv
<1>3. PInv => PowerIsDelegated
  BY DEF PInv
<1> QED BY <1>1, <1>2, <1>3, PTL DEF Spec

(* PowerNeverLocks: no subtraction in the books of a delegatee reverts what  *)
(* a holder does with his own stake, whoever delegated to whom before.       *)
THEOREM PowerLocksNobody == Spec => []PowerNeverLocks
<1>1. ASSUME PInv PROVE PowerNeverLocks
  <2> SUFFICES ASSUME NEW u \in Users, NEW v \in Users \cup {NoOne}, NEW t \in Types
               PROVE  balance[u] <= CurrentPower(t, GetDelegatee(t, u))
    BY DEF PowerNeverLocks, CanMovePower
  <2> DEFINE d == GetDelegatee(t, u)
  <2>1. d \in Users /\ balance \in [Users -> Nat]
    BY <1>1, PartiesFacts DEF PInv, Ordered, TypeOK
  <2>2. u \in Delegators(t, d)
    BY DEF Delegators
  <2>3. CurrentPower(t, d) = SumFunctionOnSet(balance, Delegators(t, d))
    BY <1>1, <2>1 DEF PInv, PowerIsDelegated, Delegators
  <2> HIDE DEF d
  <2>4. \A w \in Delegators(t, d) : balance[w] \in Nat
    BY <2>1, DelegatorsFinite
  <2>5. balance[u] <= SumFunctionOnSet(balance, Delegators(t, d))
    BY <2>2, <2>4, DelegatorsFinite, SumNat
  <2> QED BY <2>3, <2>5 DEF d
<1>2. PInv /\ [Next]_vars => PInv'
  BY OrderedStep, EntrustedStep, PowerStep DEF PInv
<1>3. Init => PInv
  BY OrderedInit, EntrustedInit, PowerInit DEF PInv
<1> QED BY <1>1, <1>2, <1>3, PTL DEF Spec

-----------------------------------------------------------------------------
(* The past of getPowerAtBlock                                               *)

(* A user without snapshots is read by his balance, whatever the block: his  *)
(* past can be told from his present only if he holds nothing.               *)
OnRecord(t, u) == snapshots[t][u] = <<>> => balance[u] = 0

(* No balance changes without leaving its holder a snapshot of every type.   *)
LEMMA MovesAreRecorded ==
    Ordered /\ Entrusted /\ [Next]_vars =>
      \A t \in Types, u \in Users : balance'[u] = balance[u] \/ snapshots'[t][u] # <<>>
<1> DEFINE Moved == \A t \in Types, u \in Users :
                      balance'[u] = balance[u] \/ snapshots'[t][u] # <<>>
<1> SUFFICES ASSUME Ordered, Entrusted, [Next]_vars PROVE Moved
  OBVIOUS
<1>0. /\ \A n \in Amounts : n \in Nat
      /\ \A t \in Types, u \in Users : GetDelegatee(t, u) \in Users
      /\ \A t \in Types : GetDelegatee(t, NoOne) = NoOne
      /\ NoOne \notin Users
  BY PartiesFacts
<1>1. \A t \in Types, u \in Users : snapshots[t][u] # <<>> => snapshots'[t][u] # <<>>
  BY StepKeeps DEF KeepsHistory
<1>3. ASSUME NEW u \in Users, NEW n \in Amounts, Mint(u, n)
      PROVE  Moved
  <2>1. BeforeTokenTransfer(NoOne, u, n)
    BY <1>3 DEF Mint
  <2>2. \A t \in Types : snapshots'[t][GetDelegatee(t, u)] # <<>>
    BY <1>0, <2>1, HookKeeps
  <2>3. \A t \in Types : snapshots'[t][u] # <<>>
    BY <1>1, <2>2 DEF Entrusted
  <2>4. \A w \in Users : w # u => balance'[w] = balance[w]
    BY <1>3 DEF Mint, Ordered, TypeOK
  <2> QED BY <2>3, <2>4
<1>4. ASSUME NEW u \in Users, NEW n \in Amounts, Burn(u, n)
      PROVE  Moved
  <2>1. BeforeTokenTransfer(u, NoOne, n)
    BY <1>4 DEF Burn
  <2>2. \A t \in Types : snapshots'[t][GetDelegatee(t, u)] # <<>>
    BY <1>0, <2>1, HookKeeps
  <2>3. \A t \in Types : snapshots'[t][u] # <<>>
    BY <1>1, <2>2 DEF Entrusted
  <2>4. \A w \in Users : w # u => balance'[w] = balance[w]
    BY <1>4 DEF Burn, Ordered, TypeOK
  <2> QED BY <2>3, <2>4
<1>5. ASSUME NEW u \in Users, NEW v \in Users, NEW n \in Amounts, Transfer(u, v, n)
      PROVE  Moved
  <2>1. BeforeTokenTransfer(u, v, n)
    BY <1>5 DEF Transfer
  <2>2. CASE u = v
    <3>1. balance \in [Users -> Nat] /\ n \in Nat
      BY <1>0 DEF Ordered, TypeOK
    <3>2. \A w \in Users : balance'[w] = balance[w]
      BY <1>5, <2>2, <3>1 DEF Transfer
    <3> QED BY <3>2
  <2>3. CASE u # v
    <3>1. ASSUME NEW t \in Types
          PROVE  snapshots'[t][u] # <<>> /\ snapshots'[t][v] # <<>>
      <4>1. CASE GetDelegatee(t, u) # GetDelegatee(t, v)
        <5>1. /\ snapshots'[t][GetDelegatee(t, u)] # <<>>
              /\ snapshots'[t][GetDelegatee(t, v)] # <<>>
          BY <1>0, <2>1, <4>1, HookKeeps
        <5> QED BY <1>1, <5>1 DEF Entrusted
      <4>2. CASE GetDelegatee(t, u) = GetDelegatee(t, v)
        <5>1. snapshots[t][u] # <<>> /\ snapshots[t][v] # <<>>
          BY <2>3, <4>2 DEF Entrusted
        <5> QED BY <1>1, <5>1
      <4> QED BY <4>1, <4>2
    <3>2. \A w \in Users : w \notin {u, v} => balance'[w] = balance[w]
      BY <1>5 DEF Transfer, Ordered, TypeOK
    <3> QED BY <3>1, <3>2
  <2> QED BY <2>2, <2>3
<1>6. CASE UNCHANGED balance
  BY <1>6
<1> QED BY <1>3, <1>4, <1>5, <1>6 DEF Next, Delegate, NextBlock, vars

(* Who is on record stays on record, and what is on record of a block that   *)
(* is over does not change.                                                  *)
LEMMA RecordKept ==
    ASSUME Ordered, Entrusted, [Next]_vars,
           NEW t \in Types, NEW u \in Users, OnRecord(t, u)
    PROVE  /\ OnRecord(t, u)'
           /\ \A b \in Nat : b < height => GetPowerAtBlock(t, u, b)' = GetPowerAtBlock(t, u, b)
<1>1. KeepsHistory(snapshots[t][u], snapshots'[t][u])
  BY StepKeeps
<1>2. balance'[u] = balance[u] \/ snapshots'[t][u] # <<>>
  BY MovesAreRecorded
<1>3. OnRecord(t, u)'
  BY <1>1, <1>2 DEF OnRecord, KeepsHistory
<1>4. ASSUME NEW b \in Nat, b < height
      PROVE  GetPowerAtBlock(t, u, b)' = GetPowerAtBlock(t, u, b)
  <2>1. ValueAt(snapshots'[t][u], b) = ValueAt(snapshots[t][u], b)
    BY <1>1, <1>4 DEF KeepsHistory
  <2>2. CASE snapshots[t][u] # <<>>
    BY <1>1, <2>1, <2>2 DEF KeepsHistory, GetPowerAtBlock
  <2>3. CASE snapshots[t][u] = <<>> /\ snapshots'[t][u] = <<>>
    BY <1>3, <2>3 DEF GetPowerAtBlock, OnRecord
  <2>4. CASE snapshots[t][u] = <<>> /\ snapshots'[t][u] # <<>>
    <3>1. ValueAt(snapshots[t][u], b) = 0
      BY <2>4 DEF ValueAt, NoLater
    <3>2. GetPowerAtBlock(t, u, b) = 0
      BY <2>4 DEF GetPowerAtBlock, OnRecord
    <3>3. GetPowerAtBlock(t, u, b)' = ValueAt(snapshots'[t][u], b)
      BY <2>4 DEF GetPowerAtBlock
    <3> QED BY <2>1, <3>1, <3>2, <3>3
  <2> QED BY <2>2, <2>3, <2>4
<1> QED BY <1>3, <1>4

LEMMA PastBlocks == Ordered => \A b \in StartBlock .. height - 1 : b \in Nat /\ b < height
  BY GovernanceAssumption DEF Ordered, TypeOK

(* Whatever each user held when the code was installed: once _beforeToken-   *)
(* Transfer or a delegation has given him his first snapshot of a type, or   *)
(* if he held nothing, no transaction of anybody rewrites what               *)
(* getPowerAtBlock says of him and of a block that is over.                  *)
RecordedPastIsFixed ==
    [][\A t \in Types, u \in Users : OnRecord(t, u) =>
         /\ OnRecord(t, u)'
         /\ \A b \in StartBlock .. height - 1 :
              GetPowerAtBlock(t, u, b)' = GetPowerAtBlock(t, u, b)]_vars

(* RecordedPastIsFixed, for every initial stake.                             *)
THEOREM RecordedPastFixed == Spec => RecordedPastIsFixed
<1>1. Init => Ordered /\ Entrusted
  BY OrderedInit, EntrustedInit
<1>2. Ordered /\ Entrusted /\ [Next]_vars => (Ordered /\ Entrusted)'
  BY OrderedStep, EntrustedStep
<1>3. Ordered /\ Entrusted /\ [Next]_vars =>
        [\A t \in Types, u \in Users : OnRecord(t, u) =>
           /\ OnRecord(t, u)'
           /\ \A b \in StartBlock .. height - 1 :
                GetPowerAtBlock(t, u, b)' = GetPowerAtBlock(t, u, b)]_vars
  BY PastBlocks, RecordKept
<1> QED BY <1>1, <1>2, <1>3, PTL DEF Spec, RecordedPastIsFixed

(* All an upgrade over V1 can do to the past: what getPowerAtBlock says of a *)
(* user and a block that is over stays what it is but for one transaction,   *)
(* his first snapshot of a type V1 kept none of, after which it says 0.      *)
PastIsRewrittenOnce ==
    [][\A t \in Types, u \in Users, b \in StartBlock .. height - 1 :
         \/ GetPowerAtBlock(t, u, b)' = GetPowerAtBlock(t, u, b)
         \/ ~OnRecord(t, u) /\ OnRecord(t, u)' /\ GetPowerAtBlock(t, u, b)' = 0]_vars

LEMMA RewrittenByFirstSnapshot ==
    ASSUME Ordered, Entrusted, [Next]_vars,
           NEW t \in Types, NEW u \in Users, ~OnRecord(t, u), NEW b \in Nat, b < height
    PROVE  \/ GetPowerAtBlock(t, u, b)' = GetPowerAtBlock(t, u, b)
           \/ OnRecord(t, u)' /\ GetPowerAtBlock(t, u, b)' = 0
<1>1. snapshots[t][u] = <<>>
  BY DEF OnRecord
<1>2. CASE snapshots'[t][u] = <<>>
  <2>1. balance'[u] = balance[u]
    BY <1>2, MovesAreRecorded
  <2> QED BY <1>1, <1>2, <2>1 DEF GetPowerAtBlock
<1>3. CASE snapshots'[t][u] # <<>>
  <2>1. ValueAt(snapshots'[t][u], b) = ValueAt(snapshots[t][u], b)
    BY StepKeeps DEF KeepsHistory
  <2>2. ValueAt(snapshots[t][u], b) = 0
    BY <1>1 DEF ValueAt, NoLater
  <2>3. GetPowerAtBlock(t, u, b)' = 0
    BY <1>3, <2>1, <2>2 DEF GetPowerAtBlock
  <2> QED BY <1>3, <2>3 DEF OnRecord
<1> QED BY <1>2, <1>3

(* PastIsRewrittenOnce, for every initial stake: with RecordedPastFixed, at  *)
(* most once for each user and type.                                         *)
THEOREM PastRewrittenOnce == Spec => PastIsRewrittenOnce
<1>1. Init => Ordered /\ Entrusted
  BY OrderedInit, EntrustedInit
<1>2. Ordered /\ Entrusted /\ [Next]_vars => (Ordered /\ Entrusted)'
  BY OrderedStep, EntrustedStep
<1>3. Ordered /\ Entrusted /\ [Next]_vars =>
        [\A t \in Types, u \in Users, b \in StartBlock .. height - 1 :
           \/ GetPowerAtBlock(t, u, b)' = GetPowerAtBlock(t, u, b)
           \/ ~OnRecord(t, u) /\ OnRecord(t, u)' /\ GetPowerAtBlock(t, u, b)' = 0]_vars
  BY PastBlocks, RecordKept, RewrittenByFirstSnapshot
<1> QED BY <1>1, <1>2, <1>3, PTL DEF Spec, PastIsRewrittenOnce

(* The types of which everybody is on record: those V1 kept snapshots of,    *)
(* and all of them when nobody held stake.                                   *)
Kind(t) == t \in Snapshotted \/ InitialStake = 0

AllOnRecord == \A t \in Types, u \in Users : Kind(t) => OnRecord(t, u)

LEMMA AllOnRecordInit == Init => AllOnRecord
BY DEF Init, AllOnRecord, OnRecord, Kind

LEMMA AllOnRecordStep == Ordered /\ Entrusted /\ AllOnRecord /\ [Next]_vars => AllOnRecord'
BY RecordKept DEF AllOnRecord, Kind

(* getPowerAtBlock of the types whose snapshots V1 kept: what it says of a   *)
(* block that is over is never rewritten, whatever V1's holders held.        *)
SnapshottedPastIsFixed ==
    [][\A t \in Snapshotted, u \in Users, b \in StartBlock .. height - 1 :
         GetPowerAtBlock(t, u, b)' = GetPowerAtBlock(t, u, b)]_vars

LEMMA PastKept ==
    ASSUME Ordered, Entrusted, AllOnRecord, [Next]_vars
    PROVE  \A t \in Types, u \in Users, b \in StartBlock .. height - 1 :
             Kind(t) => GetPowerAtBlock(t, u, b)' = GetPowerAtBlock(t, u, b)
  BY PastBlocks, RecordKept DEF AllOnRecord

(* SnapshottedPastIsFixed: an upgrade of V1 keeps the past of voting power.  *)
THEOREM SnapshottedPastFixed == Spec => SnapshottedPastIsFixed
<1>1. Init => Ordered /\ Entrusted /\ AllOnRecord
  BY OrderedInit, EntrustedInit, AllOnRecordInit
<1>2. Ordered /\ Entrusted /\ AllOnRecord /\ [Next]_vars =>
        (Ordered /\ Entrusted /\ AllOnRecord)'
  BY OrderedStep, EntrustedStep, AllOnRecordStep
<1>3. Ordered /\ Entrusted /\ AllOnRecord /\ [Next]_vars =>
        [\A t \in Snapshotted, u \in Users, b \in StartBlock .. height - 1 :
           GetPowerAtBlock(t, u, b)' = GetPowerAtBlock(t, u, b)]_vars
  <2>1. \A t \in Snapshotted : t \in Types /\ Kind(t)
    BY GovernanceAssumption DEF Kind
  <2> QED BY <2>1, PastKept
<1> QED BY <1>1, <1>2, <1>3, PTL DEF Spec, SnapshottedPastIsFixed

(* PastPowerIsFixed for a token installed before anybody staked: no mint,    *)
(* burn, transfer or delegation rewrites what getPowerAtBlock says of a      *)
(* block that is over.  The run GovernancePower_upgrade shows why the        *)
(* condition is needed.                                                      *)
THEOREM PastPowerFixed == InitialStake = 0 => (Spec => PastPowerIsFixed)
<1> SUFFICES ASSUME InitialStake = 0 PROVE Spec => PastPowerIsFixed
  OBVIOUS
<1>1. Init => Ordered /\ Entrusted /\ AllOnRecord
  BY OrderedInit, EntrustedInit, AllOnRecordInit
<1>2. Ordered /\ Entrusted /\ AllOnRecord /\ [Next]_vars =>
        (Ordered /\ Entrusted /\ AllOnRecord)'
  BY OrderedStep, EntrustedStep, AllOnRecordStep
<1>3. Ordered /\ Entrusted /\ AllOnRecord /\ [Next]_vars =>
        [\A t \in Types, u \in Users, b \in StartBlock .. height - 1 :
           GetPowerAtBlock(t, u, b)' = GetPowerAtBlock(t, u, b)]_vars
  BY PastKept DEF Kind
<1> QED BY <1>1, <1>2, <1>3, PTL DEF Spec, PastPowerIsFixed

-----------------------------------------------------------------------------
(* The promise: GovernancePower implements VotingPower                       *)

(* A sum is the same sum in the abstract specification.                      *)
LEMMA PromisedSum ==
    ASSUME NEW f, NEW S
    PROVE  Promise!SumFunctionOnSet(f, S) = SumFunctionOnSet(f, S)
  BY DEF SumFunctionOnSet, FoldFunctionOnSet, MapThenFoldSet,
         Promise!SumFunctionOnSet, Promise!FoldFunctionOnSet, Promise!MapThenFoldSet

(* No snapshot is later than the current block, so a search for it, or for a *)
(* later block, finds the latest.                                            *)
LEMMA LatestIsRead ==
    ASSUME Ordered, NEW t \in Types, NEW u \in Users, NEW b \in Nat, height <= b
    PROVE  GetPowerAtBlock(t, u, b) = CurrentPower(t, u)
<1> DEFINE s == snapshots[t][u]
<1>1. /\ s \in Seq(Snapshot) /\ Increasing(s) /\ height \in Nat
      /\ s # <<>> => Latest(s).blockNumber <= height
  BY DEF Ordered, TypeOK, HistoriesOrdered
<1> HIDE DEF s
<1>2. ASSUME s # <<>> PROVE ValueAt(s, b) = Latest(s).value
  <2>1. /\ Len(s) \in Nat /\ Len(s) \in 1 .. Len(s) /\ s[Len(s)].blockNumber \in Nat
        /\ \A i \in 1 .. Len(s) : s[i].blockNumber \in Nat
    BY <1>1, <1>2, HistoryFacts
  <2>2. s[Len(s)].blockNumber <= b
    BY <1>1, <1>2, <2>1 DEF Latest
  <2>3. Len(s) \in NoLater(s, b)
    BY <2>1, <2>2 DEF NoLater
  <2>4. \A i \in NoLater(s, b) : i \in 1 .. Len(s)
    BY DEF NoLater
  <2>5. \A i \in NoLater(s, b) : (\A j \in NoLater(s, b) : j <= i) => i = Len(s)
    BY <2>1, <2>3, <2>4
  <2>6. \A j \in NoLater(s, b) : j <= Len(s)
    BY <2>1, <2>4
  <2>7. (CHOOSE i \in NoLater(s, b) : \A j \in NoLater(s, b) : j <= i) = Len(s)
    BY <2>3, <2>5, <2>6
  <2> QED BY <2>3, <2>7 DEF ValueAt, Latest
<1> QED BY <1>2 DEF s, GetPowerAtBlock, CurrentPower

(* What the promise calls the delegated balance is the current power.        *)
LEMMA PromisedBalance ==
    PInv => \A t \in Types, u \in Users : Promise!DelegatedBalance(t, u) = CurrentPower(t, u)
<1> SUFFICES ASSUME PInv, NEW t \in Types, NEW u \in Users
             PROVE  Promise!DelegatedBalance(t, u) = CurrentPower(t, u)
  OBVIOUS
<1>1. Promise!DelegatedBalance(t, u) = Promise!SumFunctionOnSet(balance, Delegators(t, u))
  BY DEF Promise!DelegatedBalance, Delegators
<1> QED BY <1>1, PromisedSum DEF PInv, PowerIsDelegated, Delegators

Books == PInv /\ \A t \in Types, u \in Users : OnRecord(t, u)

LEMMA PromiseInit == InitialStake = 0 /\ Init => Promise!Init
<1> SUFFICES ASSUME InitialStake = 0, Init PROVE Promise!Init
  OBVIOUS
<1>1. PInv
  BY OrderedInit, EntrustedInit, PowerInit DEF PInv
<1>2. /\ height \in Nat /\ balance \in [Users -> Nat]
      /\ [t \in Types |-> [u \in Users |-> GetDelegatee(t, u)]] \in [Types -> [Users -> Users]]
  BY <1>1, PartiesFacts DEF PInv, Ordered, TypeOK
<1>3. \A t \in Types, u \in Users, b \in 0 .. height :
        GetPowerAtBlock(t, u, b) = Promise!DelegatedBalance(t, u)
  <2>1. \A t \in Types, u \in Users : snapshots[t][u] = <<>>
    BY DEF Init
  <2> QED BY <1>1, <2>1, PromisedBalance DEF GetPowerAtBlock, CurrentPower
<1> QED BY <1>2, <1>3 DEF Promise!Init

(* What a state with these books says to the promise.                        *)
Kept ==
    /\ height \in Nat
    /\ balance \in [Users -> Nat]
    /\ \A t \in Types, u \in Users : GetDelegatee(t, u) \in Users
    /\ \A t \in Types, u \in Users : GetPowerAtBlock(t, u, height) = Promise!DelegatedBalance(t, u)

LEMMA BooksKeep == Books => Kept
<1> SUFFICES ASSUME Books PROVE Kept
  OBVIOUS
<1>1. /\ PInv /\ Ordered /\ height \in Nat /\ balance \in [Users -> Nat]
      /\ \A t \in Types, u \in Users : GetDelegatee(t, u) \in Users
  BY PartiesFacts DEF Books, PInv, Ordered, TypeOK
<1>2. \A t \in Types, u \in Users : GetPowerAtBlock(t, u, height) = CurrentPower(t, u)
  BY <1>1, LatestIsRead
<1> QED BY <1>1, <1>2, PromisedBalance DEF Kept

LEMMA BooksKeepNext == Books' => Kept'
  BY BooksKeep, PTL

(* A transaction changes the power of the current block alone.               *)
LEMMA TransactionKeepsPromise ==
    ASSUME Books, Books', [Next]_vars, height' = height
    PROVE  Promise!Change
<1>1. Kept /\ Kept'
  BY BooksKeep, BooksKeepNext
<1>2. /\ balance' \in [Users -> Nat] /\ height \in Nat
      /\ \A t \in Types, u \in Users : GetDelegatee(t, u)' \in Users
  BY <1>1 DEF Kept
<1>3. ASSUME NEW t \in Types, NEW u \in Users
      PROVE  GetPowerAtBlock(t, u, height)' = Promise!DelegatedBalance(t, u)'
  BY <1>1 DEF Kept
<1>4. ASSUME NEW t \in Types, NEW u \in Users, NEW b \in 0 .. height, b # height
      PROVE  GetPowerAtBlock(t, u, b)' = GetPowerAtBlock(t, u, b)
  <2>1. b \in Nat /\ b < height
    BY <1>2, <1>4
  <2> QED BY <1>4, <2>1, RecordKept DEF Books, PInv
<1>5. ASSUME NEW t \in Types, NEW u \in Users
      PROVE  [b \in 0 .. height |-> GetPowerAtBlock(t, u, b)]' =
               [[b \in 0 .. height |-> GetPowerAtBlock(t, u, b)]
                  EXCEPT ![height] = Promise!DelegatedBalance(t, u)']
  <2>1. \A b \in 0 .. height :
          GetPowerAtBlock(t, u, b)' = IF b = height THEN Promise!DelegatedBalance(t, u)'
                                                    ELSE GetPowerAtBlock(t, u, b)
    <3>1. \A b \in 0 .. height : b = height =>
            GetPowerAtBlock(t, u, b)' = GetPowerAtBlock(t, u, height)'
      BY DEF GetPowerAtBlock
    <3> QED BY <1>3, <1>4, <3>1
  <2> QED BY <2>1
<1>6. Promise!Change
  BY <1>2, <1>5 DEF Promise!Change
<1> QED BY <1>6

(* The next block starts with the power the last one ended with.             *)
LEMMA BlockKeepsPromise ==
    ASSUME Books, NextBlock
    PROVE  Promise!NextBlock
<1>1. /\ Kept /\ Ordered /\ height \in Nat /\ height' = height + 1
      /\ UNCHANGED <<balance, delegates, snapshots>>
  BY BooksKeep DEF NextBlock, Books, PInv, Kept
<1>2. \A t \in Types, u \in Users : GetDelegatee(t, u)' = GetDelegatee(t, u)
  BY <1>1 DEF GetDelegatee
<1>3. ASSUME NEW t \in Types, NEW u \in Users, NEW b \in 0 .. height + 1
      PROVE  GetPowerAtBlock(t, u, b)' = IF b <= height THEN GetPowerAtBlock(t, u, b)
                                                        ELSE GetPowerAtBlock(t, u, height)
  <2>1. GetPowerAtBlock(t, u, b)' = GetPowerAtBlock(t, u, b)
    BY <1>1 DEF GetPowerAtBlock
  <2>2. CASE b <= height
    BY <2>1, <2>2
  <2>3. CASE ~(b <= height)
    <3>1. b \in Nat /\ height <= b
      BY <1>1, <2>3
    <3> QED BY <1>1, <2>1, <2>3, <3>1, LatestIsRead
  <2> QED BY <2>2, <2>3
<1>4. 0 .. height \subseteq 0 .. height + 1 /\ height \in 0 .. height
  BY <1>1
<1>5. ASSUME NEW t \in Types, NEW u \in Users
      PROVE  [b \in 0 .. height |-> GetPowerAtBlock(t, u, b)]' =
               [b \in 0 .. height + 1 |->
                  IF b <= height THEN [c \in 0 .. height |-> GetPowerAtBlock(t, u, c)][b]
                                 ELSE [c \in 0 .. height |-> GetPowerAtBlock(t, u, c)][height]]
  <2>1. \A b \in 0 .. height + 1 : b <= height => b \in 0 .. height
    BY <1>1
  <2> QED BY <1>1, <1>3, <1>4, <2>1
<1> QED BY <1>1, <1>2, <1>5 DEF Promise!NextBlock

LEMMA BooksInit == InitialStake = 0 /\ Init => Books
  BY OrderedInit, EntrustedInit, PowerInit, AllOnRecordInit
  DEF PInv, Books, AllOnRecord, Kind

LEMMA BooksStep == Books /\ [Next]_vars => Books'
  BY OrderedStep, EntrustedStep, PowerStep, RecordKept DEF PInv, Books

LEMMA PromiseStep == Books /\ [Next]_vars => [Promise!Next]_(Promise!vars)
<1> SUFFICES ASSUME Books, [Next]_vars PROVE [Promise!Next]_(Promise!vars)
  OBVIOUS
<1>1. CASE UNCHANGED vars
  BY <1>1 DEF vars, Promise!vars, GetDelegatee, GetPowerAtBlock
<1>2. CASE NextBlock
  BY <1>2, BlockKeepsPromise DEF Promise!Next
<1>3. CASE ~NextBlock /\ ~UNCHANGED vars
  <2>1. height' = height
    BY <1>3 DEF Next, Mint, Burn, Transfer, Delegate
  <2> QED BY <2>1, BooksStep, TransactionKeepsPromise DEF Promise!Next
<1> QED BY <1>1, <1>2, <1>3

(* ImplementsVotingPower, for a token installed before anybody staked: by    *)
(* its views the snapshots implement VotingPower, so in every block a user's *)
(* power is what was delegated to him at the end of that block.              *)
THEOREM SnapshotsKeepPromise == InitialStake = 0 => (Spec => ImplementsVotingPower)
<1> SUFFICES ASSUME InitialStake = 0 PROVE Spec => ImplementsVotingPower
  OBVIOUS
<1>1. Init => Books /\ Promise!Init
  BY BooksInit, PromiseInit
<1> QED BY <1>1, BooksStep, PromiseStep, PTL DEF Spec, ImplementsVotingPower, Promise!Spec

=============================================================================
