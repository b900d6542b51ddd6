-------------------------------- MODULE Sums --------------------------------
(***************************************************************************)
(* Lemmas about the sums SumFunctionOnSet and SumFunction of the module    *)
(* Functions over finite sets, in which the other modules add up balances, *)
(* debts and power.  A sum is a fold, a function defined recursively on    *)
(* the subsets of its index set; that it exists is proved first, and with  *)
(* it everything else; SumSwap adds up a table by rows or by columns.      *)
(* Induction over finite sets is used in the form of its least             *)
(* counterexample (NoSmallestCounterexample), as is that over the rounds   *)
(* of a loop over a list (LoopExists, LoopStays).                          *)
(***************************************************************************)
EXTENDS Functions, FiniteSetTheorems, TLAPS

-----------------------------------------------------------------------------
(* Induction *)

(* A set of subsets of a finite set in which each has a smaller one is       *)
(* empty.                                                                    *)
LEMMA NoSmallestCounterexample ==
    ASSUME NEW S, IsFiniteSet(S), NEW B \in SUBSET SUBSET S,
           \A T \in B : \E U \in B : U \subseteq T /\ U # T
    PROVE  B = {}
<1> SUFFICES ASSUME B # {} PROVE FALSE
  OBVIOUS
<1>1. FiniteSubsetsOf(S) = SUBSET S
  BY FS_FiniteSubsetsOfFinite
<1>2. IsWellFoundedOn(StrictSubsetOrdering(S), SUBSET S)
  <2>1. IsWellFoundedOn(StrictSubsetOrdering(S), FiniteSubsetsOf(S))
    BY FS_StrictSubsetOrderingWellFounded
  <2> QED BY <1>1, <2>1
<1>3. PICK T \in B : \A U \in B : ~(<<U, T>> \in StrictSubsetOrdering(S))
  BY <1>2, WFMin
<1>4. PICK U \in B : U \subseteq T /\ U # T
  OBVIOUS
<1>5. <<U, T>> \in StrictSubsetOrdering(S)
  BY <1>4 DEF StrictSubsetOrdering
<1> QED BY <1>3, <1>5

(* The same for numbers. *)
LEMMA NoSmallestNumber ==
    ASSUME NEW B \in SUBSET Nat,
           \A n \in B : \E m \in B : m < n
    PROVE  B = {}
<1> SUFFICES ASSUME B # {} PROVE FALSE
  OBVIOUS
<1> DEFINE R == OpToRel(<, Nat)
<1>1. IsWellFoundedOn(R, Nat)
  BY NatLessThanWellFounded
<1>2. \A m, n \in Nat : m < n => <<m, n>> \in R
  BY DEF OpToRel
<1> HIDE DEF R
<1>3. PICK n \in B : \A m \in B : ~(<<m, n>> \in R)
  BY <1>1, WFMin
<1> QED BY <1>2, <1>3

(* A loop of n rounds, as a function recursively defined on the rounds.      *)
IsLoop(n, start, round, f) ==
    f = [i \in 0 .. n |-> IF i = 0 THEN start ELSE round[i][f[i - 1]]]

(* There is such a function for rounds that stay in a set of states.         *)
LEMMA LoopExists ==
    ASSUME NEW n \in Nat, NEW S, NEW start \in S, NEW round \in [1 .. n -> [S -> S]]
    PROVE  \E f : IsLoop(n, start, round, f)
<1> DEFINE B == {m \in Nat : m <= n /\ \A f : ~IsLoop(m, start, round, f)}
<1>1. 0 \notin B
  <2>1. IsLoop(0, start, round, [i \in 0 .. 0 |-> start])
    BY DEF IsLoop
  <2> QED BY <2>1
<1>2. ASSUME NEW m \in Nat, m + 1 <= n, m \notin B
      PROVE  m + 1 \notin B
  <2>1. PICK f : IsLoop(m, start, round, f)
    BY <1>2
  <2> DEFINE g == [i \in 0 .. m + 1 |-> IF i = 0 THEN start ELSE round[i][f[i - 1]]]
  <2>2. \A i \in 0 .. m : i \in 0 .. m + 1 /\ f[i] = g[i]
    BY <2>1 DEF IsLoop
  <2>3. \A i \in 0 .. m + 1 : i # 0 => i - 1 \in 0 .. m
    OBVIOUS
  <2>4. \A i \in 0 .. m + 1 : i # 0 => f[i - 1] = g[i - 1]
    <3> HIDE DEF g
    <3> QED BY <2>2, <2>3
  <2>5. IsLoop(m + 1, start, round, g)
    BY <2>4 DEF IsLoop
  <2> HIDE DEF g
  <2> QED BY <2>5
<1>3. B \in SUBSET Nat
  OBVIOUS
<1>4. \A m \in B : m <= n
  OBVIOUS
<1>5. n \in B \/ \E f : IsLoop(n, start, round, f)
  OBVIOUS
<1> HIDE DEF B
<1>6. ASSUME NEW m \in B
      PROVE  \E k \in B : k < m
  <2>1. m \in Nat /\ m # 0 /\ m - 1 \in Nat /\ (m - 1) + 1 = m /\ m - 1 < m /\ m <= n
    BY <1>1, <1>3, <1>4
  <2>2. m - 1 \in B
    BY <1>2, <2>1
  <2> QED BY <2>1, <2>2
<1>7. B = {}
  BY <1>3, <1>6, NoSmallestNumber
<1> QED BY <1>5, <1>7

(* A loop whose rounds keep it in a set ends in that set.                    *)
LEMMA LoopStays ==
    ASSUME NEW n \in Nat, NEW S, NEW f, f[0] \in S,
           \A i \in 1 .. n : f[i - 1] \in S => f[i] \in S
    PROVE  f[n] \in S
<1> DEFINE B == {m \in Nat : m <= n /\ f[m] \notin S}
<1>1. ASSUME NEW m \in B
      PROVE  \E k \in B : k < m
  <2>1. m \in 1 .. n /\ m - 1 \in Nat /\ m - 1 <= n /\ m - 1 < m
    OBVIOUS
  <2>2. m - 1 \in B
    BY <2>1
  <2> HIDE DEF B
  <2> QED BY <2>1, <2>2
<1>2. B \in SUBSET Nat
  OBVIOUS
<1> HIDE DEF B
<1>3. B = {}
  BY <1>1, <1>2, NoSmallestNumber
<1> QED BY <1>3 DEF B

-----------------------------------------------------------------------------
(* The fold exists *)

\* What the fold picks from a set.
Pick(T) == CHOOSE x \in T : TRUE

\* s is the fold that adds up f, over the subsets in D.
IsSum(f, D, s) ==
    s = [T \in D |-> IF T = {} THEN 0 ELSE f[Pick(T)] + s[T \ {Pick(T)}]]

LEMMA PickIn == \A T : T # {} => Pick(T) \in T
  BY DEF Pick

LEMMA SumExists ==
    ASSUME NEW S, IsFiniteSet(S), NEW f
    PROVE  \E s : IsSum(f, SUBSET S, s)
<1> DEFINE D(n) == {T \in SUBSET S : Cardinality(T) <= n}
           Step(s, n) == [T \in D(n) |-> IF T = {} THEN 0
                                           ELSE f[Pick(T)] + s[T \ {Pick(T)}]]
           B == {n \in Nat : \A s : ~IsSum(f, D(n), s)}
<1>1. \A T \in SUBSET S : IsFiniteSet(T) /\ Cardinality(T) \in Nat
  BY FS_Subset, FS_CardinalityType
<1>2. \A T \in SUBSET S : T # {} =>
        /\ T \ {Pick(T)} \in SUBSET S
        /\ Cardinality(T \ {Pick(T)}) = Cardinality(T) - 1
  BY <1>1, PickIn, FS_RemoveElement
<1>3. 0 \notin B
  <2>1. \A T \in D(0) : T = {}
    BY <1>1, FS_EmptySet
  <2>2. IsSum(f, D(0), [T \in D(0) |-> 0])
    BY <2>1 DEF IsSum
  <2> QED BY <2>2
<1>4. ASSUME NEW n \in Nat, n \notin B
      PROVE  n + 1 \notin B
  <2>1. PICK s : IsSum(f, D(n), s)
    BY <1>4
  <2> DEFINE t == Step(s, n + 1)
  <2>2. ASSUME NEW T \in D(n)
        PROVE  T \in D(n + 1) /\ s[T] = t[T]
    <3>1. T \in D(n + 1)
      BY <1>1
    <3>2. s[T] = IF T = {} THEN 0 ELSE f[Pick(T)] + s[T \ {Pick(T)}]
      BY <2>1 DEF IsSum
    <3> QED BY <3>1, <3>2
  <2>3. \A T \in D(n + 1) : T # {} => T \ {Pick(T)} \in D(n)
    BY <1>1, <1>2
  <2>4. \A T \in D(n + 1) : T # {} => s[T \ {Pick(T)}] = t[T \ {Pick(T)}]
    BY <2>2, <2>3
  <2>5. IsSum(f, D(n + 1), t)
    BY <2>4 DEF IsSum
  <2> QED BY <2>5
<1>5. B = {}
  <2>1. ASSUME NEW n \in B
        PROVE  \E m \in B : m < n
    <3>1. n # 0 /\ n - 1 \in Nat
      BY <1>3
    <3>2. n - 1 \in B
      <4>1. n - 1 \notin B => (n - 1) + 1 \notin B
        BY <1>4, <3>1
      <4>2. (n - 1) + 1 = n
        OBVIOUS
      <4> QED BY <4>1, <4>2
    <3> QED BY <3>1, <3>2
  <2>2. B \in SUBSET Nat
    OBVIOUS
  <2> HIDE DEF B
  <2> QED BY <2>1, <2>2, NoSmallestNumber
<1>6. PICK s : IsSum(f, D(Cardinality(S)), s)
  BY <1>1, <1>5
<1>7. D(Cardinality(S)) = SUBSET S
  BY FS_Subset
<1> QED BY <1>6, <1>7

(* Two folds agree where the functions they add up agree.                    *)
LEMMA SameSum ==
    ASSUME NEW S, IsFiniteSet(S), NEW D, NEW E, NEW f, NEW g, NEW s, NEW t,
           SUBSET S \subseteq D, SUBSET S \subseteq E,
           IsSum(f, D, s), IsSum(g, E, t),
           \A x \in S : f[x] = g[x]
    PROVE  s[S] = t[S]
<1> DEFINE B == {T \in SUBSET S : s[T] # t[T]}
<1>1. ASSUME NEW T \in B
      PROVE  \E U \in B : U \subseteq T /\ U # T
  <2>1. /\ s[T] = IF T = {} THEN 0 ELSE f[Pick(T)] + s[T \ {Pick(T)}]
        /\ t[T] = IF T = {} THEN 0 ELSE g[Pick(T)] + t[T \ {Pick(T)}]
    BY DEF IsSum
  <2>2. T # {}
    BY <2>1
  <2>3. Pick(T) \in T /\ f[Pick(T)] = g[Pick(T)]
    BY <2>2, PickIn
  <2>4. T \ {Pick(T)} \in B
    BY <2>1, <2>2, <2>3
  <2> QED BY <2>3, <2>4
<1>2. B \in SUBSET SUBSET S
  OBVIOUS
<1> HIDE DEF B
<1>3. B = {}
  BY <1>1, <1>2, NoSmallestCounterexample
<1> QED BY <1>3 DEF B

(* The sum of the module Functions is that fold.                             *)
LEMMA SumIsFold ==
    ASSUME NEW S, IsFiniteSet(S), NEW f
    PROVE  \E s : IsSum(f, SUBSET S, s) /\ SumFunctionOnSet(f, S) = s[S]
<1> DEFINE s == CHOOSE s : IsSum(f, SUBSET S, s)
<1>1. IsSum(f, SUBSET S, s)
  BY SumExists
<1>2. SumFunctionOnSet(f, S) = s[S]
  BY DEF SumFunctionOnSet, FoldFunctionOnSet, MapThenFoldSet, IsSum, Pick
<1> QED BY <1>1, <1>2

-----------------------------------------------------------------------------
(* What a sum is *)

LEMMA SumEmpty ==
    ASSUME NEW f
    PROVE  SumFunctionOnSet(f, {}) = 0
<1>1. PICK s : IsSum(f, SUBSET {}, s) /\ SumFunctionOnSet(f, {}) = s[{}]
  BY FS_EmptySet, SumIsFold
<1> QED BY <1>1 DEF IsSum

LEMMA SumSame ==
    ASSUME NEW S, IsFiniteSet(S), NEW f, NEW g, \A x \in S : f[x] = g[x]
    PROVE  SumFunctionOnSet(f, S) = SumFunctionOnSet(g, S)
<1>1. PICK s : IsSum(f, SUBSET S, s) /\ SumFunctionOnSet(f, S) = s[S]
  BY SumIsFold
<1>2. PICK t : IsSum(g, SUBSET S, t) /\ SumFunctionOnSet(g, S) = t[S]
  BY SumIsFold
<1> QED BY <1>1, <1>2, SameSum

LEMMA SumPicked ==
    ASSUME NEW S, IsFiniteSet(S), S # {}, NEW f
    PROVE  SumFunctionOnSet(f, S) =
             f[Pick(S)] + SumFunctionOnSet(f, S \ {Pick(S)})
<1> DEFINE T == S \ {Pick(S)}
<1>1. IsFiniteSet(T) /\ T \subseteq S
  BY FS_RemoveElement
<1>2. PICK s : IsSum(f, SUBSET S, s) /\ SumFunctionOnSet(f, S) = s[S]
  BY SumIsFold
<1>3. PICK t : IsSum(f, SUBSET T, t) /\ SumFunctionOnSet(f, T) = t[T]
  BY <1>1, SumIsFold
<1>4. s[T] = t[T]
  <2>1. SUBSET T \subseteq SUBSET S
    OBVIOUS
  <2> HIDE DEF T
  <2> QED BY <1>1, <1>2, <1>3, <2>1, SameSum
<1>5. s[S] = f[Pick(S)] + s[T]
  BY <1>2 DEF IsSum
<1> QED BY <1>2, <1>3, <1>4, <1>5

LEMMA SumInt ==
    ASSUME NEW S, IsFiniteSet(S), NEW f, \A x \in S : f[x] \in Int
    PROVE  SumFunctionOnSet(f, S) \in Int
<1> DEFINE B == {T \in SUBSET S : SumFunctionOnSet(f, T) \notin Int}
<1>1. ASSUME NEW T \in B
      PROVE  \E U \in B : U \subseteq T /\ U # T
  <2>1. T # {}
    BY SumEmpty
  <2>2. Pick(T) \in T /\ f[Pick(T)] \in Int
    BY <2>1, PickIn
  <2>3. SumFunctionOnSet(f, T) = f[Pick(T)] + SumFunctionOnSet(f, T \ {Pick(T)})
    BY <2>1, FS_Subset, SumPicked
  <2>4. T \ {Pick(T)} \in B
    BY <2>2, <2>3
  <2> QED BY <2>2, <2>4
<1>2. B \in SUBSET SUBSET S
  OBVIOUS
<1> HIDE DEF B
<1>3. B = {}
  BY <1>1, <1>2, NoSmallestCounterexample
<1> QED BY <1>3 DEF B

(* Any element may be taken out first.                                       *)
LEMMA SumRemove ==
    ASSUME NEW S, IsFiniteSet(S), NEW f, \A x \in S : f[x] \in Int, NEW e \in S
    PROVE  SumFunctionOnSet(f, S) = f[e] + SumFunctionOnSet(f, S \ {e})
<1> DEFINE Sum(T) == SumFunctionOnSet(f, T)
           B == {T \in SUBSET S : \E x \in T : Sum(T) # f[x] + Sum(T \ {x})}
<1>1. \A T \in SUBSET S : IsFiniteSet(T) /\ Sum(T) \in Int
  BY FS_Subset, SumInt
<1>2. \A T \in SUBSET S : T # {} =>
        Pick(T) \in T /\ Sum(T) = f[Pick(T)] + Sum(T \ {Pick(T)})
  BY <1>1, SumPicked, PickIn
<1> HIDE DEF Sum
<1>3. ASSUME NEW T \in B
      PROVE  \E U \in B : U \subseteq T /\ U # T
  <2>1. PICK x \in T : Sum(T) # f[x] + Sum(T \ {x})
    OBVIOUS
  <2> DEFINE p == Pick(T)
             U == T \ {p}
             V == T \ {x}
  <2>2. p \in T /\ Sum(T) = f[p] + Sum(U) /\ p # x
    BY <1>2, <2>1
  <2>3. SUFFICES ASSUME U \notin B, V \notin B PROVE FALSE
    BY <2>2
  <2>4. Sum(U) = f[x] + Sum(U \ {x})
    BY <2>2, <2>3
  <2>5. Sum(V) = f[p] + Sum(V \ {p})
    BY <2>2, <2>3
  <2>6. U \ {x} = V \ {p}
    OBVIOUS
  <2>7. U \ {x} \in SUBSET S /\ f[x] \in Int /\ f[p] \in Int
    BY <2>2
  <2>8. Sum(U \ {x}) \in Int
    BY <1>1, <2>7
  <2>9. Sum(T) # f[x] + Sum(V) /\ Sum(V) = f[p] + Sum(U \ {x})
    BY <2>1, <2>5, <2>6
  <2> HIDE DEF p, U, V
  <2> QED BY <2>2, <2>4, <2>7, <2>8, <2>9
<1>4. B \in SUBSET SUBSET S
  OBVIOUS
<1> HIDE DEF B
<1>5. B = {}
  BY <1>3, <1>4, NoSmallestCounterexample
<1> QED BY <1>5 DEF B, Sum

LEMMA SumOfOne ==
    ASSUME NEW x, NEW f, f[x] \in Int
    PROVE  SumFunctionOnSet(f, {x}) = f[x]
<1>1. IsFiniteSet({x}) /\ {x} \ {x} = {}
  BY FS_Singleton
<1>2. SumFunctionOnSet(f, {x}) = f[x] + SumFunctionOnSet(f, {x} \ {x})
  BY <1>1, SumRemove
<1> QED BY <1>1, <1>2, SumEmpty

(* Adding up is additive, monotone, and linear.                              *)
LEMMA SumAdds ==
    ASSUME NEW S, IsFiniteSet(S), NEW f, NEW g, NEW h,
           \A x \in S : f[x] \in Int /\ g[x] \in Int /\ h[x] = f[x] + g[x]
    PROVE  SumFunctionOnSet(h, S) = SumFunctionOnSet(f, S) + SumFunctionOnSet(g, S)
<1> DEFINE B == {T \in SUBSET S : SumFunctionOnSet(h, T) #
                   SumFunctionOnSet(f, T) + SumFunctionOnSet(g, T)}
<1>1. ASSUME NEW T \in B
      PROVE  \E U \in B : U \subseteq T /\ U # T
  <2>1. T # {}
    <3>1. SumFunctionOnSet(f, {}) = 0 /\ SumFunctionOnSet(g, {}) = 0 /\ SumFunctionOnSet(h, {}) = 0
      BY SumEmpty
    <3>2. SumFunctionOnSet(h, {}) = SumFunctionOnSet(f, {}) + SumFunctionOnSet(g, {})
      BY <3>1
    <3> QED BY <3>2
  <2>2. PICK x \in T : TRUE
    BY <2>1
  <2> DEFINE U == T \ {x}
  <2>3. IsFiniteSet(T) /\ IsFiniteSet(U) /\ \A y \in T : y \in S /\ h[y] \in Int
    BY FS_Subset
  <2>4. /\ SumFunctionOnSet(f, T) = f[x] + SumFunctionOnSet(f, U)
        /\ SumFunctionOnSet(g, T) = g[x] + SumFunctionOnSet(g, U)
        /\ SumFunctionOnSet(h, T) = h[x] + SumFunctionOnSet(h, U)
    BY <2>3, SumRemove
  <2>5. /\ SumFunctionOnSet(f, U) \in Int
        /\ SumFunctionOnSet(g, U) \in Int
    BY <2>3, SumInt
  <2>6. U \in B
    BY <2>2, <2>4, <2>5
  <2> QED BY <2>2, <2>6
<1>2. B \in SUBSET SUBSET S
  OBVIOUS
<1> HIDE DEF B
<1>3. B = {}
  BY <1>1, <1>2, NoSmallestCounterexample
<1> QED BY <1>3 DEF B

LEMMA SumMonotone ==
    ASSUME NEW S, IsFiniteSet(S), NEW f, NEW g,
           \A x \in S : f[x] \in Int /\ g[x] \in Int /\ f[x] <= g[x]
    PROVE  SumFunctionOnSet(f, S) <= SumFunctionOnSet(g, S)
<1> DEFINE B == {T \in SUBSET S :
                   ~(SumFunctionOnSet(f, T) <= SumFunctionOnSet(g, T))}
<1>1. ASSUME NEW T \in B
      PROVE  \E U \in B : U \subseteq T /\ U # T
  <2>1. T # {}
    BY SumEmpty
  <2>2. PICK x \in T : TRUE
    BY <2>1
  <2> DEFINE U == T \ {x}
  <2>3. IsFiniteSet(T) /\ IsFiniteSet(U) /\ \A y \in T : y \in S
    BY FS_Subset
  <2>4. /\ SumFunctionOnSet(f, T) = f[x] + SumFunctionOnSet(f, U)
        /\ SumFunctionOnSet(g, T) = g[x] + SumFunctionOnSet(g, U)
    BY <2>3, SumRemove
  <2>5. /\ SumFunctionOnSet(f, U) \in Int
        /\ SumFunctionOnSet(g, U) \in Int
    BY <2>3, SumInt
  <2>6. U \in B
    BY <2>2, <2>4, <2>5
  <2> QED BY <2>2, <2>6
<1>2. B \in SUBSET SUBSET S
  OBVIOUS
<1> HIDE DEF B
<1>3. B = {}
  BY <1>1, <1>2, NoSmallestCounterexample
<1> QED BY <1>3 DEF B

LEMMA SumScales ==
    ASSUME NEW S, IsFiniteSet(S), NEW c \in Int, NEW f, NEW h,
           \A x \in S : f[x] \in Int /\ h[x] = c * f[x]
    PROVE  SumFunctionOnSet(h, S) = c * SumFunctionOnSet(f, S)
<1> DEFINE B == {T \in SUBSET S :
                   SumFunctionOnSet(h, T) # c * SumFunctionOnSet(f, T)}
<1>1. ASSUME NEW T \in B
      PROVE  \E U \in B : U \subseteq T /\ U # T
  <2>1. T # {}
    <3>1. SumFunctionOnSet(f, {}) = 0 /\ SumFunctionOnSet(h, {}) = 0
      BY SumEmpty
    <3>2. SumFunctionOnSet(h, {}) = c * SumFunctionOnSet(f, {})
      BY <3>1
    <3> QED BY <3>2
  <2>2. PICK x \in T : TRUE
    BY <2>1
  <2> DEFINE U == T \ {x}
  <2>3. IsFiniteSet(T) /\ IsFiniteSet(U) /\ \A y \in T : y \in S /\ h[y] \in Int
    BY FS_Subset
  <2>4. /\ SumFunctionOnSet(f, T) = f[x] + SumFunctionOnSet(f, U)
        /\ SumFunctionOnSet(h, T) = h[x] + SumFunctionOnSet(h, U)
    BY <2>3, SumRemove
  <2>5. SumFunctionOnSet(f, U) \in Int /\ f[x] \in Int /\ h[x] = c * f[x]
    BY <2>3, SumInt
  <2>6. c * (f[x] + SumFunctionOnSet(f, U)) = c * f[x] + c * SumFunctionOnSet(f, U)
    BY <2>5
  <2>7. U \in B
    BY <2>2, <2>4, <2>5, <2>6
  <2> QED BY <2>2, <2>7
<1>2. B \in SUBSET SUBSET S
  OBVIOUS
<1> HIDE DEF B
<1>3. B = {}
  BY <1>1, <1>2, NoSmallestCounterexample
<1> QED BY <1>3 DEF B

(* A sum of natural numbers is none less than each of them.                  *)
LEMMA SumNat ==
    ASSUME NEW S, IsFiniteSet(S), NEW f, \A x \in S : f[x] \in Nat
    PROVE  /\ SumFunctionOnSet(f, S) \in Nat
           /\ \A x \in S : f[x] <= SumFunctionOnSet(f, S)
<1> DEFINE zero == [x \in S |-> 0]
<1>1. \A T \in SUBSET S : SumFunctionOnSet(zero, T) <= SumFunctionOnSet(f, T)
  BY FS_Subset, SumMonotone
<1>2. \A T \in SUBSET S : SumFunctionOnSet(zero, T) = 0 * SumFunctionOnSet(f, T)
  BY FS_Subset, SumScales
<1>3. \A T \in SUBSET S : IsFiniteSet(T) /\ SumFunctionOnSet(f, T) \in Int
  BY FS_Subset, SumInt
<1>4. \A T \in SUBSET S : SumFunctionOnSet(f, T) \in Nat
  BY <1>1, <1>2, <1>3
<1>5. \A x \in S : SumFunctionOnSet(f, S) = f[x] + SumFunctionOnSet(f, S \ {x})
  BY SumRemove
<1>6. \A x \in S : f[x] \in Nat /\ S \ {x} \in SUBSET S
  OBVIOUS
<1>7. \A x \in S : SumFunctionOnSet(f, S \ {x}) \in Nat
  BY <1>4, <1>6
<1>8. ASSUME NEW x \in S
      PROVE  f[x] <= SumFunctionOnSet(f, S)
  <2> DEFINE rest == SumFunctionOnSet(f, S \ {x})
  <2>1. f[x] \in Nat /\ rest \in Nat /\ SumFunctionOnSet(f, S) = f[x] + rest
    BY <1>5, <1>6, <1>7
  <2> HIDE DEF rest
  <2> QED BY <2>1
<1> QED BY <1>4, <1>8

(* Changing a function in one place changes its sum by the difference.       *)
LEMMA SumChange ==
    ASSUME NEW S, IsFiniteSet(S), NEW f, NEW g, NEW e \in S,
           \A x \in S : f[x] \in Int /\ g[x] \in Int,
           \A x \in S \ {e} : g[x] = f[x]
    PROVE  SumFunctionOnSet(g, S) = SumFunctionOnSet(f, S) - f[e] + g[e]
<1> DEFINE T == S \ {e}
<1>1. IsFiniteSet(T)
  BY FS_Subset
<1>2. SumFunctionOnSet(f, T) = SumFunctionOnSet(g, T) /\ SumFunctionOnSet(f, T) \in Int
  BY <1>1, SumSame, SumInt
<1>3. /\ SumFunctionOnSet(f, S) = f[e] + SumFunctionOnSet(f, T)
      /\ SumFunctionOnSet(g, S) = g[e] + SumFunctionOnSet(g, T)
  BY SumRemove
<1> QED BY <1>2, <1>3

(* Every value moves by the same multiple of b, one of them also by p.       *)
LEMMA SumGrown ==
    ASSUME NEW S, IsFiniteSet(S), NEW w, NEW b, NEW g, NEW e \in Int, NEW s \in S, NEW p \in Int,
           \A u \in S : /\ w[u] \in Int /\ b[u] \in Int
                        /\ g[u] = (w[u] + b[u] * e) - (IF u = s THEN p ELSE 0)
    PROVE  SumFunctionOnSet(g, S) =
             (SumFunctionOnSet(w, S) + e * SumFunctionOnSet(b, S)) - p
<1> DEFINE scaled == [u \in S |-> b[u] * e]
           both   == [u \in S |-> w[u] + b[u] * e]
<1>1. \A u \in S : /\ scaled[u] \in Int /\ scaled[u] = e * b[u]
                   /\ both[u] \in Int /\ both[u] = w[u] + scaled[u]
                   /\ g[u] \in Int
                   /\ g[u] = both[u] - (IF u = s THEN p ELSE 0)
  OBVIOUS
<1> HIDE DEF scaled, both
<1>2. SumFunctionOnSet(scaled, S) = e * SumFunctionOnSet(b, S)
  BY <1>1, SumScales
<1>3. SumFunctionOnSet(both, S) = SumFunctionOnSet(w, S) + SumFunctionOnSet(scaled, S)
  BY <1>1, SumAdds
<1>4. \A u \in S \ {s} : g[u] = both[u]
  BY <1>1
<1>5. SumFunctionOnSet(g, S) = SumFunctionOnSet(both, S) - both[s] + g[s]
  BY <1>1, <1>4, SumChange
<1>6. /\ SumFunctionOnSet(w, S) \in Int /\ SumFunctionOnSet(both, S) \in Int
      /\ SumFunctionOnSet(scaled, S) \in Int
  BY <1>1, SumInt
<1>7. both[s] \in Int /\ g[s] = both[s] - p
  BY <1>1
<1> QED BY <1>2, <1>3, <1>5, <1>6, <1>7

LEMMA SumZero ==
    ASSUME NEW S, IsFiniteSet(S), NEW f, \A x \in S : f[x] = 0
    PROVE  SumFunctionOnSet(f, S) = 0
<1>1. \A x \in S : f[x] \in Int /\ f[x] = 0 * f[x]
  OBVIOUS
<1>2. SumFunctionOnSet(f, S) = 0 * SumFunctionOnSet(f, S)
  BY <1>1, SumScales
<1>3. SumFunctionOnSet(f, S) \in Int
  BY <1>1, SumInt
<1> QED BY <1>2, <1>3

(* The elements outside D add nothing.                                       *)
LEMMA SumOfPart ==
    ASSUME NEW S, IsFiniteSet(S), NEW D \in SUBSET S, NEW f, NEW h,
           \A x \in S : f[x] \in Int /\ h[x] = IF x \in D THEN f[x] ELSE 0
    PROVE  SumFunctionOnSet(h, S) = SumFunctionOnSet(f, D)
<1> DEFINE B == {T \in SUBSET S :
                   SumFunctionOnSet(h, T) # SumFunctionOnSet(f, T \cap D)}
<1>1. ASSUME NEW T \in B
      PROVE  \E U \in B : U \subseteq T /\ U # T
  <2>1. T # {}
    <3>1. {} \cap D = {}
      OBVIOUS
    <3> QED BY <3>1, SumEmpty
  <2>2. PICK x \in T : TRUE
    BY <2>1
  <2> DEFINE U == T \ {x}
  <2>3. /\ IsFiniteSet(T) /\ IsFiniteSet(T \cap D) /\ IsFiniteSet(U \cap D)
        /\ \A y \in T : y \in S /\ h[y] \in Int
        /\ \A y \in T \cap D : f[y] \in Int
        /\ \A y \in U \cap D : f[y] \in Int
    BY FS_Subset
  <2>4. SumFunctionOnSet(h, T) = h[x] + SumFunctionOnSet(h, U)
    BY <2>3, SumRemove
  <2>5. SumFunctionOnSet(f, T \cap D) = h[x] + SumFunctionOnSet(f, U \cap D)
    <3>1. CASE x \in D
      <4>1. (T \cap D) \ {x} = U \cap D /\ x \in T \cap D
        BY <3>1
      <4>2. SumFunctionOnSet(f, T \cap D) = f[x] + SumFunctionOnSet(f, (T \cap D) \ {x})
        BY <2>3, <4>1, SumRemove
      <4>3. h[x] = f[x]
        BY <3>1
      <4> QED BY <4>1, <4>2, <4>3
    <3>2. CASE x \notin D
      <4>1. T \cap D = U \cap D /\ h[x] = 0
        BY <3>2
      <4>2. SumFunctionOnSet(f, U \cap D) \in Int
        BY <2>3, SumInt
      <4>3. SumFunctionOnSet(f, T \cap D) = SumFunctionOnSet(f, U \cap D)
        BY <4>1, Zenon
      <4> QED BY <4>1, <4>2, <4>3
    <3> QED BY <3>1, <3>2
  <2>6. U \in B
    BY <2>4, <2>5
  <2> QED BY <2>2, <2>6
<1>2. B \in SUBSET SUBSET S
  OBVIOUS
<1> HIDE DEF B
<1>3. B = {}
  BY <1>1, <1>2, NoSmallestCounterexample
<1>4. S \cap D = D
  OBVIOUS
<1> QED BY <1>3, <1>4 DEF B

(* A bound for each value bounds the sum.                                    *)
LEMMA SumBounded ==
    ASSUME NEW S, IsFiniteSet(S), NEW c \in Nat, NEW f, \A x \in S : f[x] \in Int /\ f[x] <= c
    PROVE  SumFunctionOnSet(f, S) <= Cardinality(S) * c
<1> DEFINE B == {T \in SUBSET S : ~(SumFunctionOnSet(f, T) <= Cardinality(T) * c)}
<1>1. ASSUME NEW T \in B
      PROVE  \E U \in B : U \subseteq T /\ U # T
  <2>1. T # {}
    <3>1. SumFunctionOnSet(f, {}) = 0 /\ Cardinality({}) = 0 /\ 0 * c = 0
      BY SumEmpty, FS_EmptySet
    <3>2. SumFunctionOnSet(f, {}) <= Cardinality({}) * c
      BY <3>1
    <3> QED BY <3>2
  <2>2. PICK x \in T : TRUE
    BY <2>1
  <2> DEFINE U == T \ {x}
  <2>3. IsFiniteSet(T) /\ IsFiniteSet(U) /\ \A y \in T : f[y] \in Int /\ f[y] <= c
    BY FS_Subset
  <2>4. SumFunctionOnSet(f, T) = f[x] + SumFunctionOnSet(f, U)
    BY <2>3, SumRemove
  <2>5. SumFunctionOnSet(f, U) \in Int
    BY <2>3, SumInt
  <2>6. Cardinality(U) \in Nat /\ Cardinality(T) = Cardinality(U) + 1
    <3>1. Cardinality(T) \in Nat /\ Cardinality(T) # 0
      BY <2>1, <2>3, FS_CardinalityType, FS_EmptySet
    <3>2. Cardinality(U) = Cardinality(T) - 1
      BY <2>3, FS_RemoveElement
    <3> QED BY <3>1, <3>2
  <2>7. Cardinality(T) * c = Cardinality(U) * c + c /\ Cardinality(U) * c \in Int
    BY <2>6
  <2>8. f[x] \in Int /\ f[x] <= c
    BY <2>3
  <2>9. U \in B
    <3> DEFINE n == Cardinality(U) * c
    <3> HIDE DEF U
    <3>1. ~(SumFunctionOnSet(f, T) <= n + c) /\ n \in Int
      BY <2>7
    <3>2. ~(SumFunctionOnSet(f, U) <= n)
      <4> HIDE DEF n
      <4> QED BY <2>4, <2>5, <2>8, <3>1
    <3> QED BY <3>2 DEF U
  <2> QED BY <2>2, <2>9
<1>2. B \in SUBSET SUBSET S
  OBVIOUS
<1> HIDE DEF B
<1>3. B = {}
  BY <1>1, <1>2, NoSmallestCounterexample
<1> QED BY <1>3 DEF B

(* A sum of sums may be added up in either order: f is a table by rows, g    *)
(* the same by columns, and both are added up.                               *)
Tabulated(S, R, f, g, rows, columns) ==
    /\ \A x \in S, y \in R : f[x][y] \in Int /\ g[y][x] = f[x][y]
    /\ \A x \in S : rows[x] = SumFunctionOnSet(f[x], R)
    /\ \A y \in R : columns[y] = SumFunctionOnSet(g[y], S)

LEMMA SumSwap ==
    ASSUME NEW S, IsFiniteSet(S), NEW R, IsFiniteSet(R), NEW f, NEW g, NEW rows, NEW columns,
           Tabulated(S, R, f, g, rows, columns)
    PROVE  SumFunctionOnSet(rows, S) = SumFunctionOnSet(columns, R)
<1> USE DEF Tabulated
<1> DEFINE Column(T) == [y \in R |-> SumFunctionOnSet(g[y], T)]
           Total(T) == SumFunctionOnSet(Column(T), R)
           B == {T \in SUBSET S : SumFunctionOnSet(rows, T) # Total(T)}
<1>1. \A T \in SUBSET S : IsFiniteSet(T)
  BY FS_Subset
<1>2. \A T \in SUBSET S : \A y \in R : Column(T)[y] \in Int
  <2> TAKE T \in SUBSET S
  <2> TAKE y \in R
  <2>1. \A x \in T : g[y][x] \in Int
    OBVIOUS
  <2>2. SumFunctionOnSet(g[y], T) \in Int
    BY <1>1, <2>1, SumInt
  <2> QED BY <2>2
<1>3. \A x \in S : rows[x] \in Int
  <2> TAKE x \in S
  <2>1. \A y \in R : f[x][y] \in Int
    OBVIOUS
  <2>2. SumFunctionOnSet(f[x], R) \in Int
    BY <2>1, SumInt
  <2> QED BY <2>2
<1>4. ASSUME NEW T \in B
      PROVE  \E U \in B : U \subseteq T /\ U # T
  <2>1. T # {}
    <3>1. \A y \in R : Column({})[y] = 0
      BY SumEmpty
    <3>2. Total({}) = 0
      <4> HIDE DEF Column
      <4> QED BY <3>1, SumZero
    <3> HIDE DEF Total
    <3> QED BY <3>2, SumEmpty
  <2>2. PICK e \in T : TRUE
    BY <2>1
  <2> DEFINE U == T \ {e}
             row == f[e]
  <2>3. U \in SUBSET S /\ T \in SUBSET S /\ e \in S
    BY <2>2
  <2>4. SumFunctionOnSet(rows, T) = rows[e] + SumFunctionOnSet(rows, U)
    <3>1. IsFiniteSet(T) /\ \A x \in T : rows[x] \in Int
      BY <1>1, <1>3
    <3> QED BY <2>2, <3>1, SumRemove
  <2>5. \A y \in R : row[y] \in Int /\ Column(T)[y] = row[y] + Column(U)[y]
    <3> TAKE y \in R
    <3>1. /\ IsFiniteSet(T) /\ (\A x \in T : g[y][x] \in Int)
          /\ g[y][e] = row[y] /\ row[y] \in Int
      BY <1>1, <2>3
    <3>2. SumFunctionOnSet(g[y], T) = g[y][e] + SumFunctionOnSet(g[y], U)
      BY <2>2, <3>1, SumRemove
    <3> QED BY <3>1, <3>2
  <2>6. Total(T) = SumFunctionOnSet(row, R) + Total(U)
    <3>1. \A y \in R : Column(U)[y] \in Int
      BY <1>2, <2>3
    <3> HIDE DEF Column, row, U
    <3>2. SumFunctionOnSet(Column(T), R) =
            SumFunctionOnSet(row, R) + SumFunctionOnSet(Column(U), R)
      BY <2>5, <3>1, SumAdds
    <3> QED BY <3>2
  <2>7. rows[e] = SumFunctionOnSet(row, R)
    BY <2>3
  <2>8. SumFunctionOnSet(rows, U) # Total(U)
    <3> HIDE DEF Total, row, U
    <3> QED BY <2>4, <2>6, <2>7
  <2> HIDE DEF Total
  <2> QED BY <2>2, <2>3, <2>8
<1>5. B \in SUBSET SUBSET S
  OBVIOUS
<1> HIDE DEF B
<1>6. B = {}
  BY <1>4, <1>5, NoSmallestCounterexample
<1>7. SumFunctionOnSet(rows, S) = Total(S)
  <2> HIDE DEF Total
  <2> QED BY <1>6 DEF B
<1>8. \A y \in R : columns[y] = Column(S)[y]
  OBVIOUS
<1>9. SumFunctionOnSet(columns, R) = Total(S)
  <2> HIDE DEF Column
  <2> QED BY <1>8, SumSame
<1> QED BY <1>7, <1>9

=============================================================================
