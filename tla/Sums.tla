-------------------------------- MODULE Sums --------------------------------
(***************************************************************************)
(* Sums over finite sets, for the invariants that account for money.       *)
(*                                                                         *)
(* MapThenSumSet of FiniteSetsExt folds over the subsets of a set, each    *)
(* time taking away the element CHOOSE gives.  Sum is the same fold of a   *)
(* function; SumUnfolds justifies its recursive definition, and the        *)
(* lemmas after it say what the proofs need: a sum is a number, it moves   *)
(* with one summand by what that summand moves, it is no less than any of  *)
(* them when they are natural, and summands that are 0 add up to 0.        *)
(*                                                                         *)
(* Induction is by minimal counterexample: a nonempty set of subsets of a  *)
(* finite set has a smallest element.                                      *)
(***************************************************************************)
EXTENDS Integers, FiniteSets, FiniteSetsExt, FiniteSetTheorems, WellFoundedInduction, TLAPS

Pick(s) == CHOOSE x \in s : TRUE

\* t holds the sums of f over every subset of S.
IsTable(f, S, t) ==
    t = [s \in SUBSET S |-> IF s = {} THEN 0 ELSE f[Pick(s)] + t[s \ {Pick(s)}]]

Table(f, S) == CHOOSE t : IsTable(f, S, t)

Sum(f, S) == Table(f, S)[S]

LEMMA PickIn == \A s : s # {} => Pick(s) \in s
BY DEF Pick

\* A nonempty set of subsets of a finite set has a smallest element.
LEMMA Smallest ==
    ASSUME NEW S, IsFiniteSet(S), NEW T, T \subseteq SUBSET S, T # {}
    PROVE  \E s \in T : \A u \in T : u \subseteq s => u = s
<1>1. IsWellFoundedOn(StrictSubsetOrdering(S), SUBSET S)
  BY FS_StrictSubsetOrderingWellFounded, FS_FiniteSubsetsOfFinite
<1>2. PICK s \in T : \A u \in T : ~(<<u, s>> \in StrictSubsetOrdering(S))
  BY <1>1, WFMin
<1>3. QED
  BY <1>2 DEF StrictSubsetOrdering

\* Two tables agree wherever both are defined.
LEMMA TablesAgree ==
    ASSUME NEW S, IsFiniteSet(S), NEW T, NEW f, NEW t, NEW v, NEW u,
           IsTable(f, S, t), IsTable(f, T, v), u \subseteq S, u \subseteq T
    PROVE  t[u] = v[u]
<1> DEFINE Bad == {s \in SUBSET u : t[s] # v[s]}
<1>1. SUFFICES ASSUME Bad # {} PROVE FALSE
  BY <1>1
<1>2. PICK s \in Bad : \A w \in Bad : w \subseteq s => w = s
  <2>1. Bad \subseteq SUBSET u /\ IsFiniteSet(u)
    BY FS_Subset
  <2> HIDE DEF Bad
  <2>2. QED
    BY <1>1, <2>1, Smallest
<1>3. t[s] = IF s = {} THEN 0 ELSE f[Pick(s)] + t[s \ {Pick(s)}]
  BY DEF IsTable
<1>4. v[s] = IF s = {} THEN 0 ELSE f[Pick(s)] + v[s \ {Pick(s)}]
  BY DEF IsTable
<1>5. s # {}
  BY <1>3, <1>4
<1>6. s \ {Pick(s)} # s /\ s \ {Pick(s)} \subseteq s
  BY <1>5, PickIn
<1>7. t[s \ {Pick(s)}] = v[s \ {Pick(s)}]
  BY <1>2, <1>6
<1>8. QED
  BY <1>3, <1>4, <1>5, <1>7

\* Every finite set has a table, so that Table is one.
LEMMA TableExists ==
    ASSUME NEW S, IsFiniteSet(S), NEW f
    PROVE  IsTable(f, S, Table(f, S))
<1> DEFINE Has(s) == \E t : IsTable(f, s, t)
           Bad == {s \in SUBSET S : ~Has(s)}
<1>1. SUFFICES ASSUME Bad # {} PROVE FALSE
  BY DEF Table
<1>2. PICK s \in Bad : \A w \in Bad : w \subseteq s => w = s
  <2>1. Bad \subseteq SUBSET S
    OBVIOUS
  <2> HIDE DEF Bad
  <2>2. QED
    BY <1>1, <2>1, Smallest
<1>3. \A w \in SUBSET s : w # s => IsTable(f, w, Table(f, w))
  BY <1>2 DEF Table
<1> DEFINE rest(w) == w \ {Pick(w)}
           value(w) == IF w = {} THEN 0 ELSE f[Pick(w)] + Sum(f, rest(w))
           t == [w \in SUBSET s |-> value(w)]
<1>4. ASSUME NEW w \in SUBSET s, w # s PROVE t[w] = Sum(f, w)
  <2>1. CASE w = {}
    BY <1>3, <1>4, <2>1 DEF IsTable, Sum
  <2>2. CASE w # {}
    <3>1. rest(w) \subseteq w /\ rest(w) # s /\ rest(w) \in SUBSET s
      BY <1>4
    <3>2. IsTable(f, w, Table(f, w)) /\ IsTable(f, rest(w), Table(f, rest(w)))
      BY <1>3, <1>4, <3>1
    <3>3. IsFiniteSet(w)
      BY FS_Subset
    <3>4. Table(f, w)[rest(w)] = Table(f, rest(w))[rest(w)]
      BY <3>1, <3>2, <3>3, TablesAgree
    <3>5. Table(f, w)[w] = f[Pick(w)] + Table(f, w)[rest(w)]
      BY <3>2, <2>2 DEF IsTable
    <3>6. QED
      BY <3>4, <3>5, <2>2 DEF Sum
  <2>3. QED
    BY <2>1, <2>2
<1>5. ASSUME NEW w \in SUBSET s
      PROVE  t[w] = IF w = {} THEN 0 ELSE f[Pick(w)] + t[w \ {Pick(w)}]
  <2>1. CASE w = {}
    BY <2>1
  <2>2. CASE w # {}
    <3>1. rest(w) \in SUBSET s /\ rest(w) # s
      BY <2>2, PickIn
    <3>2. t[rest(w)] = Sum(f, rest(w))
      BY <1>4, <3>1
    <3>3. QED
      BY <3>2, <2>2
  <2>3. QED
    BY <2>1, <2>2
<1>6. IsTable(f, s, t)
  <2>1. t = [w \in SUBSET s |-> IF w = {} THEN 0 ELSE f[Pick(w)] + t[w \ {Pick(w)}]]
    BY <1>5
  <2>2. QED
    BY <2>1 DEF IsTable
<1>7. QED
  BY <1>2, <1>6

\* The recursive definition of a sum.
LEMMA SumUnfolds ==
    ASSUME NEW S, IsFiniteSet(S), NEW f
    PROVE  Sum(f, S) = IF S = {} THEN 0 ELSE f[Pick(S)] + Sum(f, S \ {Pick(S)})
<1>1. IsTable(f, S, Table(f, S))
  BY TableExists
<1>2. CASE S = {}
  BY <1>1, <1>2 DEF IsTable, Sum
<1>3. CASE S # {}
  <2> DEFINE rest == S \ {Pick(S)}
  <2>1. IsFiniteSet(rest) /\ rest \subseteq S
    BY FS_Subset
  <2>2. IsTable(f, rest, Table(f, rest))
    BY <2>1, TableExists
  <2>3. Table(f, S)[rest] = Table(f, rest)[rest]
    BY <1>1, <2>1, <2>2, TablesAgree
  <2>4. Table(f, S)[S] = f[Pick(S)] + Table(f, S)[rest]
    BY <1>1, <1>3 DEF IsTable
  <2>5. QED
    BY <2>3, <2>4, <1>3 DEF Sum
<1>4. QED
  BY <1>2, <1>3

\* A sum of numbers is a number.
LEMMA SumIsInt ==
    ASSUME NEW S, IsFiniteSet(S), NEW f, \A x \in S : f[x] \in Int
    PROVE  Sum(f, S) \in Int
<1> DEFINE Bad == {s \in SUBSET S : Sum(f, s) \notin Int}
<1>1. SUFFICES ASSUME Bad # {} PROVE FALSE
  BY <1>1
<1>2. PICK s \in Bad : \A w \in Bad : w \subseteq s => w = s
  <2>1. Bad \subseteq SUBSET S
    OBVIOUS
  <2> HIDE DEF Bad
  <2>2. QED
    BY <1>1, <2>1, Smallest
<1>3. IsFiniteSet(s)
  BY FS_Subset
<1>4. CASE s = {}
  <2>1. Sum(f, s) = 0
    BY <1>3, <1>4, SumUnfolds
  <2>2. QED
    BY <1>2, <2>1
<1>5. CASE s # {}
  <2>1. Pick(s) \in s
    BY <1>5, PickIn
  <2>2. Sum(f, s \ {Pick(s)}) \in Int
    BY <1>2, <2>1
  <2>3. Sum(f, s) = f[Pick(s)] + Sum(f, s \ {Pick(s)})
    BY <1>3, <1>5, SumUnfolds
  <2>4. QED
    BY <1>2, <2>1, <2>2, <2>3
<1>6. QED
  BY <1>4, <1>5

\* Equal summands add up to the same.
LEMMA SumAgrees ==
    ASSUME NEW S, IsFiniteSet(S), NEW f, NEW g, \A x \in S : f[x] = g[x]
    PROVE  Sum(f, S) = Sum(g, S)
<1> DEFINE Bad == {s \in SUBSET S : Sum(f, s) # Sum(g, s)}
<1>1. SUFFICES ASSUME Bad # {} PROVE FALSE
  BY <1>1
<1>2. PICK s \in Bad : \A w \in Bad : w \subseteq s => w = s
  <2>1. Bad \subseteq SUBSET S
    OBVIOUS
  <2> HIDE DEF Bad
  <2>2. QED
    BY <1>1, <2>1, Smallest
<1>3. IsFiniteSet(s)
  BY FS_Subset
<1>4. CASE s = {}
  BY <1>2, <1>3, <1>4, SumUnfolds
<1>5. CASE s # {}
  <2>1. Pick(s) \in s
    BY <1>5, PickIn
  <2>2. Sum(f, s \ {Pick(s)}) = Sum(g, s \ {Pick(s)})
    BY <1>2, <2>1
  <2>3. QED
    BY <1>2, <1>3, <1>5, <2>1, <2>2, SumUnfolds
<1>6. QED
  BY <1>4, <1>5

\* When one summand changes, the sum changes by as much.
LEMMA SumMoves ==
    ASSUME NEW S, IsFiniteSet(S), NEW f, NEW g, NEW o \in S,
           \A x \in S : f[x] \in Int /\ g[x] \in Int, \A x \in S \ {o} : f[x] = g[x]
    PROVE  Sum(g, S) = Sum(f, S) + (g[o] - f[o])
<1> DEFINE Bad == {s \in SUBSET S : o \in s /\ Sum(g, s) # Sum(f, s) + (g[o] - f[o])}
<1>1. SUFFICES ASSUME Bad # {} PROVE FALSE
  BY <1>1
<1>2. PICK s \in Bad : \A w \in Bad : w \subseteq s => w = s
  <2>1. Bad \subseteq SUBSET S
    OBVIOUS
  <2> HIDE DEF Bad
  <2>2. QED
    BY <1>1, <2>1, Smallest
<1> DEFINE x == Pick(s)
           rest == s \ {x}
<1>3. IsFiniteSet(s) /\ IsFiniteSet(rest) /\ x \in s
  BY FS_Subset, PickIn
<1>4. Sum(f, s) = f[x] + Sum(f, rest) /\ Sum(g, s) = g[x] + Sum(g, rest)
  BY <1>3, SumUnfolds
<1>5. Sum(f, rest) \in Int /\ Sum(g, rest) \in Int
  BY <1>3, SumIsInt
<1>6. CASE x = o
  <2>1. Sum(f, rest) = Sum(g, rest)
    BY <1>3, <1>6, SumAgrees
  <2>2. QED
    BY <1>2, <1>3, <1>4, <1>5, <1>6, <2>1
<1>7. CASE x # o
  <2>1. o \in rest /\ rest # s /\ rest \subseteq s
    BY <1>2, <1>3, <1>7
  <2>2. Sum(g, rest) = Sum(f, rest) + (g[o] - f[o])
    BY <1>2, <2>1
  <2>3. f[x] = g[x]
    BY <1>3, <1>7
  <2>4. QED
    BY <1>2, <1>3, <1>4, <1>5, <2>2, <2>3
<1>8. QED
  BY <1>6, <1>7

\* A sum of zeros.
LEMMA SumOfZeros ==
    ASSUME NEW S, IsFiniteSet(S), NEW f, \A x \in S : f[x] = 0
    PROVE  Sum(f, S) = 0
<1> DEFINE Bad == {s \in SUBSET S : Sum(f, s) # 0}
<1>1. SUFFICES ASSUME Bad # {} PROVE FALSE
  BY <1>1
<1>2. PICK s \in Bad : \A w \in Bad : w \subseteq s => w = s
  <2>1. Bad \subseteq SUBSET S
    OBVIOUS
  <2> HIDE DEF Bad
  <2>2. QED
    BY <1>1, <2>1, Smallest
<1>3. IsFiniteSet(s)
  BY FS_Subset
<1>4. CASE s = {}
  BY <1>2, <1>3, <1>4, SumUnfolds
<1>5. CASE s # {}
  <2>1. Pick(s) \in s
    BY <1>5, PickIn
  <2>2. Sum(f, s \ {Pick(s)}) = 0
    BY <1>2, <2>1
  <2>3. Sum(f, s) = f[Pick(s)] + Sum(f, s \ {Pick(s)})
    BY <1>3, <1>5, SumUnfolds
  <2>4. f[Pick(s)] = 0
    BY <2>1
  <2>5. QED
    BY <1>2, <2>2, <2>3, <2>4
<1>6. QED
  BY <1>4, <1>5

\* A sum of natural numbers is no less than any of them.
LEMMA SumCovers ==
    ASSUME NEW S, IsFiniteSet(S), NEW f, \A x \in S : f[x] \in Nat
    PROVE  Sum(f, S) \in Nat /\ \A o \in S : f[o] <= Sum(f, S)
<1> DEFINE Covers(s) == Sum(f, s) \in Nat /\ \A o \in s : f[o] <= Sum(f, s)
           Bad == {s \in SUBSET S : ~Covers(s)}
<1>1. SUFFICES ASSUME Bad # {} PROVE FALSE
  BY <1>1
<1>2. PICK s \in Bad : \A w \in Bad : w \subseteq s => w = s
  <2>1. Bad \subseteq SUBSET S
    OBVIOUS
  <2> HIDE DEF Bad
  <2>2. QED
    BY <1>1, <2>1, Smallest
<1>3. IsFiniteSet(s)
  BY FS_Subset
<1>4. CASE s = {}
  <2>1. Sum(f, s) = 0
    BY <1>3, <1>4, SumUnfolds
  <2>2. QED
    BY <1>2, <1>4, <2>1
<1>5. CASE s # {}
  <2> DEFINE x == Pick(s)
             rest == s \ {x}
  <2>1. x \in s
    BY <1>5, PickIn
  <2>2. Covers(rest)
    BY <1>2, <2>1
  <2>3. Sum(f, s) = f[x] + Sum(f, rest)
    BY <1>3, <1>5, SumUnfolds
  <2>4. f[x] \in Nat
    BY <2>1
  <2>5. ASSUME NEW o \in s PROVE f[o] <= Sum(f, s)
    <3>1. CASE o = x
      BY <3>1, <2>2, <2>3, <2>4
    <3>2. CASE o # x
      <4>1. f[o] \in Nat /\ f[o] <= Sum(f, rest) /\ Sum(f, rest) \in Nat
        BY <3>2, <2>2
      <4>2. QED
        BY <4>1, <2>3, <2>4
    <3>3. QED
      BY <3>1, <3>2
  <2>6. Sum(f, s) \in Nat
    BY <2>2, <2>3, <2>4
  <2>7. QED
    BY <1>2, <2>5, <2>6
<1>6. QED
  BY <1>4, <1>5
=============================================================================
