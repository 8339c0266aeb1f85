-------------------------- MODULE ArithmeticProofs --------------------------
(***************************************************************************)
(* Arithmetic that the proofs need, whatever the constants of the modules  *)
(* they are about: rounding, a tax that is taken off an amount, and sums   *)
(* over finite sets.                                                       *)
(***************************************************************************)
EXTENDS FiniteSetsExt, FiniteSetTheorems, TLAPS

-----------------------------------------------------------------------------
(* Division and products. *)

\* Division of naturals rounds down.
LEMMA DivBounds ==
  ASSUME NEW x \in Nat, NEW d \in Nat \ {0}
  PROVE  /\ x \div d \in Nat
         /\ d * (x \div d) <= x
         /\ x < d * (x \div d) + d
  OBVIOUS

\* Amounts and Decimals multiply to naturals.
LEMMA ProductNat ==
  ASSUME NEW x \in Nat, NEW y \in Nat
  PROVE  x * y \in Nat
  OBVIOUS

\* A product grows with its factor.
LEMMA ProductMonotone ==
  ASSUME NEW x \in Int, NEW y \in Int, NEW k \in Nat, x <= y
  PROVE  k * x <= k * y
  OBVIOUS

\* A common positive factor can be cancelled.
LEMMA CancelFactor ==
  ASSUME NEW x \in Int, NEW y \in Int, NEW k \in Nat \ {0}, k * x <= k * y
  PROVE  x <= y
  OBVIOUS

\* x times d / s, rounded down: an amount again, and no more than x when d / s
\* is at most one.
LEMMA RoundedProduct ==
  ASSUME NEW x \in Nat, NEW d \in Nat, NEW s \in Nat \ {0}
  PROVE  /\ (x * d) \div s \in Nat
         /\ s * ((x * d) \div s) <= x * d
         /\ x * d < s * ((x * d) \div s) + s
         /\ d <= s => (x * d) \div s <= x
<1> DEFINE q == (x * d) \div s
<1>1. x * d \in Nat
  BY ProductNat
<1>2. q \in Nat /\ s * q <= x * d /\ x * d < s * q + s
  BY <1>1, DivBounds
<1> HIDE DEF q
<1>3. ASSUME d <= s PROVE q <= x
  <2>1. x * d <= x * s
    BY <1>3, ProductMonotone
  <2>2. s * q <= s * x
    BY <1>1, <1>2, <2>1
  <2> QED
    BY <1>2, <2>2, CancelFactor
<1> QED
  BY <1>2, <1>3 DEF q

-----------------------------------------------------------------------------
(* A tax on top of an amount, of rate r / s and at most c. *)

AtMost(x, c) == IF x <= c THEN x ELSE c

\* What the amount x costs with the tax on it.
Taxed(x, r, c, s) == x + AtMost((x * r) \div s, c)

\* What is left of g when the tax on the rest has to be paid from it.
Net(g, r, s) == (g * s) \div (r + s)
Untaxed(g, r, c, s) == g - AtMost(g - Net(g, r, s), c)

\* Net is g, divided by one plus the rate and rounded down.
LEMMA NetBounds ==
  ASSUME NEW g \in Nat, NEW r \in Nat, NEW s \in Nat \ {0}
  PROVE  /\ Net(g, r, s) \in Nat /\ Net(g, r, s) <= g
         /\ (r + s) * Net(g, r, s) <= g * s
         /\ g * s < (r + s) * Net(g, r, s) + (r + s)
<1>1. r + s \in Nat \ {0} /\ s <= r + s
  OBVIOUS
<1> QED
  BY <1>1, RoundedProduct DEF Net

\* The tax that is taken off is never more than the amount.
LEMMA UntaxedBounds ==
  ASSUME NEW g \in Nat, NEW r \in Nat, NEW c \in Nat, NEW s \in Nat \ {0}
  PROVE  /\ AtMost(g - Net(g, r, s), c) \in Nat
         /\ Untaxed(g, r, c, s) \in Nat /\ Untaxed(g, r, c, s) <= g
         /\ Net(g, r, s) <= Untaxed(g, r, c, s) /\ g <= Untaxed(g, r, c, s) + c
<1>1. Net(g, r, s) \in Nat /\ Net(g, r, s) <= g
  BY NetBounds
<1> QED
  BY <1>1 DEF AtMost, Untaxed

\* What is left of g costs, taxed, at most g.
LEMMA UntaxedIsCovered ==
  ASSUME NEW g \in Nat, NEW r \in Nat, NEW c \in Nat, NEW s \in Nat \ {0}
  PROVE  /\ Taxed(Untaxed(g, r, c, s), r, c, s) \in Nat
         /\ Taxed(Untaxed(g, r, c, s), r, c, s) <= g
<1> DEFINE d == Untaxed(g, r, c, s)
           n == Net(g, r, s)
           t == (d * r) \div s
<1>1. d \in Nat /\ d <= g /\ d = g - AtMost(g - n, c)
  BY UntaxedBounds DEF Untaxed
<1>2. t \in Nat /\ s * t <= d * r
  BY <1>1, RoundedProduct
<1>3. Taxed(d, r, c, s) = d + AtMost(t, c)
  BY DEF Taxed
<1>4. n \in Nat /\ n <= g /\ (r + s) * n <= g * s
  BY NetBounds
<1> HIDE DEF d, n, t
<1>5. CASE g - n <= c
  <2>1. d = n
    BY <1>1, <1>4, <1>5 DEF AtMost
  <2>2. s * t <= s * (g - d)
    <3>1. r * d + s * d <= g * s
      BY <1>1, <1>4, <2>1
    <3>2. s * t <= s * g - s * d
      BY <1>1, <1>2, <3>1
    <3> QED
      BY <1>1, <3>2
  <2>3. t <= g - d
    BY <1>1, <1>2, <2>2, CancelFactor
  <2> QED
    BY <1>1, <1>2, <1>3, <2>3 DEF d, AtMost
<1>6. CASE c < g - n
  <2>1. d = g - c
    BY <1>1, <1>4, <1>6 DEF AtMost
  <2> QED
    BY <1>1, <1>2, <1>3, <2>1 DEF d, AtMost
<1> QED
  BY <1>1, <1>4, <1>5, <1>6

\* Two units more would cost more than g.
LEMMA UntaxedIsTight ==
  ASSUME NEW g \in Nat, NEW r \in Nat, NEW c \in Nat, NEW s \in Nat \ {0}
  PROVE  Taxed(Untaxed(g, r, c, s) + 2, r, c, s) > g
<1> DEFINE d == Untaxed(g, r, c, s)
           n == Net(g, r, s)
           t == ((d + 2) * r) \div s
<1>1. d \in Nat /\ d + 2 \in Nat /\ n <= d /\ g <= d + c
  <2>1. d \in Nat /\ n <= d /\ g <= d + c
    BY UntaxedBounds
  <2> HIDE DEF d
  <2> QED
    BY <2>1
<1>2. t \in Nat /\ (d + 2) * r < s * t + s
  BY <1>1, RoundedProduct
<1>3. Taxed(d + 2, r, c, s) = d + 2 + AtMost(t, c)
  BY DEF Taxed
<1>4. n \in Nat /\ g * s < (r + s) * n + (r + s)
  BY NetBounds
<1> HIDE DEF d, n, t
<1>5. CASE c < t
  BY <1>1, <1>2, <1>3, <1>5 DEF d, AtMost
<1>6. CASE t <= c
  <2>1. (r + s) * n <= (r + s) * d
    BY <1>1, <1>4, ProductMonotone
  <2>2. (r + s) * d = r * d + s * d
    BY <1>1
  <2>3. (d + 2) * r = r * d + 2 * r
    BY <1>1
  <2>4. r * d \in Nat /\ s * d \in Nat /\ s * t \in Nat /\ g * s \in Nat
        /\ (r + s) * n \in Nat
    BY <1>1, <1>2, <1>4, ProductNat
  <2>5. g * s < s * d + s * t + 2 * s
    BY <1>2, <1>4, <2>1, <2>2, <2>3, <2>4
  <2>6. s * g < s * (d + t + 2)
    BY <1>1, <1>2, <2>5
  <2>7. g < d + t + 2
    <3>1. SUFFICES ASSUME d + t + 2 <= g PROVE FALSE
      BY <1>1, <1>2
    <3>2. d + t + 2 \in Int /\ g \in Int
      BY <1>1, <1>2
    <3>3. s * (d + t + 2) <= s * g
      BY <3>1, <3>2, ProductMonotone
    <3>4. s * (d + t + 2) \in Int /\ s * g \in Int
      BY <3>2
    <3> QED
      BY <2>6, <3>3, <3>4
  <2> QED
    BY <1>1, <1>2, <1>3, <1>6, <2>7 DEF d, AtMost
<1> QED
  BY <1>2, <1>5, <1>6

\* With a rate of zero nothing is taken off, and nothing is due.
LEMMA NoTaxIsFree ==
  ASSUME NEW g \in Nat, NEW c \in Nat, NEW s \in Nat \ {0}
  PROVE  Taxed(Untaxed(g, 0, c, s), 0, c, s) = g
<1>1. Net(g, 0, s) = g
  <2> DEFINE n == Net(g, 0, s)
  <2>1. n \in Nat /\ n <= g /\ g * s < (0 + s) * n + (0 + s)
    BY NetBounds
  <2> HIDE DEF n
  <2>2. SUFFICES ASSUME n + 1 <= g PROVE FALSE
    BY <2>1 DEF n
  <2>3. s * (n + 1) <= s * g
    BY <2>1, <2>2, ProductMonotone
  <2>4. s * n \in Nat /\ s * (n + 1) = s * n + s /\ s * g = g * s /\ g * s \in Nat
    BY <2>1
  <2>5. (0 + s) * n = s * n
    BY <2>1
  <2> QED
    BY <2>1, <2>3, <2>4, <2>5
<1>2. Untaxed(g, 0, c, s) = g
  BY <1>1 DEF Untaxed, AtMost
<1>3. (g * 0) \div s = 0
  <2>1. g * 0 = 0
    OBVIOUS
  <2>2. 0 \div s = 0
    BY DivBounds
  <2> QED
    BY <2>1, <2>2
<1> QED
  BY <1>2, <1>3 DEF Taxed, AtMost

-----------------------------------------------------------------------------
(* Induction, in a form without operator parameters. *)

\* A set of naturals that is not empty has a least element.
LEMMA LeastElement ==
  ASSUME NEW T \in SUBSET Nat, T # {}
  PROVE  \E n \in T : \A m \in T : n <= m
<1> DEFINE R == OpToRel(<, Nat)
<1>1. IsWellFoundedOn(R, Nat)
  BY NatLessThanWellFounded
<1>2. \A n, m \in Nat : m < n => << m, n >> \in R
  BY DEF OpToRel
<1> HIDE DEF R
<1>3. PICK n \in T : \A m \in T : ~(<< m, n >> \in R)
  BY <1>1, WFMin
<1>4. ASSUME NEW m \in T PROVE n <= m
  <2>1. m \in Nat /\ n \in Nat /\ ~(m < n)
    BY <1>2, <1>3
  <2> QED
    BY <2>1
<1> QED
  BY <1>4

\* A set of naturals with 0 and the successors of its elements has them all.
LEMMA InductionOnNat ==
  ASSUME NEW T \in SUBSET Nat, 0 \in T, \A n \in T : n + 1 \in T
  PROVE  T = Nat
<1> SUFFICES ASSUME Nat \ T # {} PROVE FALSE
  OBVIOUS
<1>1. PICK n \in Nat \ T : \A m \in Nat \ T : n <= m
  BY LeastElement
<1>2. n # 0 /\ n - 1 \in Nat
  BY <1>1
<1>3. n - 1 \in T
  BY <1>1, <1>2
<1>4. (n - 1) + 1 \in T
  BY <1>3
<1> QED
  BY <1>1, <1>2, <1>4

-----------------------------------------------------------------------------
(* The table of partial sums that the definition of a fold chooses. *)

Pick(s) == CHOOSE x \in s : TRUE

\* g holds the sum of f over every subset of S, taken in the order of Pick.
SumTable(g, f, S) ==
  g = [s \in SUBSET S |-> IF s = {} THEN 0 ELSE f[Pick(s)] + g[s \ {Pick(s)}]]

\* SumFunctionOnSet looks its result up in such a table.
LEMMA SumFromTable ==
  ASSUME NEW f, NEW S
  PROVE  SumFunctionOnSet(f, S) = (CHOOSE g : SumTable(g, f, S))[S]
  BY DEF SumFunctionOnSet, FoldFunctionOnSet, MapThenFoldSet, SumTable, Pick

\* There is an element to pick from every set that is not empty.
LEMMA PickElement ==
  ASSUME NEW s, s # {}
  PROVE  Pick(s) \in s
  BY DEF Pick

\* The subsets of S with at most n elements.
Layer(S, n) == {s \in SUBSET S : Cardinality(s) <= n}

\* A finite set has a table of sums: it is built up layer by layer.
LEMMA SumTableExists ==
  ASSUME NEW f, NEW S, IsFiniteSet(S)
  PROVE  \E g : SumTable(g, f, S)
<1> DEFINE Entry(g, s) == IF s = {} THEN 0 ELSE f[Pick(s)] + g[s \ {Pick(s)}]
           Table(g, n) == g = [s \in Layer(S, n) |-> Entry(g, s)]
           T == {n \in Nat : \E g : Table(g, n)}
<1>1. \A s \in SUBSET S : IsFiniteSet(s) /\ Cardinality(s) \in Nat
  BY FS_Subset, FS_CardinalityType
<1>2. 0 \in T
  <2> DEFINE zero == [s \in Layer(S, 0) |-> 0]
  <2>1. \A s \in Layer(S, 0) : s = {}
    BY <1>1, FS_EmptySet DEF Layer
  <2>2. Table(zero, 0)
    BY <2>1
  <2> QED
    BY <2>2
<1>3. ASSUME NEW n \in T PROVE n + 1 \in T
  <2>1. PICK g : Table(g, n)
    BY <1>3
  <2> DEFINE h == [s \in Layer(S, n + 1) |-> Entry(g, s)]
  <2>2. ASSUME NEW s \in Layer(S, n + 1), s # {}
        PROVE  h[s \ {Pick(s)}] = g[s \ {Pick(s)}]
    <3> DEFINE t == s \ {Pick(s)}
    <3>1. s \in SUBSET S /\ t \in SUBSET S /\ Cardinality(s) <= n + 1 /\ IsFiniteSet(s)
      BY <1>1 DEF Layer
    <3>2. Cardinality(t) = Cardinality(s) - 1
      BY <2>2, <3>1, PickElement, FS_RemoveElement
    <3>3. Cardinality(t) <= n /\ Cardinality(t) <= n + 1
      BY <1>1, <3>1, <3>2
    <3>4. t \in Layer(S, n) /\ t \in Layer(S, n + 1)
      BY <3>1, <3>3 DEF Layer
    <3> HIDE DEF t
    <3>5. g[t] = Entry(g, t)
      BY <2>1, <3>4
    <3>6. h[t] = Entry(g, t)
      BY <3>4
    <3> QED
      BY <3>5, <3>6 DEF t
  <2>3. h = [s \in Layer(S, n + 1) |-> Entry(g, s)]
    OBVIOUS
  <2> HIDE DEF h
  <2>4. ASSUME NEW s \in Layer(S, n + 1) PROVE Entry(h, s) = Entry(g, s)
    BY <2>2
  <2>5. Table(h, n + 1)
    <3> HIDE DEF Entry
    <3> QED
      BY <2>3, <2>4, Zenon
  <2>6. n + 1 \in Nat
    OBVIOUS
  <2> HIDE DEF Table
  <2> QED
    BY <2>5, <2>6
<1>4. T = Nat
  BY <1>2, <1>3, InductionOnNat
<1>5. Layer(S, Cardinality(S)) = SUBSET S
  BY FS_Subset DEF Layer
<1>6. Cardinality(S) \in T
  BY <1>1, <1>4
<1>7. PICK g : Table(g, Cardinality(S))
  BY <1>6
<1>8. SumTable(g, f, S)
  BY <1>5, <1>7 DEF SumTable
<1> QED
  BY <1>8

\* Of the subsets of a finite set that have some property, one has no proper
\* subset with it: what induction over finite sets comes down to.
LEMMA SmallestSubset ==
  ASSUME NEW S, IsFiniteSet(S), NEW B \in SUBSET SUBSET S, B # {}
  PROVE  \E s \in B : \A x \in s : s \ {x} \notin B
<1> DEFINE T == {n \in Nat : \E s \in B : Cardinality(s) = n}
<1>1. \A s \in B : IsFiniteSet(s) /\ Cardinality(s) \in Nat
  BY FS_Subset, FS_CardinalityType
<1>2. T # {} /\ T \in SUBSET Nat
  BY <1>1
<1> HIDE DEF T
<1>3. PICK n \in T : \A m \in T : n <= m
  BY <1>2, LeastElement
<1>4. PICK s \in B : Cardinality(s) = n
  BY <1>3 DEF T
<1>5. ASSUME NEW x \in s, s \ {x} \in B PROVE FALSE
  <2>1. Cardinality(s \ {x}) = n - 1
    BY <1>1, <1>4, FS_RemoveElement
  <2>2. n - 1 \in T
    BY <1>1, <1>5, <2>1 DEF T
  <2>3. n <= n - 1 /\ n \in Nat
    BY <1>2, <1>3, <2>2
  <2> QED
    BY <2>3
<1> QED
  BY <1>4, <1>5

-----------------------------------------------------------------------------
(* What is in the table. *)

\* The entries, one by one.
LEMMA TableEntries ==
  ASSUME NEW f, NEW S, NEW g, SumTable(g, f, S)
  PROVE  /\ g[{}] = 0
         /\ \A s \in SUBSET S :
              s # {} => /\ Pick(s) \in s
                        /\ s \ {Pick(s)} \in SUBSET S
                        /\ g[s] = f[Pick(s)] + g[s \ {Pick(s)}]
<1>1. \A s \in SUBSET S : g[s] = IF s = {} THEN 0 ELSE f[Pick(s)] + g[s \ {Pick(s)}]
  BY DEF SumTable
<1>2. g[{}] = 0
  BY <1>1
<1> QED
  BY <1>1, <1>2, PickElement

\* An entry depends on the elements of its own set only.
LEMMA TablesAgree ==
  ASSUME NEW S, IsFiniteSet(S), NEW T \in SUBSET S, NEW f, NEW e,
         \A x \in T : f[x] = e[x],
         NEW g, SumTable(g, f, S), NEW h, SumTable(h, e, T)
  PROVE  g[T] = h[T]
<1> DEFINE B == {s \in SUBSET T : g[s] # h[s]}
<1> SUFFICES ASSUME B # {} PROVE FALSE
  OBVIOUS
<1>1. IsFiniteSet(T)
  BY FS_Subset
<1>2. PICK s \in B : \A x \in s : s \ {x} \notin B
  BY <1>1, SmallestSubset
<1>3. s # {}
  <2>1. g[{}] = 0 /\ h[{}] = 0
    BY TableEntries
  <2> QED
    BY <1>2, <2>1
<1>4. /\ Pick(s) \in s
      /\ g[s] = f[Pick(s)] + g[s \ {Pick(s)}]
      /\ h[s] = e[Pick(s)] + h[s \ {Pick(s)}]
  <2>1. s \in SUBSET S /\ s \in SUBSET T
    BY <1>2
  <2> QED
    BY <1>3, <2>1, TableEntries
<1>5. g[s \ {Pick(s)}] = h[s \ {Pick(s)}]
  BY <1>2, <1>4
<1>6. f[Pick(s)] = e[Pick(s)]
  BY <1>2, <1>4
<1> QED
  BY <1>2, <1>4, <1>5, <1>6

\* Sums of integers are integers.
LEMMA TableInt ==
  ASSUME NEW S, IsFiniteSet(S), NEW f, \A x \in S : f[x] \in Int,
         NEW g, SumTable(g, f, S)
  PROVE  \A s \in SUBSET S : g[s] \in Int
<1> DEFINE B == {s \in SUBSET S : g[s] \notin Int}
<1> SUFFICES ASSUME B # {} PROVE FALSE
  OBVIOUS
<1>1. PICK s \in B : \A x \in s : s \ {x} \notin B
  BY SmallestSubset
<1>2. s # {}
  <2>1. g[{}] \in Int
    BY TableEntries
  <2> QED
    BY <1>1, <2>1
<1>3. /\ Pick(s) \in s /\ s \ {Pick(s)} \in SUBSET S
      /\ g[s] = f[Pick(s)] + g[s \ {Pick(s)}]
  BY <1>1, <1>2, TableEntries
<1>4. g[s \ {Pick(s)}] \in Int /\ f[Pick(s)] \in Int
  BY <1>1, <1>3
<1> QED
  BY <1>1, <1>3, <1>4

\* Any element may be taken out first.
LEMMA TableTake ==
  ASSUME NEW S, IsFiniteSet(S), NEW f, \A x \in S : f[x] \in Int,
         NEW g, SumTable(g, f, S)
  PROVE  \A s \in SUBSET S : \A x \in s : g[s] = f[x] + g[s \ {x}]
<1> DEFINE B == {s \in SUBSET S : \E x \in s : g[s] # f[x] + g[s \ {x}]}
<1> SUFFICES ASSUME B # {} PROVE FALSE
  OBVIOUS
<1>1. PICK s \in B : \A x \in s : s \ {x} \notin B
  BY SmallestSubset
<1>2. PICK x \in s : g[s] # f[x] + g[s \ {x}]
  BY <1>1
<1> DEFINE p == Pick(s)
           both == (s \ {p}) \ {x}
<1>3. s \in SUBSET S /\ p \in s /\ g[s] = f[p] + g[s \ {p}]
  BY <1>1, <1>2, TableEntries
<1>4. p # x
  BY <1>2, <1>3
<1>5. (s \ {x}) \ {p} = both
  OBVIOUS
<1>6. s \ {p} \in SUBSET S /\ s \ {x} \in SUBSET S /\ both \in SUBSET S
      /\ s \ {p} \notin B /\ s \ {x} \notin B /\ x \in s \ {p} /\ p \in s \ {x}
  BY <1>1, <1>3, <1>4
<1> HIDE DEF p, both
<1>7. g[s \ {p}] = f[x] + g[both]
  BY <1>6 DEF both
<1>8. g[s \ {x}] = f[p] + g[both]
  BY <1>5, <1>6
<1>9. f[p] \in Int /\ f[x] \in Int /\ g[both] \in Int
  BY <1>3, <1>6, TableInt
<1> QED
  BY <1>2, <1>3, <1>7, <1>8, <1>9

-----------------------------------------------------------------------------
(* What the proofs of the marketplace use. *)

\* The sum over a finite set comes from a table.
LEMMA SumIsEntry ==
  ASSUME NEW f, NEW S, IsFiniteSet(S)
  PROVE  \E g : SumTable(g, f, S) /\ SumFunctionOnSet(f, S) = g[S]
<1> DEFINE g == CHOOSE g : SumTable(g, f, S)
<1>1. SumTable(g, f, S)
  BY SumTableExists
<1>2. SumFunctionOnSet(f, S) = g[S]
  BY SumFromTable
<1> HIDE DEF g
<1> QED
  BY <1>1, <1>2

\* Nothing sums up to nothing.
LEMMA SumEmpty ==
  ASSUME NEW f
  PROVE  SumFunctionOnSet(f, {}) = 0
<1>1. IsFiniteSet({})
  BY FS_EmptySet
<1>2. PICK g : SumTable(g, f, {}) /\ SumFunctionOnSet(f, {}) = g[{}]
  BY <1>1, SumIsEntry
<1> QED
  BY <1>2, TableEntries

\* Equal summands, equal sums.
LEMMA SumAgree ==
  ASSUME NEW S, IsFiniteSet(S), NEW f, NEW e, \A x \in S : f[x] = e[x]
  PROVE  SumFunctionOnSet(f, S) = SumFunctionOnSet(e, S)
<1>1. PICK g : SumTable(g, f, S) /\ SumFunctionOnSet(f, S) = g[S]
  BY SumIsEntry
<1>2. PICK h : SumTable(h, e, S) /\ SumFunctionOnSet(e, S) = h[S]
  BY SumIsEntry
<1>3. g[S] = h[S]
  BY <1>1, <1>2, TablesAgree
<1> QED
  BY <1>1, <1>2, <1>3

\* A sum of integers is an integer, and any summand can be taken out of it.
LEMMA SumTake ==
  ASSUME NEW S, IsFiniteSet(S), NEW f, \A x \in S : f[x] \in Int
  PROVE  /\ SumFunctionOnSet(f, S) \in Int
         /\ \A x \in S : SumFunctionOnSet(f, S) = f[x] + SumFunctionOnSet(f, S \ {x})
<1>1. PICK g : SumTable(g, f, S) /\ SumFunctionOnSet(f, S) = g[S]
  BY SumIsEntry
<1>2. g[S] \in Int
  BY <1>1, TableInt
<1>3. ASSUME NEW x \in S
      PROVE  g[S] = f[x] + SumFunctionOnSet(f, S \ {x})
  <2>1. IsFiniteSet(S \ {x})
    BY FS_RemoveElement
  <2>2. PICK h : SumTable(h, f, S \ {x}) /\ SumFunctionOnSet(f, S \ {x}) = h[S \ {x}]
    BY <2>1, SumIsEntry
  <2>3. g[S \ {x}] = h[S \ {x}]
    BY <1>1, <2>2, TablesAgree
  <2>4. g[S] = f[x] + g[S \ {x}]
    BY <1>1, TableTake
  <2> QED
    BY <2>2, <2>3, <2>4
<1> QED
  BY <1>1, <1>2, <1>3

\* A sum moves with one of its summands.
LEMMA SumUpdate ==
  ASSUME NEW S, IsFiniteSet(S), NEW f, NEW e, NEW x \in S,
         \A y \in S : f[y] \in Int /\ e[y] \in Int,
         \A y \in S \ {x} : f[y] = e[y]
  PROVE  SumFunctionOnSet(e, S) = SumFunctionOnSet(f, S) - f[x] + e[x]
<1>1. /\ SumFunctionOnSet(f, S) = f[x] + SumFunctionOnSet(f, S \ {x})
      /\ SumFunctionOnSet(e, S) = e[x] + SumFunctionOnSet(e, S \ {x})
  BY SumTake
<1>2. IsFiniteSet(S \ {x})
  BY FS_RemoveElement
<1>3. SumFunctionOnSet(f, S \ {x}) = SumFunctionOnSet(e, S \ {x})
  BY <1>2, SumAgree
<1>4. SumFunctionOnSet(f, S \ {x}) \in Int
  BY <1>2, SumTake
<1> QED
  BY <1>1, <1>3, <1>4

\* Summands of zero do not count.
LEMMA SumZeros ==
  ASSUME NEW S, IsFiniteSet(S), NEW T \in SUBSET S, NEW f,
         \A x \in S : f[x] \in Int, \A x \in S \ T : f[x] = 0
  PROVE  SumFunctionOnSet(f, S) = SumFunctionOnSet(f, T)
<1> DEFINE B == {s \in SUBSET S : T \subseteq s
                   /\ SumFunctionOnSet(f, s) # SumFunctionOnSet(f, T)}
<1> SUFFICES ASSUME B # {} PROVE FALSE
  OBVIOUS
<1>1. PICK s \in B : \A x \in s : s \ {x} \notin B
  <2>1. B \in SUBSET SUBSET S
    OBVIOUS
  <2> HIDE DEF B
  <2> QED
    BY <2>1, SmallestSubset
<1>2. PICK x \in s : x \notin T
  BY <1>1
<1>3. s \ {x} \in SUBSET S /\ T \subseteq s \ {x} /\ s \ {x} \notin B
  BY <1>1, <1>2
<1>4. SumFunctionOnSet(f, s \ {x}) = SumFunctionOnSet(f, T)
  BY <1>3
<1>5. IsFiniteSet(s) /\ IsFiniteSet(s \ {x})
  BY <1>1, <1>3, FS_Subset
<1>6. SumFunctionOnSet(f, s) = f[x] + SumFunctionOnSet(f, s \ {x})
  BY <1>1, <1>5, SumTake
<1>7. f[x] = 0 /\ SumFunctionOnSet(f, s \ {x}) \in Int
  BY <1>1, <1>2, <1>3, <1>5, SumTake
<1> QED
  BY <1>1, <1>4, <1>6, <1>7

\* A sum grows with its summands.
LEMMA SumMonotone ==
  ASSUME NEW S, IsFiniteSet(S), NEW f, NEW e,
         \A x \in S : f[x] \in Int /\ e[x] \in Int /\ f[x] <= e[x]
  PROVE  SumFunctionOnSet(f, S) <= SumFunctionOnSet(e, S)
<1> DEFINE B == {s \in SUBSET S : ~(SumFunctionOnSet(f, s) <= SumFunctionOnSet(e, s))}
<1> SUFFICES ASSUME B # {} PROVE FALSE
  OBVIOUS
<1>1. PICK s \in B : \A x \in s : s \ {x} \notin B
  BY SmallestSubset
<1>2. PICK x \in s : TRUE
  BY <1>1, SumEmpty
<1>3. IsFiniteSet(s) /\ IsFiniteSet(s \ {x}) /\ s \ {x} \in SUBSET S
  BY <1>1, FS_Subset
<1>4. /\ SumFunctionOnSet(f, s) = f[x] + SumFunctionOnSet(f, s \ {x})
      /\ SumFunctionOnSet(e, s) = e[x] + SumFunctionOnSet(e, s \ {x})
  BY <1>1, <1>3, SumTake
<1>5. /\ SumFunctionOnSet(f, s \ {x}) \in Int /\ SumFunctionOnSet(e, s \ {x}) \in Int
      /\ SumFunctionOnSet(f, s \ {x}) <= SumFunctionOnSet(e, s \ {x})
  BY <1>1, <1>2, <1>3, SumTake
<1>6. f[x] \in Int /\ e[x] \in Int /\ f[x] <= e[x]
  BY <1>1, <1>2
<1> QED
  BY <1>1, <1>4, <1>5, <1>6
=============================================================================
