---------------------------- MODULE PagingProofs ----------------------------
(***************************************************************************)
(* What a client can rely on that reads the marketplace page by page, for  *)
(* any number of auctions and any length of the storage keys.              *)
(***************************************************************************)
EXTENDS Paging, AuctionProofs, SequenceTheorems

-----------------------------------------------------------------------------
(* The weights of the bytes of a key. *)

\* g holds the weights up to n.
WeightTable(g, n) == g = [i \in 0 .. n |-> IF i = 0 THEN 1 ELSE BYTE * g[i - 1]]

\* There is such a table for every length, each one byte longer than the last.
LEMMA WeightTableExists == \E g : WeightTable(g, KEY_BYTES)
<1> DEFINE T == {n \in Nat : \E g : WeightTable(g, n)}
<1>1. 0 \in T
  <2> DEFINE g == [i \in 0 .. 0 |-> 1]
  <2>1. g = [i \in 0 .. 0 |-> IF i = 0 THEN 1 ELSE BYTE * g[i - 1]]
    OBVIOUS
  <2> HIDE DEF g
  <2>2. WeightTable(g, 0)
    BY <2>1 DEF WeightTable
  <2> QED
    BY <2>2
<1>2. ASSUME NEW n \in T PROVE n + 1 \in T
  <2>1. PICK g : WeightTable(g, n)
    OBVIOUS
  <2> DEFINE h == [i \in 0 .. n + 1 |-> IF i = n + 1 THEN BYTE * g[n] ELSE g[i]]
  <2>2. \A i \in 0 .. n : g[i] = IF i = 0 THEN 1 ELSE BYTE * g[i - 1]
    BY <2>1 DEF WeightTable
  <2>3. n \in Nat
    OBVIOUS
  <2>4. ASSUME NEW i \in 0 .. n + 1
        PROVE  h[i] = IF i = 0 THEN 1 ELSE BYTE * h[i - 1]
    <3>1. CASE i = n + 1
      BY <2>3, <3>1
    <3>2. CASE i \in 0 .. n
      BY <2>2, <2>3, <3>2
    <3> QED
      BY <2>3, <3>1, <3>2
  <2>5. h = [i \in 0 .. n + 1 |-> h[i]]
    OBVIOUS
  <2> HIDE DEF h
  <2>6. WeightTable(h, n + 1)
    BY <2>4, <2>5 DEF WeightTable
  <2> QED
    BY <2>3, <2>6
<1> HIDE DEF T
<1>3. T \in SUBSET Nat
  BY DEF T
<1>4. T = Nat
  BY <1>1, <1>2, <1>3, InductionOnNat
<1> QED
  BY <1>4, PagingAssumption DEF T

\* The weights are what their definition says.
LEMMA WeightDef ==
  /\ Weight[0] = 1
  /\ \A n \in 1 .. KEY_BYTES : Weight[n] = BYTE * Weight[n - 1]
<1>1. PICK g : WeightTable(g, KEY_BYTES)
  BY WeightTableExists
<1> DEFINE power[n \in 0 .. KEY_BYTES] == IF n = 0 THEN 1 ELSE BYTE * power[n - 1]
<1>2. power = [n \in 0 .. KEY_BYTES |-> IF n = 0 THEN 1 ELSE BYTE * power[n - 1]]
  BY <1>1 DEF WeightTable
<1>3. Weight = [n \in 0 .. KEY_BYTES |-> power[n]]
  BY DEF Weight
<1> HIDE DEF power
<1>4. Weight = power
  BY <1>2, <1>3
<1>5. WeightTable(Weight, KEY_BYTES)
  BY <1>2, <1>4 DEF WeightTable
<1>6. KEY_BYTES \in Nat
  BY PagingAssumption
<1>7. \A n \in 0 .. KEY_BYTES : Weight[n] = IF n = 0 THEN 1 ELSE BYTE * Weight[n - 1]
  BY <1>5 DEF WeightTable
<1>8. 0 \in 0 .. KEY_BYTES /\ \A n \in 1 .. KEY_BYTES : n \in 0 .. KEY_BYTES /\ n # 0
  BY <1>6
<1> QED
  BY <1>7, <1>8

\* A product of positive numbers is positive.
LEMMA PositiveProduct ==
  ASSUME NEW a \in Nat \ {0}, NEW b \in Nat \ {0}
  PROVE  a * b \in Nat \ {0}
  OBVIOUS

\* The weights are positive.
LEMMA WeightPositive == \A n \in 0 .. KEY_BYTES : Weight[n] \in Nat \ {0}
<1> DEFINE T == {n \in Nat : n \in 0 .. KEY_BYTES => Weight[n] \in Nat \ {0}}
<1>0. KEY_BYTES \in Nat /\ BYTE \in Nat \ {0}
  BY PagingAssumption
<1>1. 0 \in T
  BY WeightDef
<1>2. ASSUME NEW n \in T PROVE n + 1 \in T
  <2>1. n \in Nat
    OBVIOUS
  <2>2. ASSUME n + 1 \in 0 .. KEY_BYTES PROVE Weight[n + 1] \in Nat \ {0}
    <3>1. n \in 0 .. KEY_BYTES /\ n + 1 \in 1 .. KEY_BYTES /\ (n + 1) - 1 = n
      BY <1>0, <2>1, <2>2
    <3>2. Weight[n] \in Nat \ {0}
      BY <3>1
    <3>3. Weight[n + 1] = BYTE * Weight[n]
      BY <3>1, WeightDef
    <3> QED
      BY <1>0, <3>2, <3>3, PositiveProduct
  <2> QED
    BY <2>1, <2>2
<1> HIDE DEF T
<1>3. T \in SUBSET Nat
  BY DEF T
<1>4. T = Nat
  BY <1>1, <1>2, <1>3, InductionOnNat
<1> QED
  BY <1>0, <1>4 DEF T

-----------------------------------------------------------------------------
(* The keys order as the numbers do. *)

\* What the division of a natural is known by.
LEMMA DivUnique ==
  ASSUME NEW x \in Nat, NEW d \in Nat \ {0}, NEW q \in Nat, d * q <= x, x < d * (q + 1)
  PROVE  x \div d = q
<1>1. x \div d \in Nat /\ d * (x \div d) <= x /\ x < d * ((x \div d) + 1)
  BY DivBounds
<1>2. PICK p \in Nat : p = x \div d
  BY <1>1
<1>3. d * p < d * (q + 1) /\ d * q < d * (p + 1)
  BY <1>1, <1>2
<1>4. p < q + 1 /\ q < p + 1
  <2>1. ASSUME q + 1 <= p PROVE FALSE
    <3>1. d * (q + 1) <= d * p
      BY <2>1, ProductMonotone
    <3> QED
      BY <1>3, <3>1
  <2>2. ASSUME p + 1 <= q PROVE FALSE
    <3>1. d * (p + 1) <= d * q
      BY <2>2, ProductMonotone
    <3> QED
      BY <1>3, <3>1
  <2> QED
    BY <2>1, <2>2
<1> QED
  BY <1>2, <1>4

\* Dividing by a product divides by one factor after the other.
LEMMA DivProduct ==
  ASSUME NEW x \in Nat, NEW b \in Nat \ {0}, NEW w \in Nat \ {0}
  PROVE  x \div (b * w) = (x \div w) \div b
<1>1. PICK q \in Nat : q = x \div w
  BY DivBounds
<1>2. PICK r \in Nat : r = q \div b
  BY DivBounds
<1>3. w * q <= x /\ x < w * (q + 1)
  BY <1>1, DivBounds
<1>4. b * r <= q /\ q < b * (r + 1)
  BY <1>2, DivBounds
<1>5. b * r \in Nat /\ b * (r + 1) \in Nat /\ b * w \in Nat \ {0}
  BY ProductNat, PositiveProduct
<1>6. w * (b * r) <= w * q
  BY <1>4, <1>5, ProductMonotone
<1>7. q + 1 <= b * (r + 1)
  BY <1>4, <1>5
<1>8. w * (q + 1) <= w * (b * (r + 1))
  BY <1>5, <1>7, ProductMonotone
<1>9. w * (b * r) = (b * w) * r /\ w * (b * (r + 1)) = (b * w) * (r + 1)
  OBVIOUS
<1>10. (b * w) * r \in Nat /\ (b * w) * (r + 1) \in Nat /\ w * q \in Nat /\ w * (q + 1) \in Nat
  BY <1>5, ProductNat
<1>11. (b * w) * r <= x /\ x < (b * w) * (r + 1)
  BY <1>3, <1>6, <1>8, <1>9, <1>10
<1> QED
  BY <1>1, <1>2, <1>5, <1>11, DivUnique

\* A larger number does not have a smaller quotient.
LEMMA DivMonotone ==
  ASSUME NEW x \in Nat, NEW y \in Nat, NEW d \in Nat \ {0}, x <= y
  PROVE  x \div d <= y \div d
<1>1. PICK p \in Nat, q \in Nat : p = x \div d /\ q = y \div d
  BY DivBounds
<1>2. d * p <= x /\ y < d * (q + 1)
  BY <1>1, DivBounds
<1>3. ASSUME q + 1 <= p PROVE FALSE
  <2>1. d * (q + 1) <= d * p
    BY <1>3, ProductMonotone
  <2> QED
    BY <1>2, <2>1
<1> QED
  BY <1>1, <1>3

\* A number is put together again from its quotient and its remainder.
LEMMA DivMod ==
  ASSUME NEW x \in Nat, NEW d \in Nat \ {0}
  PROVE  x = d * (x \div d) + (x % d) /\ (x % d) \in Nat
  OBVIOUS

\* The numbers that have keys of their own.
Numbers == 0 .. Weight[KEY_BYTES] - 1

\* The number that the first i bytes of the key of a stand for.
Upper(a, i) == a \div Weight[KEY_BYTES - i]

\* From no bytes to all of them, each byte brings the number closer to a.
LEMMA UpperSteps ==
  ASSUME NEW a \in Numbers
  PROVE  /\ Upper(a, 0) = 0 /\ Upper(a, KEY_BYTES) = a
         /\ \A i \in 0 .. KEY_BYTES : Upper(a, i) \in Nat
         /\ \A i \in 1 .. KEY_BYTES :
              /\ Key(a)[i] \in Nat
              /\ Upper(a, i) = BYTE * Upper(a, i - 1) + Key(a)[i]
<1>1. KEY_BYTES \in Nat /\ BYTE \in Nat \ {0}
  BY PagingAssumption
<1>2. Weight[KEY_BYTES] \in Nat \ {0} /\ Weight[0] = 1
  BY <1>1, WeightPositive, WeightDef
<1>3. a \in Nat /\ a < Weight[KEY_BYTES]
  BY <1>2 DEF Numbers
<1>4. Upper(a, 0) = 0
  <2>1. KEY_BYTES - 0 = KEY_BYTES
    BY <1>1
  <2>2. a \div Weight[KEY_BYTES] = 0
    BY <1>2, <1>3, DivUnique
  <2> QED
    BY <2>1, <2>2 DEF Upper
<1>5. Upper(a, KEY_BYTES) = a
  <2>1. KEY_BYTES - KEY_BYTES = 0
    BY <1>1
  <2>2. a \div 1 = a
    BY <1>3
  <2> QED
    BY <1>2, <2>1, <2>2 DEF Upper
<1>6. ASSUME NEW i \in 0 .. KEY_BYTES PROVE Upper(a, i) \in Nat
  <2>1. KEY_BYTES - i \in 0 .. KEY_BYTES
    BY <1>1
  <2>2. Weight[KEY_BYTES - i] \in Nat \ {0}
    BY <2>1, WeightPositive
  <2> QED
    BY <1>3, <2>2, DivBounds DEF Upper
<1>7. ASSUME NEW i \in 1 .. KEY_BYTES
      PROVE  Key(a)[i] \in Nat /\ Upper(a, i) = BYTE * Upper(a, i - 1) + Key(a)[i]
  <2> DEFINE k == KEY_BYTES - i
  <2>1. /\ k \in 0 .. KEY_BYTES /\ k + 1 \in 1 .. KEY_BYTES
        /\ KEY_BYTES - (i - 1) = k + 1 /\ (k + 1) - 1 = k
    BY <1>1
  <2>2. Weight[k] \in Nat \ {0} /\ Weight[k + 1] = BYTE * Weight[k]
    BY <2>1, WeightPositive, WeightDef
  <2>3. Upper(a, i - 1) = a \div (BYTE * Weight[k]) /\ Upper(a, i) = a \div Weight[k]
    BY <2>1, <2>2 DEF Upper
  <2>4. Upper(a, i - 1) = Upper(a, i) \div BYTE
    BY <1>1, <1>3, <2>2, <2>3, DivProduct
  <2>5. Key(a)[i] = Upper(a, i) % BYTE
    BY <2>3 DEF Key
  <2>6. Upper(a, i) \in Nat
    BY <1>6
  <2> QED
    BY <1>1, <2>4, <2>5, <2>6, DivMod
<1> QED
  BY <1>4, <1>5, <1>6, <1>7

\* The same first bytes mean the same number.
LEMMA KeyOrder ==
  ASSUME NEW a \in Numbers, NEW b \in Numbers, a < b
  PROVE  Before(Key(a), Key(b))
<1> DEFINE D == {i \in Nat : i \in 0 .. KEY_BYTES /\ Upper(a, i) # Upper(b, i)}
<1>1. KEY_BYTES \in Nat /\ BYTE \in Nat \ {0} /\ a \in Nat /\ b \in Nat
  BY PagingAssumption, WeightPositive DEF Numbers
<1>2. KEY_BYTES \in D
  BY <1>1, UpperSteps
<1>3. PICK i \in D : \A j \in D : i <= j
  BY <1>2, LeastElement
<1>4. i \in 1 .. KEY_BYTES /\ Upper(a, i) # Upper(b, i)
  BY <1>1, UpperSteps
<1>5. \A j \in 0 .. i - 1 : Upper(a, j) = Upper(b, j)
  BY <1>1, <1>3
<1> HIDE DEF D
<1>6. ASSUME NEW j \in 1 .. i - 1 PROVE Key(a)[j] = Key(b)[j]
  <2>1. j \in 1 .. KEY_BYTES /\ j \in 0 .. i - 1 /\ j - 1 \in 0 .. i - 1
    BY <1>1, <1>4
  <2>2. Upper(a, j) = Upper(b, j) /\ Upper(a, j - 1) = Upper(b, j - 1)
    BY <1>5, <2>1
  <2>3. /\ Key(a)[j] \in Nat /\ Upper(a, j) = BYTE * Upper(a, j - 1) + Key(a)[j]
        /\ Key(b)[j] \in Nat /\ Upper(b, j) = BYTE * Upper(b, j - 1) + Key(b)[j]
    BY <2>1, UpperSteps
  <2>4. Upper(a, j - 1) \in Nat
    <3>1. j - 1 \in 0 .. KEY_BYTES
      BY <1>1, <2>1
    <3> QED
      BY <3>1, UpperSteps
  <2>5. BYTE * Upper(a, j - 1) \in Nat
    BY <1>1, <2>4, ProductNat
  <2>6. PICK p \in Nat : p = BYTE * Upper(a, j - 1)
    BY <2>5
  <2>7. Upper(a, j) = p + Key(a)[j] /\ Upper(a, j) = p + Key(b)[j]
    <3>1. Upper(a, j) = p + Key(a)[j]
      BY <2>3, <2>6
    <3>2. Upper(b, j) = p + Key(b)[j]
      BY <2>2, <2>3, <2>6
    <3> QED
      BY <2>2, <3>1, <3>2
  <2> QED
    BY <2>3, <2>6, <2>7
<1>7. Key(a)[i] < Key(b)[i]
  <2>1. Upper(a, i - 1) = Upper(b, i - 1)
    BY <1>4, <1>5
  <2>2. /\ Key(a)[i] \in Nat /\ Upper(a, i) = BYTE * Upper(a, i - 1) + Key(a)[i]
        /\ Key(b)[i] \in Nat /\ Upper(b, i) = BYTE * Upper(b, i - 1) + Key(b)[i]
    BY <1>4, UpperSteps
  <2>3. Upper(a, i - 1) \in Nat
    <3>1. i - 1 \in 0 .. KEY_BYTES
      BY <1>1, <1>4
    <3> QED
      BY <3>1, UpperSteps
  <2>4. Weight[KEY_BYTES - i] \in Nat \ {0}
    <3>1. KEY_BYTES - i \in 0 .. KEY_BYTES
      BY <1>1, <1>4
    <3> QED
      BY <3>1, WeightPositive
  <2>5. Upper(a, i) <= Upper(b, i)
    BY <1>1, <2>4, DivMonotone DEF Upper
  <2>6. BYTE * Upper(a, i - 1) \in Nat
    BY <1>1, <2>3, ProductNat
  <2> QED
    BY <1>4, <2>1, <2>2, <2>5, <2>6
<1> QED
  BY <1>4, <1>6, <1>7 DEF Before

\* The order is strict.
LEMMA BeforeStrict ==
  ASSUME NEW k \in [1 .. KEY_BYTES -> Nat], NEW m \in [1 .. KEY_BYTES -> Nat], Before(k, m)
  PROVE  k # m /\ ~Before(m, k)
<1>1. PICK i \in 1 .. KEY_BYTES : k[i] < m[i] /\ \A j \in 1 .. i - 1 : k[j] = m[j]
  BY DEF Before
<1>2. k[i] \in Nat /\ m[i] \in Nat
  OBVIOUS
<1>3. ASSUME Before(m, k) PROVE FALSE
  <2>1. PICK h \in 1 .. KEY_BYTES : m[h] < k[h] /\ \A j \in 1 .. h - 1 : m[j] = k[j]
    BY <1>3 DEF Before
  <2>2. k[h] \in Nat /\ m[h] \in Nat /\ h \in Nat /\ i \in Nat /\ i >= 1 /\ h >= 1
    BY PagingAssumption
  <2>3. CASE i = h
    BY <1>1, <1>2, <2>1, <2>3
  <2>4. CASE i < h
    BY <1>1, <1>2, <2>1, <2>2, <2>4
  <2>5. CASE h < i
    BY <1>1, <2>1, <2>2, <2>5
  <2> QED
    BY <2>2, <2>3, <2>4, <2>5
<1> QED
  BY <1>1, <1>2, <1>3

\* Keys are sequences of bytes.
LEMMA KeyType ==
  ASSUME NEW a \in Numbers
  PROVE  Key(a) \in [1 .. KEY_BYTES -> Nat]
<1>1. \A i \in 1 .. KEY_BYTES : Key(a)[i] \in Nat
  BY UpperSteps
<1> QED
  BY <1>1 DEF Key

\* A key comes before another exactly if its number does.
LEMMA KeyOrderExact ==
  ASSUME NEW a \in Numbers, NEW b \in Numbers
  PROVE  /\ Before(Key(a), Key(b)) <=> a < b
         /\ Key(a) = Key(b) <=> a = b
<1>1. a \in Nat /\ b \in Nat
  BY PagingAssumption, WeightPositive DEF Numbers
<1>2. Key(a) \in [1 .. KEY_BYTES -> Nat] /\ Key(b) \in [1 .. KEY_BYTES -> Nat]
  BY KeyType
<1>3. CASE a < b
  <2>1. Before(Key(a), Key(b))
    BY <1>3, KeyOrder
  <2> QED
    BY <1>1, <1>2, <1>3, <2>1, BeforeStrict
<1>4. CASE b < a
  <2>1. Before(Key(b), Key(a))
    BY <1>4, KeyOrder
  <2> QED
    BY <1>1, <1>2, <1>4, <2>1, BeforeStrict
<1>5. CASE a = b
  BY <1>1, <1>2, <1>5, BeforeStrict
<1> QED
  BY <1>1, <1>3, <1>4, <1>5

\* The number of a key is read back from it.
LEMMA AuctionOfKey ==
  ASSUME NEW a \in Numbers
  PROVE  AuctionOf(Key(a)) = a
<1>1. \A b \in Numbers : Key(b) = Key(a) => b = a
  BY KeyOrderExact
<1> QED
  BY <1>1 DEF AuctionOf, Numbers

-----------------------------------------------------------------------------
(* The keys of a range in the order of the storage. *)

\* Numbers that rise from lo on and do not leave the n numbers from lo on are
\* these numbers, one after the other.
LEMMA RisingNumbers ==
  ASSUME NEW lo \in Nat, NEW n \in Nat, NEW t \in [1 .. n -> lo .. lo + n - 1],
         \A i, j \in 1 .. n : i < j => t[i] < t[j]
  PROVE  \A i \in 1 .. n : t[i] = lo + i - 1
<1>1. \A i \in 1 .. n : t[i] \in Nat /\ lo <= t[i] /\ t[i] <= lo + n - 1
  OBVIOUS
<1>2. ASSUME NEW k \in 1 .. n, t[k] < lo + k - 1 PROVE FALSE
  <2> DEFINE D == {i \in Nat : i \in 1 .. n /\ t[i] < lo + i - 1}
  <2>0. k \in D
    <3>1. k \in Nat
      OBVIOUS
    <3> QED
      BY <1>2, <3>1
  <2>1. PICK i \in D : \A j \in D : i <= j
    <3>1. D \in SUBSET Nat /\ D # {}
      BY <2>0
    <3> HIDE DEF D
    <3> QED
      BY <3>1, LeastElement
  <2>2. i \in 1 .. n /\ t[i] < lo + i - 1 /\ i # 1
    BY <1>1
  <2>3. i - 1 \in 1 .. n /\ ~(i <= i - 1)
    BY <2>2
  <2>4. ~(t[i - 1] < lo + (i - 1) - 1)
    BY <2>1, <2>3
  <2>5. t[i - 1] < t[i]
    BY <2>2, <2>3
  <2> QED
    BY <1>1, <2>2, <2>3, <2>4, <2>5
<1>3. ASSUME NEW k \in 1 .. n, t[k] > lo + k - 1 PROVE FALSE
  <2> DEFINE D == {d \in Nat : n - d \in 1 .. n /\ t[n - d] > lo + (n - d) - 1}
  <2>1. n - k \in D
    <3>1. n - (n - k) = k /\ n - k \in Nat
      OBVIOUS
    <3> QED
      BY <1>3, <3>1
  <2>2. PICK d \in D : \A e \in D : d <= e
    BY <2>1, LeastElement
  <2>3. PICK i \in 1 .. n : i = n - d
    OBVIOUS
  <2>4. d \in Nat /\ t[i] > lo + i - 1 /\ i # n
    BY <1>1, <2>3
  <2>5. i + 1 \in 1 .. n /\ n - (d - 1) = i + 1 /\ d - 1 \in Nat /\ ~(d <= d - 1)
    BY <2>3, <2>4
  <2>6. ~(t[i + 1] > lo + (i + 1) - 1)
    BY <2>2, <2>5
  <2>7. t[i] < t[i + 1]
    BY <2>5
  <2> QED
    BY <1>1, <2>4, <2>5, <2>6, <2>7
<1>4. ASSUME NEW i \in 1 .. n PROVE t[i] = lo + i - 1
  <2>1. ~(t[i] < lo + i - 1) /\ ~(t[i] > lo + i - 1)
    BY <1>2, <1>3
  <2>2. PICK x \in Nat : x = t[i]
    BY <1>1
  <2>3. ~(x < lo + i - 1) /\ ~(x > lo + i - 1) /\ i \in Nat
    BY <2>1, <2>2
  <2>4. x = lo + i - 1
    BY <2>3
  <2> QED
    BY <2>2, <2>4
<1> QED
  BY <1>4

\* The keys of the n numbers from lo on, in ascending order.
LEMMA AscendingKeys ==
  ASSUME NEW lo \in Nat, NEW n \in Nat, lo + n <= Weight[KEY_BYTES]
  PROVE  Ascending({Key(a) : a \in lo .. lo + n - 1}) = [i \in 1 .. n |-> Key(lo + i - 1)]
<1> DEFINE K == {Key(a) : a \in lo .. lo + n - 1}
           f == [i \in 1 .. n |-> Key(lo + i - 1)]
           Sorted(s) == \A i, j \in DOMAIN s : i < j => Before(s[i], s[j])
<1>1. Weight[KEY_BYTES] \in Nat
  BY PagingAssumption, WeightPositive
<1>2. \A a \in lo .. lo + n - 1 : a \in Numbers /\ a \in Nat
  BY <1>1 DEF Numbers
<1>3. \A i \in 1 .. n : lo + i - 1 \in lo .. lo + n - 1 /\ f[i] = Key(lo + i - 1)
  OBVIOUS
<1>4. f \in [1 .. n -> K]
  BY <1>3
<1>5. \A i, j \in 1 .. n : Before(f[i], f[j]) <=> i < j
  <2> TAKE i, j \in 1 .. n
  <2>1. lo + i - 1 \in Numbers /\ lo + j - 1 \in Numbers
    BY <1>2, <1>3
  <2>2. Before(f[i], f[j]) <=> lo + i - 1 < lo + j - 1
    BY <1>3, <2>1, KeyOrderExact
  <2> QED
    BY <2>2
<1>6. \A i, j \in 1 .. n : f[i] = f[j] => i = j
  <2> TAKE i, j \in 1 .. n
  <2>1. lo + i - 1 \in Numbers /\ lo + j - 1 \in Numbers
    BY <1>2, <1>3
  <2>2. f[i] = f[j] <=> lo + i - 1 = lo + j - 1
    BY <1>3, <2>1, KeyOrderExact
  <2> QED
    BY <2>2
<1>7. \A k \in K : \E i \in 1 .. n : f[i] = k
  <2> TAKE k \in K
  <2>1. PICK a \in lo .. lo + n - 1 : k = Key(a)
    OBVIOUS
  <2>2. a - lo + 1 \in 1 .. n /\ lo + (a - lo + 1) - 1 = a
    OBVIOUS
  <2> QED
    BY <1>3, <2>1, <2>2
<1>8. DOMAIN f = 1 .. n
  OBVIOUS
<1> HIDE DEF f
<1>9. Cardinality(K) = n
  <2>1. f \in Bijection(1 .. n, K)
    BY <1>4, <1>6, <1>7 DEF Bijection, Injection, Surjection, IsInjective
  <2>2. ExistsBijection(1 .. n, K)
    BY <2>1 DEF ExistsBijection
  <2> HIDE DEF K
  <2> QED
    BY <2>2, FS_CountingElements
<1>10. f \in [1 .. Cardinality(K) -> K] /\ Sorted(f)
  BY <1>4, <1>5, <1>8, <1>9
<1>11. ASSUME NEW s \in [1 .. Cardinality(K) -> K], Sorted(s)
       PROVE  s = f
  <2>1. s \in [1 .. n -> K] /\ DOMAIN s = 1 .. n
    BY <1>9, <1>11
  <2> DEFINE t == [i \in 1 .. n |-> AuctionOf(s[i])]
  <2>2. ASSUME NEW i \in 1 .. n
        PROVE  t[i] \in lo .. lo + n - 1 /\ s[i] = Key(t[i]) /\ t[i] \in Numbers
    <3>1. PICK a \in lo .. lo + n - 1 : s[i] = Key(a)
      BY <2>1
    <3>2. a \in Numbers
      BY <1>2
    <3>3. t[i] = a
      BY <3>1, <3>2, AuctionOfKey
    <3> QED
      BY <3>1, <3>2, <3>3
  <2>3. t \in [1 .. n -> lo .. lo + n - 1]
    BY <2>2
  <2> HIDE DEF t
  <2>4. \A i, j \in 1 .. n : i < j => t[i] < t[j]
    <3> TAKE i, j \in 1 .. n
    <3>1. i < j => Before(s[i], s[j])
      BY <1>11, <2>1
    <3>2. Before(s[i], s[j]) <=> t[i] < t[j]
      BY <2>2, KeyOrderExact
    <3> QED
      BY <3>1, <3>2
  <2>5. \A i \in 1 .. n : t[i] = lo + i - 1
    BY <2>3, <2>4, RisingNumbers
  <2>6. \A i \in 1 .. n : s[i] = f[i]
    BY <1>3, <2>2, <2>5
  <2>7. s = [i \in 1 .. n |-> s[i]] /\ f = [i \in 1 .. n |-> f[i]]
    BY <1>4, <2>1
  <2> QED
    BY <2>6, <2>7
<1>12. Ascending(K) = CHOOSE s \in [1 .. Cardinality(K) -> K] : Sorted(s)
  BY DEF Ascending
<1> HIDE DEF K, Sorted
<1>13. Ascending(K) = f
  BY <1>10, <1>11, <1>12
<1> QED
  BY <1>13 DEF K, f

\* The page lists the n auctions from lo on.
Lists(page, lo, n) == page = [i \in 1 .. n |-> << lo + i - 1, items[lo + i - 1] >>]

\* The page after the first lo auctions holds the next ones, in order.
LEMMA PageContents ==
  ASSUME NEW c \in Nat, Auctions = 0 .. c - 1, c <= MaxAuctions,
         NEW lo \in 0 .. c, NEW limit \in Limits, NEW start_after,
         start_after = IF lo = 0 THEN None ELSE lo - 1
  PROVE  \E n \in 0 .. c - lo : Lists(AllAuctions(start_after, limit), lo, n)
<1> DEFINE found == {key \in {Key(a) : a \in Auctions} : InRange(key, start_after)}
           m == c - lo
<1>1. /\ Weight[KEY_BYTES] \in Nat /\ c <= Weight[KEY_BYTES]
      /\ m \in Nat /\ lo \in Nat /\ lo + m = c
  BY PagingAssumption, WeightPositive, KeyAssumption, BoundAssumption
<1>2. \A a \in Auctions : a \in Numbers /\ a \in Nat
  BY <1>1 DEF Numbers
<1>3. \A a \in Auctions : InRange(Key(a), start_after) <=> a >= lo
  <2> TAKE a \in Auctions
  <2>1. CASE lo = 0
    BY <1>1, <1>2, <2>1 DEF InRange
  <2>2. CASE lo # 0
    <3>1. start_after = lo - 1 /\ start_after # None /\ lo - 1 \in Auctions
      BY <1>1, <2>2, NoneAssumption
    <3>2. Before(Key(lo - 1), Key(a)) <=> lo - 1 < a
      BY <1>2, <3>1, KeyOrderExact
    <3> QED
      BY <1>1, <1>2, <3>1, <3>2 DEF InRange
  <2> QED
    BY <2>1, <2>2
<1>4. found = {Key(a) : a \in lo .. lo + m - 1}
  <2>1. \A a : a \in lo .. lo + m - 1 <=> a \in Auctions /\ a >= lo
    BY <1>1
  <2> QED
    BY <1>3, <2>1
<1> DEFINE ordered == Ascending(found)
<1>5. ordered = [i \in 1 .. m |-> Key(lo + i - 1)]
  BY <1>1, <1>4, AscendingKeys
<1> DEFINE n == Min({PageSize(limit), Len(ordered)})
           page == SubSeq(ordered, 1, n)
<1>6. AllAuctions(start_after, limit)
        = [i \in DOMAIN page |-> << AuctionOf(page[i]), Auction(AuctionOf(page[i])) >>]
  BY DEF AllAuctions
<1> HIDE DEF found, m
<1>7. \A i \in 1 .. m : ordered[i] = Key(lo + i - 1)
  BY <1>5
<1>8. Len(ordered) = m
  BY <1>1, <1>5
<1> HIDE DEF ordered
<1>9. n \in 0 .. m
  <2>1. PageSize(limit) \in Nat
    <3> DEFINE x == IF limit = None THEN DEFAULT_LIMIT ELSE limit
    <3>1. x \in Nat /\ MAX_LIMIT \in Nat
      BY PagingAssumption DEF Option
    <3>2. PageSize(limit) = Min({x, MAX_LIMIT})
      BY DEF PageSize
    <3> HIDE DEF x
    <3>3. Min({x, MAX_LIMIT}) \in {x, MAX_LIMIT}
      <4>1. \E y \in {x, MAX_LIMIT} : \A z \in {x, MAX_LIMIT} : y <= z
        BY <3>1
      <4> QED
        BY <4>1 DEF Min
    <3> QED
      BY <3>1, <3>2, <3>3
  <2> DEFINE p == PageSize(limit)
  <2>2. n = Min({p, m}) /\ p \in Nat
    BY <1>8, <2>1
  <2> HIDE DEF p
  <2>3. \E y \in {p, m} : \A z \in {p, m} : y <= z
    BY <1>1, <2>2
  <2>4. n \in {p, m} /\ \A z \in {p, m} : n <= z
    BY <2>2, <2>3 DEF Min
  <2> QED
    BY <1>1, <2>2, <2>4
<1> HIDE DEF n
<1>10. DOMAIN page = 1 .. n /\ \A i \in 1 .. n : page[i] = Key(lo + i - 1)
  <2> DEFINE K == {ordered[i] : i \in 1 .. m}
  <2>1. \A i \in 1 .. n : ordered[i] \in K /\ i \in 1 .. m
    BY <1>1, <1>9
  <2>2. n \in Int /\ n \in Nat /\ m \in Nat
    BY <1>1, <1>9
  <2> HIDE DEF K
  <2>3. /\ page \in Seq(K)
        /\ Len(page) = IF 1 <= n THEN n - 1 + 1 ELSE 0
        /\ \A i \in 1 .. n - 1 + 1 : page[i] = ordered[1 + i - 1]
    BY <2>1, <2>2, SubSeqProperties
  <2>4. Len(page) = n /\ \A i \in 1 .. n : page[i] = ordered[i]
    BY <2>2, <2>3
  <2>5. DOMAIN page = 1 .. n
    BY <2>3, <2>4, LenProperties
  <2> QED
    BY <1>7, <2>1, <2>4, <2>5
<1> HIDE DEF page
<1>11. ASSUME NEW i \in 1 .. n
       PROVE  /\ AuctionOf(page[i]) = lo + i - 1
              /\ Auction(AuctionOf(page[i])) = items[lo + i - 1]
  <2>1. lo + i - 1 \in Auctions
    BY <1>1, <1>9
  <2>2. AuctionOf(page[i]) = lo + i - 1
    BY <1>2, <1>10, <2>1, AuctionOfKey
  <2> QED
    BY <2>1, <2>2 DEF Auction
<1>12. AllAuctions(start_after, limit) = [i \in 1 .. n |-> << lo + i - 1, items[lo + i - 1] >>]
  BY <1>6, <1>10, <1>11
<1>13. Lists(AllAuctions(start_after, limit), lo, n)
  BY <1>12 DEF Lists
<1> QED
  BY <1>9, <1>13 DEF m

-----------------------------------------------------------------------------
(* The client sees the marketplace only. *)

\* Whatever the marketplace does while it is read it can do otherwise.
LEMMA ReaderIsSpec == SpecReader => Spec
<1>1. InitReader => Init
  BY DEF InitReader
<1>2. [NextReader]_pagingVars => [Next]_vars
  BY DEF NextReader, pagingVars, ReadPage
<1> QED
  BY <1>1, <1>2, PTL DEF SpecReader, Spec

\* Only execute_create_auction counts, and no auction goes away.
LEMMA CounterStep ==
  ASSUME [Next]_vars
  PROVE  \/ counter_items' = counter_items
         \/ \E u \in Users, n \in Nfts, l \in Listings : CreateAuction(u, n, l)
<1>1. ASSUME NEW u \in Users, NEW a \in Auctions, NEW sent \in Amounts,
             PlaceBid(u, a, sent) \/ InstantBuy(u, a, sent)
      PROVE  counter_items' = counter_items
  BY <1>1 DEF PlaceBid, InstantBuy
<1>2. ASSUME NEW u \in Users, NEW a \in Auctions, RegisterPrivateSale(u, a)
      PROVE  counter_items' = counter_items
  BY <1>2 DEF RegisterPrivateSale, ExecuteRegisterPrivateSale
<1>3. ASSUME NEW u \in Users, NEW a \in Auctions, NEW extra \in Extras,
             RetractBids(u, a, extra) \/ CancelAuction(u, a, extra)
      PROVE  counter_items' = counter_items
  BY <1>3 DEF RetractBids, ExecuteRetractBids, CancelAuction, ExecuteCancelAuction
<1>4. ASSUME NEW a \in Auctions, NEW extra \in Extras, WithdrawNft(a, extra)
      PROVE  counter_items' = counter_items
  BY <1>4 DEF WithdrawNft, ExecuteWithdrawNft
<1>5. CASE \/ Tick \/ UNCHANGED vars
           \/ \E u \in Users, fee \in RoyaltyFees, r \in Option(Users), extra \in Extras :
                UpdateRoyalty(u, fee, r, extra)
  BY <1>5 DEF Tick, vars, UpdateRoyalty
<1> QED
  BY <1>1, <1>2, <1>3, <1>4, <1>5 DEF Next

\* What the client remembers of an auction.
SeenInfo == [auction : Nat, item : ItemInfo, time : Nat]

\* The inductive invariant: there are no more auctions than keys, and the
\* client has been shown the first ones of them, before now.
Paged ==
  /\ counter_items <= MaxAuctions
  /\ seen \in Seq(SeenInfo) /\ Len(seen) <= counter_items
  /\ \A i \in 1 .. Len(seen) : seen[i].auction = i - 1 /\ seen[i].time <= now

\* A page tells the next auctions as they are.
LEMMA ReadEffect ==
  ASSUME TypeOK, Paged, NEW limit \in Limits, ReadPage(limit)
  PROVE  \E n \in Nat :
           /\ Len(seen) + n <= counter_items
           /\ seen' \in Seq(SeenInfo) /\ Len(seen') = Len(seen) + n
           /\ \A i \in 1 .. Len(seen) : seen'[i] = seen[i]
           /\ \A i \in Len(seen) + 1 .. Len(seen) + n :
                /\ i - 1 \in Auctions
                /\ seen'[i] = [auction |-> i - 1, item |-> items[i - 1], time |-> now]
<1>1. PICK c \in Nat : c = counter_items
  BY DEF TypeOK
<1>2. PICK lo \in 0 .. c : lo = Len(seen)
  <2>1. Len(seen) \in Nat /\ Len(seen) <= c
    BY <1>1 DEF Paged
  <2> QED
    BY <2>1
<1>3. Auctions = 0 .. c - 1 /\ c <= MaxAuctions /\ items \in [Auctions -> ItemInfo] /\ now \in Nat
  BY <1>1 DEF Auctions, Paged, TypeOK
<1>4. Cursor = IF lo = 0 THEN None ELSE lo - 1
  <2>1. CASE seen = << >>
    BY <1>2, <2>1 DEF Cursor
  <2>2. CASE seen # << >>
    <3>1. lo # 0
      BY <1>2, <2>2 DEF Paged
    <3>2. lo \in 1 .. Len(seen)
      BY <1>2, <3>1
    <3>3. seen[lo].auction = lo - 1
      BY <3>2 DEF Paged
    <3> QED
      BY <1>2, <2>2, <3>1, <3>3 DEF Cursor
  <2> QED
    BY <2>1, <2>2
<1>5. PICK n \in 0 .. c - lo : Lists(AllAuctions(Cursor, limit), lo, n)
  <2>1. PICK x : x = Cursor
    OBVIOUS
  <2>2. x = IF lo = 0 THEN None ELSE lo - 1
    BY <1>4, <2>1
  <2>3. \E n \in 0 .. c - lo : Lists(AllAuctions(x, limit), lo, n)
    BY <1>3, <2>2, PageContents
  <2> QED
    BY <2>1, <2>3, Zenon
<1> DEFINE page == [i \in 1 .. n |-> << lo + i - 1, items[lo + i - 1] >>]
           new == [i \in 1 .. n |->
                     [auction |-> lo + i - 1, item |-> items[lo + i - 1], time |-> now]]
<1>6. seen' = seen \o new
  <2>1. seen' = seen \o [i \in DOMAIN page |->
                          [auction |-> page[i][1], item |-> page[i][2], time |-> now]]
    BY <1>5 DEF ReadPage, Lists
  <2>2. [i \in DOMAIN page |-> [auction |-> page[i][1], item |-> page[i][2], time |-> now]] = new
    OBVIOUS
  <2> HIDE DEF page, new
  <2> QED
    BY <2>1, <2>2
<1>7. n \in Nat /\ lo + n <= c /\ \A i \in 1 .. n : lo + i - 1 \in Auctions /\ lo + i - 1 \in Nat
  BY <1>3
<1>8. \A i \in 1 .. n : new[i] \in SeenInfo
  BY <1>3, <1>7 DEF SeenInfo
<1>9. \A i \in 1 .. n :
        new[i] = [auction |-> lo + i - 1, item |-> items[lo + i - 1], time |-> now]
  OBVIOUS
<1>10. new = [i \in 1 .. n |-> new[i]]
  OBVIOUS
<1> HIDE DEF new
<1>11. new \in Seq(SeenInfo) /\ Len(new) = n
  BY <1>7, <1>8, <1>10
<1>12. seen \in Seq(SeenInfo)
  BY DEF Paged
<1>13. /\ seen' \in Seq(SeenInfo) /\ Len(seen') = lo + n
       /\ \A i \in 1 .. lo + n : seen'[i] = IF i <= lo THEN seen[i] ELSE new[i - lo]
  BY <1>2, <1>6, <1>11, <1>12, ConcatProperties
<1>14. ASSUME NEW i \in 1 .. lo PROVE seen'[i] = seen[i]
  BY <1>7, <1>13
<1>15. ASSUME NEW i \in lo + 1 .. lo + n
       PROVE  /\ i - 1 \in Auctions
              /\ seen'[i] = [auction |-> i - 1, item |-> items[i - 1], time |-> now]
  <2>1. i - lo \in 1 .. n /\ lo + (i - lo) - 1 = i - 1 /\ i \in 1 .. lo + n /\ ~(i <= lo)
    BY <1>7
  <2>2. seen'[i] = new[i - lo]
    BY <1>13, <2>1
  <2> QED
    BY <1>7, <1>9, <2>1, <2>2
<1> QED
  BY <1>1, <1>2, <1>7, <1>13, <1>14, <1>15

\* Every step keeps Paged.
LEMMA PagedStep ==
  ASSUME TypeOK, Paged, [NextReader]_pagingVars
  PROVE  Paged'
<1>1. /\ counter_items \in Nat /\ MaxAuctions \in Nat
      /\ seen \in Seq(SeenInfo) /\ Len(seen) \in Nat
      /\ \A i \in 1 .. Len(seen) : seen[i].time \in Nat /\ seen[i].auction = i - 1
                                 /\ seen[i].time <= now
  <2>1. counter_items \in Nat /\ MaxAuctions \in Nat
    BY BoundAssumption DEF TypeOK
  <2>2. seen \in Seq(SeenInfo)
    BY DEF Paged
  <2>3. Len(seen) \in Nat /\ \A i \in 1 .. Len(seen) : seen[i] \in SeenInfo
    BY <2>2
  <2>4. \A i \in 1 .. Len(seen) : seen[i].time \in Nat
    BY <2>3 DEF SeenInfo
  <2> QED
    BY <2>1, <2>2, <2>3, <2>4 DEF Paged
<1>2. CASE [Next]_vars /\ UNCHANGED seen
  <2>1. now \in Nat /\ now' \in Nat /\ now <= now'
    BY <1>2, TimeAdvances
  <2>2. counter_items' <= MaxAuctions /\ Len(seen) <= counter_items'
    <3>1. \/ counter_items' = counter_items
          \/ counter_items < MaxAuctions /\ counter_items' = counter_items + 1
      BY <1>2, CounterStep DEF CreateAuction, ExecuteCreateAuction
    <3> QED
      BY <1>1, <3>1 DEF Paged
  <2>3. seen' = seen
    BY <1>2
  <2>4. \A i \in 1 .. Len(seen) : seen[i].time <= now'
    BY <1>1, <2>1
  <2> QED
    BY <1>1, <2>2, <2>3, <2>4 DEF Paged
<1>3. ASSUME NEW limit \in Limits, ReadPage(limit)
      PROVE  Paged'
  <2>1. PICK n \in Nat :
           /\ Len(seen) + n <= counter_items
           /\ seen' \in Seq(SeenInfo) /\ Len(seen') = Len(seen) + n
           /\ \A i \in 1 .. Len(seen) : seen'[i] = seen[i]
           /\ \A i \in Len(seen) + 1 .. Len(seen) + n :
                /\ i - 1 \in Auctions
                /\ seen'[i] = [auction |-> i - 1, item |-> items[i - 1], time |-> now]
    BY <1>3, ReadEffect
  <2>2. counter_items' = counter_items /\ now' = now
    BY <1>3 DEF ReadPage, vars
  <2>3. ASSUME NEW i \in 1 .. Len(seen')
        PROVE  seen'[i].auction = i - 1 /\ seen'[i].time <= now'
    <3>1. CASE i \in 1 .. Len(seen)
      BY <1>1, <2>1, <2>2, <3>1
    <3>2. CASE i \in Len(seen) + 1 .. Len(seen) + n
      <4>0. seen'[i] = [auction |-> i - 1, item |-> items[i - 1], time |-> now]
        BY <2>1, <3>2
      <4>1. seen'[i].auction = i - 1 /\ seen'[i].time = now
        BY <4>0
      <4>2. now' \in Nat /\ seen'[i].time <= now'
        BY <2>2, <4>1 DEF TypeOK
      <4> QED
        BY <2>2, <4>1, <4>2
    <3> QED
      BY <1>1, <2>1, <3>1, <3>2
  <2> QED
    BY <1>1, <2>1, <2>2, <2>3 DEF Paged
<1> QED
  BY <1>2, <1>3 DEF NextReader, pagingVars

\* The client is always shown the first auctions, and no more than there are.
LEMMA PagedAlways == SpecReader => [](TypeOK /\ Paged)
<1>1. InitReader => Paged
  <2> SUFFICES ASSUME InitReader PROVE Paged
    OBVIOUS
  <2>1. seen = << >> /\ counter_items = 0
    BY DEF InitReader, Init
  <2>2. << >> \in Seq(SeenInfo) /\ Len(<< >>) = 0
    OBVIOUS
  <2> QED
    BY <2>1, <2>2, BoundAssumption DEF Paged
<1>2. TypeOK /\ Paged /\ [NextReader]_pagingVars => Paged'
  BY PagedStep
<1> QED
  BY <1>1, <1>2, ReaderIsSpec, TypeCorrect, PTL DEF SpecReader

\* All pages together list the auctions in the order of their creation, each
\* once, whatever is created between two pages and however long the keys are:
\* to_be_bytes orders as the numbers do and the bound of query_all_auctions
\* excludes exactly the last auction shown.
THEOREM SeenInOrderAlways == SpecReader => []SeenInOrder
<1>1. Paged => SeenInOrder
  BY DEF Paged, SeenInOrder
<1> QED
  BY <1>1, PagedAlways, PTL

-----------------------------------------------------------------------------
(* What was seen and what is there. *)

\* An auction that was as `old` may be as `new` later on.
Later(old, new) ==
  /\ new.creator = old.creator /\ new.nft = old.nft
  /\ new.reserve_price = old.reserve_price /\ new.instant_buy = old.instant_buy
  /\ old.total_bids <= new.total_bids
  /\ OrZero(old.highest_bid) <= OrZero(new.highest_bid)
  /\ old.total_bids = new.total_bids =>
       /\ new.highest_bid = old.highest_bid
       /\ new.highest_bidder \in {old.highest_bidder, None}

\* What is later than something later is later.
LEMMA LaterTransitive ==
  ASSUME NEW old \in ItemInfo, NEW mid \in ItemInfo, NEW new \in ItemInfo,
         Later(old, mid), Later(mid, new)
  PROVE  Later(old, new)
<1>1. \A item \in ItemInfo : item.total_bids \in Nat /\ OrZero(item.highest_bid) \in Nat
  <2> TAKE item \in ItemInfo
  <2>1. item.total_bids \in Nat /\ item.highest_bid \in Option(Nat)
    BY DEF ItemInfo
  <2> QED
    BY <2>1, OptionNat
<1>2. old.total_bids <= new.total_bids /\ OrZero(old.highest_bid) <= OrZero(new.highest_bid)
  BY <1>1 DEF Later
<1>3. old.total_bids = new.total_bids =>
        old.total_bids = mid.total_bids /\ mid.total_bids = new.total_bids
  BY <1>1 DEF Later
<1> QED
  BY <1>2, <1>3 DEF Later

\* What is the same in these respects is later.
LEMMA LaterSame ==
  ASSUME NEW old \in ItemInfo, NEW new,
         new.creator = old.creator, new.nft = old.nft,
         new.reserve_price = old.reserve_price, new.instant_buy = old.instant_buy,
         new.total_bids = old.total_bids, new.highest_bid = old.highest_bid,
         new.highest_bidder \in {old.highest_bidder, None}
  PROVE  Later(old, new)
<1>1. old.total_bids \in Nat /\ old.highest_bid \in Option(Nat)
  BY DEF ItemInfo
<1>2. OrZero(old.highest_bid) \in Nat
  BY <1>1, OptionNat
<1> QED
  BY <1>1, <1>2 DEF Later

\* A step makes every auction later.
LEMMA LaterStep ==
  ASSUME TypeOK, BoughtOutIsClosed, [Next]_vars, NEW b \in Auctions
  PROVE  Later(items[b], items'[b])
<1>1. items[b] \in ItemInfo
  BY DEF TypeOK
<1>2. ASSUME items'[b] = items[b] PROVE Later(items[b], items'[b])
  BY <1>1, <1>2, LaterSame
<1>3. ASSUME NEW u \in Users, NEW a \in Auctions, NEW sent \in Amounts,
             PlaceBid(u, a, sent) \/ InstantBuy(u, a, sent)
      PROVE  Later(items[b], items'[b])
  <2>1. CASE b # a
    BY <1>2, <1>3, <2>1, BidEffect
  <2>2. CASE b = a
    <3>1. /\ items'[b].total_bids = items[b].total_bids + 1
          /\ items'[b].creator = items[b].creator /\ items'[b].nft = items[b].nft
          /\ items'[b].reserve_price = items[b].reserve_price
          /\ items'[b].instant_buy = items[b].instant_buy
          /\ items'[b].highest_bid = BidTotal(u, a, sent)
      BY <1>3, <2>2, BidEffect, BidKeepsTerms
    <3>2. items[b].total_bids \in Nat /\ items[b].highest_bid \in Option(Nat)
      BY <1>1 DEF ItemInfo
    <3>3. BidTotal(u, a, sent) \in Nat
      BY <1>3, BidTotalNat
    <3>4. items[b].highest_bid # None => items[b].highest_bid <= BidTotal(u, a, sent)
      BY <1>3, <2>2, BidsRise
    <3>5. OrZero(items[b].highest_bid) <= OrZero(items'[b].highest_bid)
      BY <3>1, <3>3, <3>4, NoneAssumption DEF OrZero
    <3> QED
      BY <3>1, <3>2, <3>5 DEF Later
  <2> QED
    BY <2>1, <2>2
<1>4. ASSUME NEW u \in Users, NEW n \in Nfts, NEW l \in Listings, CreateAuction(u, n, l)
      PROVE  Later(items[b], items'[b])
  BY <1>2, <1>4, CreateAuctionEffect
<1>5. ASSUME NEW a \in Auctions, NEW extra \in Extras, WithdrawNft(a, extra)
      PROVE  Later(items[b], items'[b])
  BY <1>1, <1>5, SettlementKeepsAll, LaterSame DEF TermsKept, SameTerms
<1>6. ASSUME NEW u \in Users, NEW a \in Auctions, NEW extra \in Extras,
             CancelAuction(u, a, extra)
      PROVE  Later(items[b], items'[b])
  <2>1. CASE b # a
    BY <1>2, <1>6, <2>1, CancelAuctionEffect
  <2>2. CASE b = a
    <3>1. items'[b].nft = items[b].nft
      BY <1>6, <2>2, CancellationCloses
    <3> QED
      BY <1>1, <1>6, <3>1, CancellationKeepsAll, LaterSame DEF SameTerms
  <2> QED
    BY <2>1, <2>2
<1>7. CASE QuietStep
  BY <1>2, <1>7, QuietStepEffect
<1> QED
  BY <1>3, <1>4, <1>5, <1>6, <1>7 DEF Next, QuietStep

\* What was read of an auction at `time` as `old` fits what it is now.
Past(old, new, time) ==
  /\ Later(old, new)
  /\ old.end_time < time => new \in {old, [old EXCEPT !.resolved = TRUE]}

\* It still does after a step.
LEMMA PastStep ==
  ASSUME TypeOK, TypeOK', BoughtOutIsClosed, [Next]_vars, NEW b \in Auctions, b \in Auctions',
         NEW old \in ItemInfo, NEW time \in Nat, time <= now, Past(old, items[b], time)
  PROVE  Past(old, items'[b], time)
<1>1. items[b] \in ItemInfo /\ items'[b] \in ItemInfo /\ now \in Nat
  BY DEF TypeOK
<1>2. Later(items[b], items'[b])
  BY LaterStep
<1>3. Later(old, items'[b])
  <2>1. PICK mid \in ItemInfo, new \in ItemInfo : mid = items[b] /\ new = items'[b]
    BY <1>1
  <2>2. Later(old, mid) /\ Later(mid, new)
    BY <1>2, <2>1 DEF Past
  <2>3. Later(old, new)
    BY <2>2, LaterTransitive
  <2> QED
    BY <2>1, <2>3
<1>4. ASSUME old.end_time < time
      PROVE  items'[b] \in {old, [old EXCEPT !.resolved = TRUE]}
  <2>1. items[b] \in {old, [old EXCEPT !.resolved = TRUE]}
    BY <1>4 DEF Past
  <2>2. items[b].end_time = old.end_time /\ old.end_time \in Nat
    BY <2>1 DEF ItemInfo
  <2>3. items[b].end_time < now
    BY <1>1, <1>4, <2>2
  <2>4. items'[b] \in {items[b], [items[b] EXCEPT !.resolved = TRUE]}
    BY <2>3, ClosedForeverStep
  <2>5. [[old EXCEPT !.resolved = TRUE] EXCEPT !.resolved = TRUE]
          = [old EXCEPT !.resolved = TRUE]
    BY DEF ItemInfo
  <2> QED
    BY <2>1, <2>4, <2>5
<1> QED
  BY <1>3, <1>4 DEF Past

-----------------------------------------------------------------------------
(* What the histories tell. *)

\* A step leaves the history of an auction, and its bidder or none, or adds an
\* entry of the bidder who leads now.
HistoryMoves(a) ==
  \/ /\ histories'[a] = histories[a]
     /\ items'[a].highest_bidder \in {items[a].highest_bidder, None}
  \/ \E e \in HistoryBidInfo :
       histories'[a] = Append(histories[a], e) /\ e.bidder = items'[a].highest_bidder

\* The entries in the history of a bidder are the bidder's own.
OwnEntries(a, u) ==
  \A k \in 1 .. Len(histories_bidder[a][u]) : histories_bidder[a][u][k].bidder = u

\* Every step moves the histories like this, and keeps entries apart.
LEMMA HistoryStep ==
  ASSUME TypeOK, [Next]_vars, NEW b \in Auctions
  PROVE  /\ HistoryMoves(b)
         /\ \A v \in Users : OwnEntries(b, v) => OwnEntries(b, v)'
<1> DEFINE Fine == /\ HistoryMoves(b)
                   /\ \A v \in Users : OwnEntries(b, v) => OwnEntries(b, v)'
<1>0. /\ histories \in [Auctions -> Seq(HistoryBidInfo)]
      /\ histories_bidder \in [Auctions -> [Users -> Seq(HistoryBidInfo)]]
  BY DEF TypeOK
<1>1. ASSUME histories'[b] = histories[b], histories_bidder'[b] = histories_bidder[b],
             items'[b].highest_bidder \in {items[b].highest_bidder, None}
      PROVE  Fine
  BY <1>1 DEF HistoryMoves, OwnEntries
<1>2. ASSUME NEW u \in Users, NEW a \in Auctions, NEW sent \in Amounts,
             PlaceBid(u, a, sent) \/ InstantBuy(u, a, sent)
      PROVE  Fine
  <2>1. PICK e \in HistoryBidInfo :
          /\ e = HistoryEntry(u, BidTotal(u, a, sent), e.instant_buy)
          /\ e.bidder = u /\ e.amount = BidTotal(u, a, sent)
          /\ histories_bidder'[a][u] = Append(histories_bidder[a][u], e)
          /\ \A c \in Auctions, v \in Users :
               c # a \/ v # u => histories_bidder'[c][v] = histories_bidder[c][v]
          /\ \/ histories' = [histories EXCEPT ![a] = Append(@, e)]
             \/ /\ histories[a] = << >>
                /\ histories' = [histories EXCEPT ![a] =
                                   Append(@, HistoryEntry(u, sent, e.instant_buy))]
    BY <1>2, BidRemembered
  <2>2. HistoryMoves(b)
    <3>1. CASE b # a
      <4>1. histories'[b] = histories[b]
        BY <1>0, <2>1, <3>1
      <4>2. items'[b] = items[b]
        BY <1>2, <3>1, BidEffect
      <4> QED
        BY <4>1, <4>2 DEF HistoryMoves
    <3>2. CASE b = a
      <4> DEFINE d == HistoryEntry(u, sent, e.instant_buy)
      <4>1. d \in HistoryBidInfo /\ d.bidder = u
        BY InputAssumption DEF HistoryEntry, HistoryBidInfo
      <4> HIDE DEF d
      <4>2. histories'[b] = Append(histories[b], e) \/ histories'[b] = Append(histories[b], d)
        BY <1>0, <2>1, <3>2 DEF d
      <4>3. items'[b].highest_bidder = u
        BY <1>2, <3>2, BidEffect
      <4>4. e.bidder = u
        BY <2>1
      <4> QED
        BY <4>1, <4>2, <4>3, <4>4 DEF HistoryMoves
    <3> QED
      BY <3>1, <3>2
  <2>3. ASSUME NEW v \in Users, OwnEntries(b, v)
        PROVE  OwnEntries(b, v)'
    <3>1. CASE b # a \/ v # u
      <4>1. histories_bidder'[b][v] = histories_bidder[b][v]
        BY <2>1, <3>1
      <4> QED
        BY <2>3, <4>1 DEF OwnEntries
    <3>2. CASE b = a /\ v = u
      <4>1. histories_bidder[b][v] \in Seq(HistoryBidInfo) /\ e.bidder = v
        BY <1>0, <2>1, <3>2
      <4>2. histories_bidder'[b][v] = Append(histories_bidder[b][v], e)
        BY <2>1, <3>2
      <4>3. \A k \in 1 .. Len(histories_bidder'[b][v]) : histories_bidder'[b][v][k].bidder = v
        BY <2>3, <4>1, <4>2 DEF OwnEntries
      <4> QED
        BY <4>3 DEF OwnEntries
    <3> QED
      BY <3>1, <3>2
  <2> QED
    BY <2>2, <2>3
<1>3. ASSUME NEW u \in Users, NEW n \in Nfts, NEW l \in Listings, CreateAuction(u, n, l)
      PROVE  Fine
  <2>1. /\ histories' = NewEntry(histories, << >>)
        /\ histories_bidder' = NewEntry(histories_bidder, [v \in Users |-> << >>])
    BY <1>3 DEF CreateAuction, ExecuteCreateAuction
  <2>2. items'[b] = items[b]
    BY <1>3, CreateAuctionEffect
  <2>3. histories'[b] = histories[b] /\ histories_bidder'[b] = histories_bidder[b]
    BY <2>1 DEF NewEntry, Auctions, TypeOK
  <2> QED
    BY <1>1, <2>2, <2>3
<1>4. ASSUME NEW a \in Auctions, NEW extra \in Extras, WithdrawNft(a, extra)
      PROVE  Fine
  <2>1. histories' = histories /\ histories_bidder' = histories_bidder
    BY <1>4 DEF WithdrawNft, ExecuteWithdrawNft
  <2>2. items'[b].highest_bidder = items[b].highest_bidder
    BY <1>4, SettlementKeepsAll DEF TermsKept
  <2> QED
    BY <1>1, <2>1, <2>2
<1>5. ASSUME NEW u \in Users, NEW a \in Auctions, NEW extra \in Extras,
             CancelAuction(u, a, extra)
      PROVE  Fine
  <2>1. histories' = histories /\ histories_bidder' = histories_bidder
    BY <1>5 DEF CancelAuction, ExecuteCancelAuction
  <2>2. items'[b].highest_bidder \in {items[b].highest_bidder, None}
    BY <1>5, CancellationKeepsAll
  <2> QED
    BY <1>1, <2>1, <2>2
<1>6. CASE QuietStep
  <2>1. items' = items /\ histories_bidder' = histories_bidder
    BY <1>6, QuietStepEffect
  <2>2. histories' = histories
    BY <1>6 DEF QuietStep, Tick, vars, RegisterPrivateSale, ExecuteRegisterPrivateSale,
                RetractBids, ExecuteRetractBids, UpdateRoyalty
  <2> QED
    BY <1>1, <2>1, <2>2
<1> QED
  BY <1>2, <1>3, <1>4, <1>5, <1>6 DEF Next, QuietStep

\* Whoever leads auction a made the last bid in it, and the histories of its
\* bidders hold their own bids.
LastLeads(a) ==
  /\ histories[a] # << >> =>
       \/ histories[a][Len(histories[a])].bidder = items[a].highest_bidder
       \/ items[a].highest_bidder = None
  /\ \A u \in Users : OwnEntries(a, u)

\* Every step keeps that.
LEMMA LastLeadsStep ==
  ASSUME TypeOK, [Next]_vars, \A a \in Auctions : LastLeads(a), NEW b \in Auctions'
  PROVE  LastLeads(b)'
<1>1. CASE b \in Auctions
  <2>1. HistoryMoves(b) /\ \A v \in Users : OwnEntries(b, v)'
    BY <1>1, HistoryStep DEF LastLeads
  <2>2. histories[b] \in Seq(HistoryBidInfo)
    BY <1>1 DEF TypeOK
  <2>3. CASE /\ histories'[b] = histories[b]
             /\ items'[b].highest_bidder \in {items[b].highest_bidder, None}
    BY <1>1, <2>1, <2>3 DEF LastLeads
  <2>4. ASSUME NEW e \in HistoryBidInfo, histories'[b] = Append(histories[b], e),
               e.bidder = items'[b].highest_bidder
        PROVE  LastLeads(b)'
    <3>1. histories'[b][Len(histories'[b])] = e
      BY <2>2, <2>4
    <3> QED
      BY <2>1, <2>4, <3>1 DEF LastLeads
  <2> QED
    BY <2>1, <2>3, <2>4 DEF HistoryMoves
<1>2. CASE b \notin Auctions
  <2>1. PICK u \in Users, n \in Nfts, l \in Listings : CreateAuction(u, n, l)
    <3>1. Auctions' # Auctions
      BY <1>2
    <3>2. counter_items' # counter_items
      BY <3>1 DEF Auctions
    <3> QED
      BY <3>2, CounterStep
  <2>2. b = counter_items /\ counter_items \in Nat
    BY <1>2, <2>1, CreateAuctionEffect
  <2>3. /\ histories' = NewEntry(histories, << >>)
        /\ histories_bidder' = NewEntry(histories_bidder, [v \in Users |-> << >>])
    BY <2>1 DEF CreateAuction, ExecuteCreateAuction
  <2>4. histories'[b] = << >> /\ \A v \in Users : histories_bidder'[b][v] = << >>
    BY <2>2, <2>3 DEF NewEntry
  <2>5. \A v \in Users : OwnEntries(b, v)'
    BY <2>4 DEF OwnEntries
  <2> QED
    BY <2>4, <2>5 DEF LastLeads
<1> QED
  BY <1>1, <1>2

\* The last bid leads, in every state.
LEMMA LastLeadsAlways == Spec => [](\A a \in Auctions : LastLeads(a))
<1> DEFINE Inv == \A a \in Auctions : LastLeads(a)
<1>1. Init => Inv
  BY DEF Init, Auctions
<1>2. TypeOK /\ Inv /\ [Next]_vars => Inv'
  BY LastLeadsStep
<1> HIDE DEF Inv
<1>3. Spec => []Inv
  BY <1>1, <1>2, TypeCorrect, PTL DEF Spec
<1> QED
  BY <1>3 DEF Inv

-----------------------------------------------------------------------------
(* What the client saw. *)

\* The history of auction a tells who made the bid that `old` shows, if
\* nobody cancelled since, and at which price.
Told(a, old) ==
  old.total_bids > 0 =>
    /\ old.total_bids <= Len(histories[a])
    /\ histories[a][old.total_bids].amount = old.highest_bid
    /\ \/ histories[a][old.total_bids].bidder = old.highest_bidder
       \/ old.highest_bidder = None

\* What the client remembers fits the marketplace.
EntryFits(s) == Past(s.item, items[s.auction], s.time) /\ Told(s.auction, s.item)

\* The inductive invariant.
SeenFits == \A i \in 1 .. Len(seen) : EntryFits(seen[i])

\* What is read fits.
LEMMA FreshEntryFits ==
  ASSUME TypeOK, HistoriesAgree, NEW a \in Auctions, LastLeads(a)
  PROVE  Past(items[a], items[a], now) /\ Told(a, items[a])
<1>1. items[a] \in ItemInfo /\ histories[a] \in Seq(HistoryBidInfo)
  BY DEF TypeOK
<1>2. Past(items[a], items[a], now)
  BY <1>1, LaterSame DEF Past
<1>3. Told(a, items[a])
  <2> SUFFICES ASSUME items[a].total_bids > 0 PROVE Told(a, items[a])
    BY DEF Told
  <2>1. Len(histories[a]) = items[a].total_bids /\ items[a].total_bids \in Nat
    BY <1>1 DEF HistoriesAgree, ItemInfo
  <2>2. histories[a] # << >>
    BY <1>1, <2>1
  <2>3. histories[a][Len(histories[a])].amount = items[a].highest_bid
    BY <2>2 DEF HistoriesAgree
  <2>4. \/ histories[a][Len(histories[a])].bidder = items[a].highest_bidder
        \/ items[a].highest_bidder = None
    BY <2>2 DEF LastLeads
  <2> QED
    BY <2>1, <2>3, <2>4 DEF Told
<1> QED
  BY <1>2, <1>3

\* And still fits after a step: histories are only extended.
LEMMA EntryFitsStep ==
  ASSUME TypeOK, TypeOK', BoughtOutIsClosed, [Next]_vars, NEW s \in SeenInfo,
         s.auction \in Auctions, s.auction \in Auctions', s.time <= now, EntryFits(s)
  PROVE  EntryFits(s)'
<1>1. s.item \in ItemInfo /\ s.time \in Nat
  BY DEF SeenInfo
<1>2. Past(s.item, items'[s.auction], s.time)
  BY <1>1, PastStep DEF EntryFits
<1>3. Told(s.auction, s.item)'
  <2> SUFFICES ASSUME s.item.total_bids > 0 PROVE Told(s.auction, s.item)'
    BY DEF Told
  <2>1. s.item.total_bids \in Nat /\ histories[s.auction] \in Seq(HistoryBidInfo)
    BY <1>1 DEF TypeOK, ItemInfo
  <2>2. PICK k \in Nat : k = s.item.total_bids
    BY <2>1
  <2>3. /\ k \in 1 .. Len(histories[s.auction])
        /\ histories[s.auction][k].amount = s.item.highest_bid
        /\ \/ histories[s.auction][k].bidder = s.item.highest_bidder
           \/ s.item.highest_bidder = None
    BY <2>1, <2>2 DEF EntryFits, Told
  <2>4. k <= Len(histories'[s.auction]) /\ histories'[s.auction][k] = histories[s.auction][k]
    <3>1. \/ histories'[s.auction] = histories[s.auction]
          \/ \E e \in HistoryBidInfo : histories'[s.auction] = Append(histories[s.auction], e)
      BY HistoryStep DEF HistoryMoves
    <3> QED
      BY <2>1, <2>3, <3>1
  <2> QED
    BY <2>2, <2>3, <2>4 DEF Told
<1> QED
  BY <1>2, <1>3 DEF EntryFits

\* Every step of the marketplace or the client keeps SeenFits.
LEMMA SeenFitsStep ==
  ASSUME TypeOK, TypeOK', Paged, Paged', BoughtOutIsClosed, HistoriesAgree,
         \A a \in Auctions : LastLeads(a), SeenFits, [NextReader]_pagingVars
  PROVE  SeenFits'
<1>1. /\ seen \in Seq(SeenInfo) /\ Len(seen) \in Nat
      /\ \A i \in 1 .. Len(seen) : /\ seen[i] \in SeenInfo
                                 /\ seen[i].auction = i - 1 /\ seen[i].time <= now
  <2>1. seen \in Seq(SeenInfo)
    BY DEF Paged
  <2>2. Len(seen) \in Nat /\ \A i \in 1 .. Len(seen) : seen[i] \in SeenInfo
    BY <2>1
  <2> QED
    BY <2>1, <2>2 DEF Paged
<1>2. ASSUME [Next]_vars, seen' = seen
      PROVE  SeenFits'
  <2> SUFFICES ASSUME NEW i \in 1 .. Len(seen) PROVE EntryFits(seen[i])'
    BY <1>2 DEF SeenFits
  <2>1. PICK s \in SeenInfo : s = seen[i]
    BY <1>1
  <2>2. s.auction = i - 1 /\ s.time <= now /\ EntryFits(s)
    BY <1>1, <2>1 DEF SeenFits
  <2>3. i - 1 \in Auctions
    BY <1>1 DEF Paged, TypeOK, Auctions
  <2>4. i - 1 \in Auctions'
    <3>1. counter_items' \in Nat /\ Len(seen') <= counter_items'
      BY DEF Paged, TypeOK
    <3>2. PICK m \in Nat, c \in Nat : m = Len(seen) /\ c = counter_items'
      BY <1>1, <3>1
    <3>3. m <= c /\ i \in 1 .. m
      BY <1>2, <3>1, <3>2
    <3>4. i - 1 \in 0 .. c - 1
      BY <3>3
    <3> QED
      BY <3>2, <3>4 DEF Auctions
  <2>5. EntryFits(s)'
    BY <1>2, <2>2, <2>3, <2>4, EntryFitsStep
  <2>6. s = seen'[i]
    BY <1>2, <2>1
  <2> QED
    BY <2>5, <2>6 DEF EntryFits
<1>3. ASSUME NEW limit \in Limits, ReadPage(limit)
      PROVE  SeenFits'
  <2>1. PICK n \in Nat :
           /\ Len(seen) + n <= counter_items
           /\ seen' \in Seq(SeenInfo) /\ Len(seen') = Len(seen) + n
           /\ \A i \in 1 .. Len(seen) : seen'[i] = seen[i]
           /\ \A i \in Len(seen) + 1 .. Len(seen) + n :
                /\ i - 1 \in Auctions
                /\ seen'[i] = [auction |-> i - 1, item |-> items[i - 1], time |-> now]
    BY <1>3, ReadEffect
  <2>2. items' = items /\ now' = now /\ histories' = histories
    BY <1>3 DEF ReadPage, vars
  <2> SUFFICES ASSUME NEW i \in 1 .. Len(seen') PROVE EntryFits(seen[i])'
    BY DEF SeenFits
  <2>3. CASE i \in 1 .. Len(seen)
    <3>1. seen'[i] = seen[i] /\ EntryFits(seen[i])
      BY <2>1, <2>3 DEF SeenFits
    <3> QED
      BY <2>2, <3>1 DEF EntryFits, Told
  <2>4. CASE i \in Len(seen) + 1 .. Len(seen) + n
    <3>1. /\ i - 1 \in Auctions
          /\ seen'[i] = [auction |-> i - 1, item |-> items[i - 1], time |-> now]
      BY <2>1, <2>4
    <3>2. Past(items[i - 1], items[i - 1], now) /\ Told(i - 1, items[i - 1])
      BY <3>1, FreshEntryFits
    <3>3. seen'[i].auction = i - 1 /\ seen'[i].item = items[i - 1] /\ seen'[i].time = now
      BY <3>1
    <3> QED
      BY <2>2, <3>2, <3>3 DEF EntryFits, Told
  <2> QED
    BY <1>1, <2>1, <2>3, <2>4
<1> QED
  BY <1>2, <1>3 DEF NextReader, pagingVars

\* What the client remembers fits, in every state.
LEMMA SeenFitsAlways == SpecReader => []SeenFits
<1>1. InitReader => SeenFits
  <2> SUFFICES ASSUME InitReader PROVE SeenFits
    OBVIOUS
  <2>1. seen = << >> /\ Len(<< >>) = 0
    BY DEF InitReader
  <2> QED
    BY <2>1 DEF SeenFits
<1> DEFINE Leads == \A a \in Auctions : LastLeads(a)
<1>2. /\ TypeOK /\ TypeOK' /\ Paged /\ Paged' /\ BoughtOutIsClosed /\ HistoriesAgree
      /\ Leads /\ SeenFits /\ [NextReader]_pagingVars
      => SeenFits'
  BY SeenFitsStep
<1>3. Spec => []Leads
  BY LastLeadsAlways
<1> HIDE DEF Leads
<1> QED
  BY <1>1, <1>2, <1>3, ReaderIsSpec, TypeCorrect, PagedAlways, BoughtOutIsClosedAlways,
     HistoriesAgreeAlways, PTL DEF SpecReader

\* A page that is out of date is behind and never wrong: the terms it shows
\* still hold, the price has only risen, total_bids tells whether it has, and
\* an auction shown as over is over.
THEOREM SeenIsPastAlways == SpecReader => []SeenIsPast
<1>1. TypeOK /\ Paged /\ SeenFits => SeenIsPast
  <2> SUFFICES ASSUME TypeOK, Paged, SeenFits, NEW i \in DOMAIN seen
               PROVE  LET old == seen[i].item
                          new == Auction(seen[i].auction)
                      IN  /\ Later(old, new)
                          /\ old.end_time < seen[i].time =>
                               new \in {old, [old EXCEPT !.resolved = TRUE]}
    BY DEF SeenIsPast, Later
  <2>1. i \in 1 .. Len(seen) /\ Len(seen) \in Nat
    BY DEF Paged
  <2>2. seen[i].auction \in Auctions
    BY <2>1 DEF Paged, TypeOK, Auctions
  <2>3. Auction(seen[i].auction) = items[seen[i].auction]
    BY <2>2 DEF Auction
  <2>4. Past(seen[i].item, items[seen[i].auction], seen[i].time)
    BY <2>1 DEF SeenFits, EntryFits
  <2> QED
    BY <2>3, <2>4 DEF Past
<1> QED
  BY <1>1, PagedAlways, SeenFitsAlways, PTL

\* Whenever it is read, query_bids tells how an auction came to be what an
\* earlier page showed, at the place that the page's total_bids names, and
\* query_bidder_bids of that bidder has the same entry and only own ones.
THEOREM HistoryTellsWhatWasSeenAlways == SpecReader => []HistoryTellsWhatWasSeen
<1> DEFINE Leads == \A a \in Auctions : LastLeads(a)
<1>1. TypeOK /\ Paged /\ SeenFits /\ HistoriesAgree /\ Leads => HistoryTellsWhatWasSeen
  <2> SUFFICES ASSUME TypeOK, Paged, SeenFits, HistoriesAgree, Leads, NEW i \in DOMAIN seen,
                      seen[i].item.total_bids > 0
               PROVE  LET a == seen[i].auction
                          old == seen[i].item
                          entry == HistoryBids(a)[old.total_bids]
                      IN  /\ entry.amount = old.highest_bid
                          /\ entry.bidder = old.highest_bidder \/ old.highest_bidder = None
                          /\ Contains(HistoryBidderBids(a, entry.bidder), entry)
                          /\ \A e \in ToSet(HistoryBidderBids(a, entry.bidder)) :
                               e.bidder = entry.bidder
    BY DEF HistoryTellsWhatWasSeen
  <2>1. i \in 1 .. Len(seen) /\ Len(seen) \in Nat /\ seen[i] \in SeenInfo
    BY DEF Paged
  <2>2. PICK s \in SeenInfo : s = seen[i]
    BY <2>1
  <2>3. s.auction \in Auctions
    BY <2>1, <2>2 DEF Paged, TypeOK, Auctions
  <2>4. PICK a \in Auctions : a = s.auction
    BY <2>3
  <2>5. PICK h \in Seq(HistoryBidInfo) : h = histories[a]
    BY DEF TypeOK
  <2>6. PICK k \in Nat : k = s.item.total_bids /\ k > 0
    BY <2>2 DEF SeenInfo, ItemInfo
  <2>7. /\ k <= Len(h) /\ h[k].amount = s.item.highest_bid
        /\ h[k].bidder = s.item.highest_bidder \/ s.item.highest_bidder = None
    BY <2>1, <2>2, <2>4, <2>5, <2>6 DEF SeenFits, EntryFits, Told
  <2>8. k \in 1 .. Len(h) /\ k \in DOMAIN h /\ h[k] \in HistoryBidInfo
    BY <2>6, <2>7
  <2>9. PICK u \in Users : u = h[k].bidder
    BY <2>8 DEF HistoryBidInfo
  <2>10. PICK mine \in Seq(HistoryBidInfo) : mine = histories_bidder[a][u]
    BY DEF TypeOK
  <2>11. IsPartOf(mine, u, h)
    BY <2>5, <2>10 DEF HistoriesAgree
  <2>12. k \in PlacesOf(u, h)
    BY <2>8, <2>9 DEF PlacesOf
  <2>13. PICK n \in 1 .. Cardinality(PlacesOf(u, h)) : mine[n] = h[k]
    <3>1. Cardinality({j \in PlacesOf(u, h) : j <= k}) \in 1 .. Cardinality(PlacesOf(u, h))
      BY <2>12, PlacesCounted
    <3>2. mine[Cardinality({j \in PlacesOf(u, h) : j <= k})] = h[k]
      BY <2>11, <2>12 DEF IsPartOf
    <3> QED
      BY <3>1, <3>2
  <2>14. n \in 1 .. Len(mine)
    BY <2>11, <2>13 DEF IsPartOf
  <2>15. Contains(mine, h[k])
    BY <2>13, <2>14 DEF Contains
  <2>16. \A e \in ToSet(mine) : e.bidder = u
    <3>1. \A j \in 1 .. Len(mine) : mine[j].bidder = u
      BY <2>10 DEF LastLeads, OwnEntries
    <3>2. DOMAIN mine = 1 .. Len(mine)
      OBVIOUS
    <3> QED
      BY <3>1, <3>2 DEF ToSet
  <2>17. HistoryBids(a) = h /\ HistoryBidderBids(a, u) = mine
    BY <2>5, <2>10 DEF HistoryBids, HistoryBidderBids
  <2>18. /\ seen[i].auction = a /\ seen[i].item = s.item
         /\ HistoryBids(a)[s.item.total_bids] = h[k]
    BY <2>2, <2>4, <2>6, <2>17
  <2> HIDE DEF Leads
  <2> QED
    BY <2>7, <2>9, <2>15, <2>16, <2>17, <2>18
<1>2. Spec => []Leads
  BY LastLeadsAlways
<1> HIDE DEF Leads
<1> QED
  BY <1>1, <1>2, ReaderIsSpec, PagedAlways, SeenFitsAlways, HistoriesAgreeAlways, PTL

-----------------------------------------------------------------------------
(* Answers with zeros. *)

\* The inductive invariant: whoever has an entry in an auction that is not
\* private has bid in it.
Counted ==
  \A a \in Auctions, u \in Users :
    ~items[a].private_sale /\ bids[a][u] # None => bids[a][u].bid_counter # 0

\* Registrations start at zero but are for private sales only, bids count
\* from one on, and a retraction leaves the counter.
LEMMA CountedStep ==
  ASSUME TypeOK, Counted, [Next]_vars
  PROVE  Counted'
<1>1. \A a \in Auctions, u \in Users :
        ~items[a].private_sale /\ bids[a][u] # None => bids[a][u].bid_counter # 0
  BY DEF Counted
<1> SUFFICES ASSUME NEW b \in Auctions', NEW v \in Users, ~items'[b].private_sale,
                    bids'[b][v] # None
             PROVE  bids'[b][v].bid_counter # 0
  BY DEF Counted
<1>2. ASSUME b \in Auctions, items'[b].private_sale = items[b].private_sale,
             bids'[b][v] = bids[b][v]
      PROVE  bids'[b][v].bid_counter # 0
  BY <1>1, <1>2
<1>3. ASSUME NEW u \in Users, NEW n \in Nfts, NEW l \in Listings, CreateAuction(u, n, l)
      PROVE  bids'[b][v].bid_counter # 0
  <2>1. b # counter_items
    BY <1>3, CreateAuctionEffect
  <2>2. b \in Auctions /\ items'[b] = items[b] /\ bids'[b] = bids[b]
    BY <1>3, <2>1, CreateAuctionEffect
  <2> QED
    BY <1>2, <2>2
<1>4. ASSUME NEW u \in Users, NEW a \in Auctions, RegisterPrivateSale(u, a)
      PROVE  bids'[b][v].bid_counter # 0
  <2>1. b \in Auctions /\ items' = items /\ items[a].private_sale
    BY <1>4, SameAuctions DEF RegisterPrivateSale, ExecuteRegisterPrivateSale
  <2>2. b # a
    BY <2>1
  <2>3. bids'[b][v] = bids[b][v]
    BY <1>4, <2>1, <2>2, RegisterPrivateSaleEffect
  <2> QED
    BY <1>2, <2>1, <2>3
<1>5. ASSUME NEW u \in Users, NEW a \in Auctions, NEW sent \in Amounts,
             PlaceBid(u, a, sent) \/ InstantBuy(u, a, sent)
      PROVE  bids'[b][v].bid_counter # 0
  <2>1. /\ b \in Auctions
        /\ items'[a].private_sale = items[a].private_sale
        /\ b # a => items'[b] = items[b]
    BY <1>5, BidEffect
  <2>2. CASE b = a /\ v = u
    <3>1. /\ bids[a][u] = None => bids'[a][u].bid_counter = 1
          /\ bids[a][u] # None => bids'[a][u].bid_counter = bids[a][u].bid_counter + 1
      BY <1>5, BidEntry
    <3>2. bids[a][u] # None => bids[a][u].bid_counter \in Nat
      BY DEF TypeOK, Option, BidInfo
    <3> QED
      BY <2>2, <3>1, <3>2
  <2>3. CASE b # a \/ v # u
    <3>1. bids'[b][v] = bids[b][v]
      BY <1>5, <2>1, <2>3, BidEffect
    <3> QED
      BY <1>2, <2>1, <3>1
  <2> QED
    BY <2>2, <2>3
<1>6. ASSUME NEW u \in Users, NEW a \in Auctions,
             NEW extra \in Extras, RetractBids(u, a, extra)
      PROVE  bids'[b][v].bid_counter # 0
  <2>1. b \in Auctions /\ items' = items
    BY <1>6, SameAuctions DEF RetractBids, ExecuteRetractBids
  <2>2. CASE b = a /\ v = u
    <3>1. bids[a][u] \in BidInfo /\ bids[a][u] # None
      BY <1>6, RetractBidsEffect, NoneIsNoRecord
    <3>2. bids' = [bids EXCEPT ![a][u] =
                     [bids[a][u] EXCEPT !.total_bid = 0, !.resolved = TRUE]]
      BY <1>6 DEF RetractBids, ExecuteRetractBids
    <3>3. bids'[a][u] = [bids[a][u] EXCEPT !.total_bid = 0, !.resolved = TRUE]
      BY <3>2 DEF TypeOK
    <3>4. bids'[a][u].bid_counter = bids[a][u].bid_counter
      BY <3>1, <3>3 DEF BidInfo
    <3> QED
      BY <1>1, <2>1, <2>2, <3>1, <3>4
  <2>3. CASE b # a \/ v # u
    <3>1. bids'[b][v] = bids[b][v]
      BY <1>6, <2>1, <2>3, RetractBidsEffect
    <3> QED
      BY <1>2, <2>1, <3>1
  <2> QED
    BY <2>2, <2>3
<1>7. ASSUME NEW a \in Auctions, NEW extra \in Extras, WithdrawNft(a, extra)
      PROVE  bids'[b][v].bid_counter # 0
  <2>1. b \in Auctions /\ bids' = bids
    BY <1>7, SameAuctions DEF WithdrawNft, ExecuteWithdrawNft
  <2>2. items'[b].private_sale = items[b].private_sale
    BY <1>7, <2>1, SettlementKeepsTerms DEF TermsKept
  <2> QED
    BY <1>2, <2>1, <2>2
<1>8. ASSUME NEW u \in Users, NEW a \in Auctions,
             NEW extra \in Extras, CancelAuction(u, a, extra)
      PROVE  bids'[b][v].bid_counter # 0
  <2>1. b \in Auctions /\ bids' = bids
    BY <1>8, SameAuctions DEF CancelAuction, ExecuteCancelAuction
  <2>2. items'[a].private_sale = items[a].private_sale
    BY <1>8, CancellationCloses
  <2>3. b # a => items'[b] = items[b]
    BY <1>8, <2>1, CancelAuctionEffect
  <2> QED
    BY <1>2, <2>1, <2>2, <2>3
<1>9. ASSUME UNCHANGED << counter_items, items, bids >>
      PROVE  bids'[b][v].bid_counter # 0
  BY <1>2, <1>9, SameAuctions
<1>10. CASE \/ Tick \/ UNCHANGED vars
            \/ \E u \in Users, fee \in RoyaltyFees, r \in Option(Users), extra \in Extras :
                 UpdateRoyalty(u, fee, r, extra)
  BY <1>9, <1>10 DEF Tick, vars, UpdateRoyalty
<1> QED
  BY <1>3, <1>4, <1>5, <1>6, <1>7, <1>8, <1>10 DEF Next

\* The zeros that query_bidder answers with where there is no entry are told
\* apart from every entry by sity_used in a private sale and by bid_counter in
\* any other, and query_royalty announces the fee that withdraw_nft takes.
THEOREM AnswersAreEnoughAlways == SpecReader => []AnswersAreEnough
<1>1. Init => Counted
  BY DEF Init, Counted, Auctions
<1>2. TypeOK /\ Counted /\ [Next]_vars => Counted'
  BY CountedStep
<1>3. Spec => []Counted
  BY <1>1, <1>2, TypeCorrect, PTL DEF Spec
<1>4. TypeOK /\ Counted /\ PrivateBiddersRegistered => AnswersAreEnough
  <2> SUFFICES ASSUME TypeOK, Counted, PrivateBiddersRegistered PROVE AnswersAreEnough
    OBVIOUS
  <2>1. ASSUME NEW a \in Auctions, NEW u \in Users
        PROVE  IF items[a].private_sale
               THEN Bidder(a, u).sity_used = None <=> bids[a][u] = None
               ELSE Bidder(a, u).bid_counter = 0 <=> bids[a][u] = None
    <3>1. CASE bids[a][u] = None
      BY <3>1 DEF Bidder
    <3>2. CASE bids[a][u] # None
      <4>1. /\ Bidder(a, u).sity_used = bids[a][u].sity_used
            /\ Bidder(a, u).bid_counter = bids[a][u].bid_counter
        BY <3>2 DEF Bidder
      <4> QED
        BY <3>2, <4>1 DEF Counted, PrivateBiddersRegistered
    <3> QED
      BY <3>1, <3>2
  <2>2. ASSUME NEW n \in Nfts, MinterOf(n) # None
        PROVE  RoyaltyOffered(MinterOf(n)).fee = RoyaltyOf(n)
    BY <2>2 DEF RoyaltyOffered, RoyaltyOf
  <2> QED
    BY <2>1, <2>2 DEF AnswersAreEnough
<1> QED
  BY <1>3, <1>4, ReaderIsSpec, TypeCorrect, PrivateBiddersRegisteredAlways, PTL
=============================================================================
