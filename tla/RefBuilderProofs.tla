--------------------------- MODULE RefBuilderProofs ---------------------------
(***************************************************************************)
(* Proofs about RefBuilder, for arrays of any dimensions and expressions of  *)
(* any nesting: addresses come back to the assignments that asked for them,  *)
(* and are those of the elements that the source names.                      *)
(*                                                                          *)
(* The inductive invariant IInv says of each visitor under way what it has   *)
(* kept (FrameOK) and what it was asked for (Fits), and of the flag that it  *)
(* is up exactly while the visitor on top is an assignment that waits for    *)
(* its left side (NeedOK).  A visitor of indexes keeps the offset that       *)
(* RowMajor gives when the indexes still to come are 0 (Summed): an index     *)
(* adds its stride, which is the product of the dimensions behind it         *)
(* (OneMoreIndex, by induction over the dimensions).                         *)
(***************************************************************************)
EXTENDS RefBuilder, Induction, SequenceTheorems

-----------------------------------------------------------------------------
(* Strides and offsets.                                                     *)

\* A dimension is a number.
LEMMA DimFacts ==
    ASSUME NEW x \in Vars
    PROVE  /\ Dims[x] \in Seq(Nat) /\ Len(Dims[x]) \in Nat
           /\ \A j \in 1 .. Len(Dims[x]) : Dims[x][j] \in Nat
           /\ \A at \in Nat : DimAt(x, at) \in Nat
           /\ \A j \in 1 .. Len(Dims[x]) : DimAt(x, Len(Dims[x]) - j) = Dims[x][j]
  <1>1. Dims[x] \in Seq(Nat)  BY ConstantsAssumption
  <1> DEFINE dims == Dims[x]
             l == Len(dims)
  <1>2. l \in Nat /\ \A j \in 1 .. l : dims[j] \in Nat  BY <1>1
  <1>3. ASSUME NEW at \in Nat PROVE DimAt(x, at) \in Nat
    <2>1. CASE at < l
      <3>1. l - at \in 1 .. l  BY <1>2, <2>1
      <3>2. DimAt(x, at) = dims[l - at]  BY <2>1 DEF DimAt
      <3>3. QED  BY <1>2, <3>1, <3>2
    <2>2. CASE ~(at < l)
      BY <2>2 DEF DimAt
    <2>3. QED  BY <2>1, <2>2
  <1>4. ASSUME NEW j \in 1 .. l PROVE DimAt(x, l - j) = dims[j]
    <2>1. l - j < l /\ l - (l - j) = j  BY <1>2
    <2>2. QED  BY <2>1 DEF DimAt
  <1>5. QED  BY <1>1, <1>2, <1>3, <1>4

\* The recursion of Product.
LEMMA ProductFunction ==
    ASSUME NEW x \in Vars, NEW n \in Nat
    PROVE  \E g \in [0 .. n -> Nat] :
               /\ g[0] = 1
               /\ \A k \in 1 .. n : g[k] = g[k - 1] * DimAt(x, k - 1)
               /\ Product(x, n) = g[n]
  <1> DEFINE step == [p \in Nat \X (1 .. n) |-> p[1] * DimAt(x, p[2] - 1)]
             Rule(f) == [k \in 0 .. n |-> IF k = 0 THEN 1 ELSE f[k - 1] * DimAt(x, k - 1)]
             f == CHOOSE h : h = Rule(h)
  <1>1. \A k \in 1 .. n : DimAt(x, k - 1) \in Nat
    <2>1. \A k \in 1 .. n : k - 1 \in Nat  OBVIOUS
    <2>2. QED  BY <2>1, DimFacts
  <1>2. step \in Steps(Nat, n)
    <2>1. \A p \in Nat \X (1 .. n) : p[1] * DimAt(x, p[2] - 1) \in Nat
      <3> SUFFICES ASSUME NEW p \in Nat \X (1 .. n) PROVE p[1] * DimAt(x, p[2] - 1) \in Nat
        OBVIOUS
      <3>1. p[1] \in Nat /\ DimAt(x, p[2] - 1) \in Nat  BY <1>1
      <3>2. QED  BY <3>1
    <2>2. QED  BY <2>1 DEF Steps
  <1>3. \A v \in Nat, k \in 1 .. n : step[<<v, k>>] = v * DimAt(x, k - 1)
    OBVIOUS
  <1> HIDE DEF step
  <1>4. PICK g : Computes(g, Nat, 1, n, step)
    BY <1>2, RecursiveFunction
  <1>5. g \in [0 .. n -> Nat] /\ g[0] = 1 /\ \A k \in 1 .. n : g[k] = step[<<g[k - 1], k>>]
    BY <1>4 DEF Computes
  <1>6. ASSUME NEW k \in 1 .. n PROVE g[k] = g[k - 1] * DimAt(x, k - 1)
    <2>1. k - 1 \in 0 .. n  OBVIOUS
    <2>2. QED  BY <1>3, <1>5, <2>1
  <1>7. g = Rule(g)
    <2>1. \A k \in 0 .. n : k # 0 => k \in 1 .. n  OBVIOUS
    <2>2. QED  BY <1>5, <1>6, <2>1
  <1>8. f = Rule(f)
    <2> HIDE DEF Rule
    <2>1. QED  BY <1>7
  <1>9. Product(x, n) = f[n]  BY DEF Product
  <1>10. f[0] = 1 /\ \A k \in 1 .. n : f[k] = f[k - 1] * DimAt(x, k - 1)
    <2>1. 0 \in 0 .. n /\ \A k \in 1 .. n : k \in 0 .. n /\ k # 0  OBVIOUS
    <2> HIDE DEF f
    <2>2. QED  BY <1>8, <2>1
  <1>11. Alike(f, g, n)
    <2> HIDE DEF f
    <2>1. QED  BY <1>5, <1>6, <1>10 DEF Alike
  <1>12. f[n] = g[n]
    <2>1. n \in 0 .. n  OBVIOUS
    <2> HIDE DEF f
    <2>2. QED  BY <1>11, <2>1, SameSteps
  <1>13. QED  BY <1>5, <1>6, <1>9, <1>12

\* One more dimension.
LEMMA ProductFacts ==
    ASSUME NEW x \in Vars, NEW n \in Nat
    PROVE  /\ Product(x, 0) = 1 /\ Product(x, n) \in Nat
           /\ Product(x, n + 1) = Product(x, n) * DimAt(x, n)
  <1>1. PICK g \in [0 .. n -> Nat] :
               /\ g[0] = 1
               /\ \A k \in 1 .. n : g[k] = g[k - 1] * DimAt(x, k - 1)
               /\ Product(x, n) = g[n]
    BY ProductFunction
  <1>2. PICK h \in [0 .. n + 1 -> Nat] :
               /\ h[0] = 1
               /\ \A k \in 1 .. n + 1 : h[k] = h[k - 1] * DimAt(x, k - 1)
               /\ Product(x, n + 1) = h[n + 1]
    <2>1. n + 1 \in Nat  OBVIOUS
    <2>2. QED  BY <2>1, ProductFunction
  <1>3. Alike(h, g, n)
    <2>1. \A k \in 1 .. n : k \in 1 .. n + 1  OBVIOUS
    <2>2. QED  BY <1>1, <1>2, <2>1 DEF Alike
  <1>4. h[n] = g[n]
    <2>1. n \in 0 .. n  OBVIOUS
    <2>2. QED  BY <1>3, <2>1, SameSteps
  <1>5. h[n + 1] = h[n] * DimAt(x, n)
    <2>1. n + 1 \in 1 .. n + 1 /\ n + 1 - 1 = n  OBVIOUS
    <2>2. QED  BY <1>2, <2>1
  <1>6. Product(x, 0) = 1
    <2>1. \E f \in [0 .. 0 -> Nat] : f[0] = 1 /\ Product(x, 0) = f[0]
      <3>1. 0 \in Nat  OBVIOUS
      <3>2. QED  BY <3>1, ProductFunction
    <2>2. QED  BY <2>1
  <1>7. g[n] \in Nat
    <2>1. n \in 0 .. n  OBVIOUS
    <2>2. QED  BY <1>1, <2>1
  <1>8. QED  BY <1>1, <1>2, <1>4, <1>5, <1>6, <1>7

\* The j-th of the indexes that are given, and 0 for one that is not.
Given(s, j) == IF j <= Len(s) THEN s[j] ELSE 0

\* An index is a number.
LEMMA GivenFacts ==
    ASSUME NEW s \in Seq(Nat), NEW j \in Nat \ {0}
    PROVE  Given(s, j) \in Nat
  <1>1. j <= Len(s) => j \in 1 .. Len(s)  OBVIOUS
  <1>2. QED  BY <1>1 DEF Given

\* Sums of products, ...
LEMMA SumType ==
    ASSUME NEW a \in Nat, NEW b \in Nat, NEW c \in Nat
    PROVE  a * b \in Nat /\ (a * b + c) \in Nat
  <1>1. a * b \in Nat  OBVIOUS
  <1> DEFINE ab == a * b
  <1>2. ab \in Nat  BY <1>1
  <1> HIDE DEF ab
  <1>3. (ab + c) \in Nat  BY <1>2
  <1>4. QED  BY <1>1, <1>3 DEF ab

\* ... and two of them, in the same step, with the products that are still to come.
LEMMA Distribute ==
    ASSUME NEW a \in Nat, NEW b \in Nat, NEW dim \in Nat, NEW new \in Nat, NEW p \in Nat,
           NEW more \in Nat, a * (p * dim) = b * (p * dim) + more
    PROVE  (a * dim + new) * p = (b * dim + new) * p + more
  <1>1. (a * dim + new) * p = a * (p * dim) + new * p  OBVIOUS
  <1>2. (b * dim + new) * p = b * (p * dim) + new * p  OBVIOUS
  <1> DEFINE x == a * (p * dim)
             y == b * (p * dim)
             z == new * p
  <1>3. p * dim \in Nat  OBVIOUS
  <1>4. y \in Nat /\ z \in Nat
    <2> DEFINE q == p * dim
    <2>1. q \in Nat  BY <1>3
    <2> HIDE DEF q
    <2>2. b * q \in Nat /\ new * p \in Nat  BY <2>1
    <2>3. QED  BY <2>2 DEF q
  <1>5. x = y + more  OBVIOUS
  <1> HIDE DEF x, y, z
  <1>6. x + z = (y + z) + more  BY <1>4, <1>5
  <1>7. QED  BY <1>1, <1>2, <1>6 DEF x, y, z

\* The recursion of RowMajor.
LEMMA OffsetFunction ==
    ASSUME NEW x \in Vars, NEW s \in Seq(Nat)
    PROVE  \E g \in [0 .. Len(Dims[x]) -> Nat] :
               /\ g[0] = 0
               /\ \A j \in 1 .. Len(Dims[x]) : g[j] = g[j - 1] * Dims[x][j] + Given(s, j)
               /\ RowMajor(x, s) = g[Len(Dims[x])]
  <1> DEFINE n == Len(Dims[x])
             dims == Dims[x]
             step == [p \in Nat \X (1 .. n) |-> p[1] * dims[p[2]] + Given(s, p[2])]
             Rule(f) == [j \in 0 .. n |-> IF j = 0 THEN 0
                                          ELSE f[j - 1] * dims[j] + (IF j <= Len(s) THEN s[j] ELSE 0)]
             f == CHOOSE h : h = Rule(h)
  <1>1. n \in Nat /\ \A j \in 1 .. n : dims[j] \in Nat /\ Given(s, j) \in Nat
    <2>1. dims \in Seq(Nat) /\ n \in Nat  BY DimFacts
    <2>2. \A j \in 1 .. n : j \in Nat \ {0}  OBVIOUS
    <2>3. \A j \in 1 .. n : dims[j] \in Nat  BY <2>1
    <2> HIDE DEF n, dims
    <2>4. QED  BY <2>1, <2>2, <2>3, GivenFacts
  <1>2. RowMajor(x, s) = f[n]  BY DEF RowMajor
  <1>3. Rule(f) = [j \in 0 .. n |-> IF j = 0 THEN 0 ELSE f[j - 1] * dims[j] + Given(s, j)]
    BY DEF Given
  <1> HIDE DEF n, dims
  <1>4. step \in Steps(Nat, n)
    <2>1. \A p \in Nat \X (1 .. n) : (p[1] * dims[p[2]] + Given(s, p[2])) \in Nat
      <3> SUFFICES ASSUME NEW p \in Nat \X (1 .. n)
                   PROVE  (p[1] * dims[p[2]] + Given(s, p[2])) \in Nat
        OBVIOUS
      <3>1. p[1] \in Nat /\ dims[p[2]] \in Nat /\ Given(s, p[2]) \in Nat  BY <1>1
      <3>2. QED  BY <3>1, SumType
    <2>2. QED  BY <2>1 DEF Steps
  <1>5. \A v \in Nat, j \in 1 .. n : step[<<v, j>>] = v * dims[j] + Given(s, j)
    OBVIOUS
  <1> HIDE DEF step
  <1>6. PICK g : Computes(g, Nat, 0, n, step)
    <2>1. 0 \in Nat  OBVIOUS
    <2>2. QED  BY <1>1, <1>4, <2>1, RecursiveFunction
  <1>7. g \in [0 .. n -> Nat] /\ g[0] = 0 /\ \A j \in 1 .. n : g[j] = step[<<g[j - 1], j>>]
    BY <1>6 DEF Computes
  <1>8. ASSUME NEW j \in 1 .. n PROVE g[j] = g[j - 1] * dims[j] + Given(s, j)
    <2>1. j - 1 \in 0 .. n  BY <1>1
    <2>2. QED  BY <1>5, <1>7, <2>1
  <1>9. g = Rule(g)
    <2>1. \A j \in 0 .. n : j # 0 => j \in 1 .. n  BY <1>1
    <2>2. \A j \in 0 .. n : g[j] = IF j = 0 THEN 0 ELSE g[j - 1] * dims[j] + Given(s, j)
      BY <1>7, <1>8, <2>1
    <2>3. \A j \in 0 .. n : g[j] = Rule(g)[j]  BY <2>2 DEF Given
    <2>4. QED  BY <1>7, <2>3
  <1>10. f = Rule(f)
    <2> HIDE DEF Rule
    <2>1. QED  BY <1>9
  <1>11. f[0] = 0 /\ \A j \in 1 .. n : f[j] = f[j - 1] * dims[j] + Given(s, j)
    <2>1. 0 \in 0 .. n /\ \A j \in 1 .. n : j \in 0 .. n /\ j # 0  BY <1>1
    <2> DEFINE r == [j \in 0 .. n |-> IF j = 0 THEN 0 ELSE f[j - 1] * dims[j] + Given(s, j)]
    <2>2. f = r  BY <1>3, <1>10
    <2>3. r[0] = 0 /\ \A j \in 1 .. n : r[j] = f[j - 1] * dims[j] + Given(s, j)
      <3> HIDE DEF f
      <3>1. QED  BY <2>1
    <2> HIDE DEF f, r
    <2>4. QED  BY <2>2, <2>3
  <1> HIDE DEF f
  <1>12. Alike(f, g, n)
    BY <1>7, <1>8, <1>11 DEF Alike
  <1>13. f[n] = g[n]
    <2>1. n \in 0 .. n  BY <1>1
    <2>2. QED  BY <1>1, <1>12, <2>1, SameSteps
  <1>14. QED  BY <1>2, <1>7, <1>8, <1>13 DEF n, dims

\* No index, no offset.
LEMMA NoOffset ==
    ASSUME NEW x \in Vars, NEW s \in Seq(Nat), \A j \in DOMAIN s : s[j] = 0
    PROVE  RowMajor(x, s) = 0
  <1> DEFINE n == Len(Dims[x])
  <1>1. n \in Nat /\ \A j \in 1 .. n : Dims[x][j] \in Nat
    <2>1. Dims[x] \in Seq(Nat)  BY DimFacts
    <2>2. QED  BY <2>1
  <1>2. PICK g \in [0 .. n -> Nat] :
               /\ g[0] = 0
               /\ \A j \in 1 .. n : g[j] = g[j - 1] * Dims[x][j] + Given(s, j)
               /\ RowMajor(x, s) = g[n]
    BY OffsetFunction
  <1>3. \A j \in 1 .. n : Given(s, j) = 0
    <2>1. \A j \in 1 .. n : j <= Len(s) => j \in DOMAIN s  OBVIOUS
    <2>2. QED  BY <2>1 DEF Given
  <1> HIDE DEF n
  <1> DEFINE zero == [j \in 0 .. n |-> 0]
  <1>4. Alike(g, zero, n)
    <2>1. \A j \in 0 .. n : zero[j] = 0  OBVIOUS
    <2>2. 0 \in 0 .. n /\ \A j \in 1 .. n : j \in 0 .. n /\ j - 1 \in 0 .. n  BY <1>1
    <2> HIDE DEF zero
    <2>3. ASSUME NEW j \in 1 .. n, g[j - 1] = zero[j - 1] PROVE g[j] = zero[j]
      <3>1. g[j] = 0 * Dims[x][j] + 0  BY <1>2, <1>3, <2>1, <2>2, <2>3
      <3>2. Dims[x][j] \in Nat  BY <1>1
      <3>3. QED  BY <2>1, <2>2, <3>1, <3>2
    <2>4. QED  BY <1>2, <2>1, <2>2, <2>3 DEF Alike
  <1>5. n \in 0 .. n  BY <1>1
  <1>6. zero[n] = 0  BY <1>5
  <1> HIDE DEF zero
  <1>7. g[n] = zero[n]  BY <1>1, <1>4, <1>5, SameSteps
  <1>8. QED  BY <1>2, <1>6, <1>7

\* The sequences differ in the index at m, which is i instead of 0.
Adds(s, t, m, i) ==
    /\ Len(s) = Len(t) /\ m <= Len(s) /\ s[m] = 0 /\ t[m] = i
    /\ \A j \in DOMAIN s : j # m => t[j] = s[j]

\* An index that was 0 counts its stride: the product of the dimensions behind it.
LEMMA OneMoreIndex ==
    ASSUME NEW x \in Vars, NEW s \in Seq(Nat), NEW t \in Seq(Nat), NEW m \in 1 .. Len(Dims[x]),
           NEW i \in Nat, Adds(s, t, m, i)
    PROVE  RowMajor(x, t) = RowMajor(x, s) + i * Product(x, Len(Dims[x]) - m)
  <1> DEFINE n == Len(Dims[x])
             P(k) == Product(x, n - k)
  <1>1. /\ n \in Nat /\ m \in Nat /\ 1 <= m /\ m <= n
        /\ \A j \in 1 .. n : Dims[x][j] \in Nat /\ DimAt(x, n - j) = Dims[x][j]
    <2>1. Dims[x] \in Seq(Nat) /\ n \in Nat
          /\ \A j \in 1 .. n : DimAt(x, n - j) = Dims[x][j]
      BY DimFacts
    <2>2. \A j \in 1 .. n : Dims[x][j] \in Nat  BY DimFacts
    <2>3. m \in 1 .. n  OBVIOUS
    <2> HIDE DEF n
    <2>4. QED  BY <2>1, <2>2, <2>3
  <1>2. \A j \in 1 .. n : /\ Given(s, j) \in Nat /\ Given(t, j) \in Nat
                          /\ j # m => Given(t, j) = Given(s, j)
    <2>1. ASSUME NEW j \in 1 .. n, j # m PROVE Given(t, j) = Given(s, j)
      <3>1. j <= Len(s) => j \in DOMAIN s  OBVIOUS
      <3>2. QED  BY <2>1, <3>1 DEF Given, Adds
    <2>2. \A j \in 1 .. n : j \in Nat \ {0}  OBVIOUS
    <2> HIDE DEF n
    <2>3. QED  BY <2>1, <2>2, GivenFacts
  <1>3. Given(s, m) = 0 /\ Given(t, m) = i  BY DEF Given, Adds
  <1>4. PICK g \in [0 .. n -> Nat] :
               /\ g[0] = 0
               /\ \A j \in 1 .. n : g[j] = g[j - 1] * Dims[x][j] + Given(s, j)
               /\ RowMajor(x, s) = g[n]
    BY OffsetFunction
  <1>5. PICK h \in [0 .. n -> Nat] :
               /\ h[0] = 0
               /\ \A j \in 1 .. n : h[j] = h[j - 1] * Dims[x][j] + Given(t, j)
               /\ RowMajor(x, t) = h[n]
    BY OffsetFunction
  <1>6. \A j \in 0 .. n : P(j) \in Nat
    <2>1. \A j \in 0 .. n : n - j \in Nat  BY <1>1
    <2> HIDE DEF n
    <2>2. QED  BY <2>1, ProductFacts
  <1>7. \A j \in 1 .. n : P(j - 1) = P(j) * Dims[x][j]
    <2> SUFFICES ASSUME NEW j \in 1 .. n PROVE P(j - 1) = P(j) * Dims[x][j]
      OBVIOUS
    <2>1. n - j \in Nat /\ n - (j - 1) = n - j + 1  BY <1>1
    <2> HIDE DEF n
    <2>2. Product(x, n - j + 1) = Product(x, n - j) * DimAt(x, n - j)  BY <2>1, ProductFacts
    <2>3. QED  BY <1>1, <2>1, <2>2
  <1>8. P(n) = 1
    <2>1. n - n = 0  BY <1>1
    <2>2. Product(x, 0) = 1
      <3>1. 0 \in Nat  OBVIOUS
      <3>2. QED  BY <3>1, ProductFacts
    <2>3. QED  BY <2>1, <2>2
  <1> HIDE DEF n, P
  \* in front of the index nothing changes
  <1>9. h[m - 1] = g[m - 1]
    <2>1. PICK k \in Nat : k = m - 1  BY <1>1
    <2>2. ASSUME NEW j \in 1 .. k, h[j - 1] = g[j - 1] PROVE h[j] = g[j]
      <3>1. j \in 1 .. n /\ j # m  BY <1>1, <2>1
      <3>2. QED  BY <1>2, <1>4, <1>5, <2>2, <3>1
    <2>3. h[0] = g[0]  BY <1>4, <1>5
    <2>4. Alike(h, g, k)  BY <2>2, <2>3 DEF Alike
    <2>5. \A j \in 0 .. k : h[j] = g[j]  BY <2>4, SameSteps
    <2>6. k \in 0 .. k  OBVIOUS
    <2>7. QED  BY <2>1, <2>5, <2>6
  \* from it on the difference is the index times its stride
  <1> DEFINE Ahead(k) == h[k] * P(k) = g[k] * P(k) + i * P(m)
             S == {d \in Nat : m + d <= n => Ahead(m + d)}
  <1>10. 0 \in S
    <2>1. m \in 1 .. n /\ m \in 0 .. n /\ m - 1 \in 0 .. n  BY <1>1
    <2>2. h[m] = h[m - 1] * Dims[x][m] + i /\ g[m] = h[m - 1] * Dims[x][m] + 0
      BY <1>3, <1>4, <1>5, <1>9, <2>1
    <2>3. h[m - 1] * Dims[x][m] \in Nat
      <3>1. h[m - 1] \in Nat /\ Dims[x][m] \in Nat  BY <1>1, <1>5, <2>1
      <3>2. QED  BY <3>1
    <2>4. h[m] = g[m] + i /\ g[m] \in Nat /\ P(m) \in Nat  BY <1>6, <2>1, <2>2, <2>3
    <2>5. Ahead(m)  BY <2>4
    <2>6. m + 0 = m  BY <1>1
    <2> HIDE DEF Ahead
    <2>7. QED  BY <2>5, <2>6
  <1>11. ASSUME NEW d \in Nat, d \in S PROVE d + 1 \in S
    <2> SUFFICES ASSUME m + (d + 1) <= n PROVE Ahead(m + (d + 1))
      OBVIOUS
    <2> DEFINE k == m + d
    <2>1. k \in Nat /\ k \in 0 .. n /\ k + 1 \in 1 .. n /\ k + 1 \in 0 .. n /\ k + 1 - 1 = k
          /\ m + (d + 1) = k + 1 /\ k + 1 # m
      BY <1>1
    <2>2. Ahead(k)  BY <1>11, <2>1
    <2> HIDE DEF k, S
    <2> DEFINE dim == Dims[x][k + 1]
               new == Given(s, k + 1)
    <2>3. dim \in Nat /\ new \in Nat /\ Given(t, k + 1) = new  BY <1>1, <1>2, <2>1
    <2>4. h[k + 1] = h[k] * dim + new /\ g[k + 1] = g[k] * dim + new
      BY <1>4, <1>5, <2>1, <2>3
    <2>5. P(k) = P(k + 1) * dim  BY <1>7, <2>1
    <2>6. h[k] \in Nat /\ g[k] \in Nat /\ P(k) \in Nat /\ P(k + 1) \in Nat /\ P(m) \in Nat
      <3>1. m \in 0 .. n  BY <1>1
      <3>2. QED  BY <1>4, <1>5, <1>6, <2>1, <3>1
    <2> HIDE DEF dim, new
    <2> DEFINE a == h[k]
               b == g[k]
               p == P(k + 1)
               more == i * P(m)
    <2>7. more \in Nat  BY <2>6, SumType
    <2>8. a * (p * dim) = b * (p * dim) + more  BY <2>2, <2>5
    <2>9. a \in Nat /\ b \in Nat /\ p \in Nat  BY <2>6
    <2> HIDE DEF a, b, p, more
    <2>10. (a * dim + new) * p = (b * dim + new) * p + more
      BY <2>3, <2>7, <2>8, <2>9, Distribute
    <2>11. Ahead(k + 1)  BY <2>4, <2>10 DEF a, b, p, more
    <2> HIDE DEF Ahead
    <2>12. QED  BY <2>1, <2>11
  <1>12. Ahead(n)
    <2>1. n - m \in Nat /\ m + (n - m) = n /\ n <= n  BY <1>1
    <2>2. Nat \subseteq S
      <3> HIDE DEF S
      <3>1. QED  BY <1>10, <1>11, InductionOnSet
    <2> HIDE DEF Ahead
    <2>3. n - m \in S  BY <2>1, <2>2
    <2>4. QED  BY <2>1, <2>3
  <1>13. n \in 0 .. n /\ h[n] \in Nat /\ g[n] \in Nat
    <2>1. n \in 0 .. n  BY <1>1
    <2>2. QED  BY <1>4, <1>5, <2>1
  <1>14. h[n] * 1 = g[n] * 1 + i * P(m)  BY <1>8, <1>12
  <1>15. i * P(m) \in Nat
    <2>1. m \in 0 .. n  BY <1>1
    <2>2. P(m) \in Nat  BY <1>6, <2>1
    <2>3. QED  BY <2>2
  <1>16. h[n] = g[n] + i * P(m)
    <2> DEFINE ip == i * P(m)
    <2>1. ip \in Nat /\ h[n] * 1 = g[n] * 1 + ip  BY <1>14, <1>15
    <2> HIDE DEF ip
    <2>2. h[n] = g[n] + ip  BY <1>13, <2>1
    <2>3. QED  BY <2>2 DEF ip
  <1>17. QED  BY <1>4, <1>5, <1>16 DEF P, n

-----------------------------------------------------------------------------
(* The inductive invariant.                                                 *)

\* What the visitors pass on and keep.
Kind == {"left", "right", "call", "target", "source", "index"}
Val == [kind : {"value", "address"}, var : Vars \cup {""}, off : Nat]
Aim == [var : Vars \cup Params \cup {""}, given : Seq(Nat)]
Frame == [kind : Kind, n : Nat, aim : Aim, dest : Val, need : BOOLEAN,
          stride : Nat, at : Nat, sum : Nat]

\* The kind of the i-th visitor, and of the one that waits for the present visit.
KindAt(fs, i) == IF i \in DOMAIN fs THEN fs[i].kind ELSE "none"
OuterKind(fs) == KindAt(fs, Len(fs))

\* The loop over the indexes: `n` are left, the sum is the offset with 0 for them, and
\* the stride is the product of the dimensions behind the next one.
Zeros(n) == [i \in 1 .. n |-> 0]
Summed(f) ==
    LET x == f.aim.var IN
    /\ x \in Vars /\ f.n + Len(f.aim.given) <= Len(Dims[x])
    /\ f.at = Len(Dims[x]) - f.n /\ f.stride = Product(x, f.at)
    /\ f.sum = RowMajor(x, Zeros(f.n) \o f.aim.given)

\* The right side of an assignment is visited with the address of the left side.
Aimed(aim, dest) ==
    aim.var \in Vars => dest = Address(aim.var, RowMajor(aim.var, aim.given))
FrameOK(f) ==
    /\ f.kind = "index" => f.n # 0 /\ Summed(f)
    /\ f.kind = "source" => Aimed(f.aim, f.dest)

\* Only references are visited for their address, and a visitor of indexes keeps what
\* was asked of it.
Fits(outer, f) ==
    /\ f.kind = "index" => (f.need <=> outer = "target")
    /\ outer = "target" => f.kind = "index"
StackOK(fs) ==
    /\ fs \in Seq(Frame)
    /\ \A i \in DOMAIN fs : FrameOK(fs[i]) /\ Fits(KindAt(fs, i - 1), fs[i])

\* The flag is up exactly while an assignment waits for its left side.
NeedOK(np, fs) == np \in BOOLEAN /\ (np <=> OuterKind(fs) = "target")

\* What has come back: an address for a left side in memory, else a value.
LastOK(l, fs) ==
    IF OuterKind(fs) = "target"
    THEN LET aim == fs[Len(fs)].aim IN
         /\ aim.var \in Vars \cup Params
         /\ aim.var \in Params => l.kind = "value"
         /\ Aimed(aim, l)
    ELSE l.kind = "value"

IInv ==
    /\ last \in Val /\ visiting \in BOOLEAN
    /\ StackOK(frames)
    /\ Running => NeedOK(needPointer, frames)
    /\ Running /\ ~visiting => LastOK(last, frames)

-----------------------------------------------------------------------------
(* The stack of visitors.                                                   *)

\* Values and addresses.
LEMMA ValFacts ==
    /\ \A n \in Nat : Value(n) \in Val /\ Value(n).kind = "value"
    /\ \A x \in Vars, n \in Nat : Address(x, n) \in Val /\ Address(x, n).kind = "address"
  BY DEF Val, Value, Address

\* What an empty frame has in it.
LEMMA PlainFacts ==
    ASSUME NEW k \in Kind
    PROVE  Plain(k) \in Frame /\ Plain(k).kind = k
  <1>1. NoAim \in Aim
    <2>1. <<>> \in Seq(Nat)  OBVIOUS
    <2>2. QED  BY <2>1 DEF NoAim, Aim
  <1>2. Value(0) \in Val  BY ValFacts
  <1>3. QED  BY <1>1, <1>2 DEF Plain, Frame

\* One more visitor.
LEMMA PushOK ==
    ASSUME NEW fs, StackOK(fs), NEW g \in Frame, FrameOK(g), Fits(OuterKind(fs), g)
    PROVE  StackOK(Append(fs, g)) /\ OuterKind(Append(fs, g)) = g.kind
           /\ Append(fs, g)[Len(Append(fs, g))] = g
  <1> DEFINE n == Len(fs)
             gs == Append(fs, g)
  <1>1. /\ fs \in Seq(Frame) /\ n \in Nat /\ gs \in Seq(Frame) /\ Len(gs) = n + 1
        /\ gs[n + 1] = g /\ \A i \in 1 .. n : gs[i] = fs[i]
        /\ DOMAIN fs = 1 .. n /\ DOMAIN gs = 1 .. n + 1
    BY DEF StackOK
  <1> HIDE DEF gs
  <1>2. OuterKind(gs) = g.kind
    <2>1. n + 1 \in 1 .. n + 1  BY <1>1
    <2>2. QED  BY <1>1, <2>1 DEF OuterKind, KindAt
  <1>3. ASSUME NEW i \in 1 .. n + 1 PROVE FrameOK(gs[i]) /\ Fits(KindAt(gs, i - 1), gs[i])
    <2>1. CASE i = n + 1
      <3>1. i - 1 = n  BY <1>1, <2>1
      <3>2. KindAt(gs, n) = OuterKind(fs)
        <4>1. n \in 1 .. n + 1 <=> n \in 1 .. n  BY <1>1
        <4>2. QED  BY <1>1, <4>1 DEF KindAt, OuterKind
      <3>3. QED  BY <1>1, <2>1, <3>1, <3>2
    <2>2. CASE i # n + 1
      <3>1. i \in 1 .. n  BY <1>1, <2>2
      <3>2. KindAt(gs, i - 1) = KindAt(fs, i - 1)
        <4>1. i - 1 \in 1 .. n + 1 <=> i - 1 \in 1 .. n  BY <1>1, <3>1
        <4>2. QED  BY <1>1, <4>1 DEF KindAt
      <3>3. FrameOK(fs[i]) /\ Fits(KindAt(fs, i - 1), fs[i])  BY <1>1, <3>1 DEF StackOK
      <3>4. QED  BY <1>1, <3>1, <3>2, <3>3
    <2>3. QED  BY <2>1, <2>2
  <1>4. QED  BY <1>1, <1>2, <1>3 DEF StackOK, gs

\* The top visitor, and the stack below it.
LEMMA PopOK ==
    ASSUME NEW fs, StackOK(fs), fs # <<>>
    PROVE  LET top == fs[Len(fs)]
               below == SubSeq(fs, 1, Len(fs) - 1)
           IN  /\ top \in Frame /\ FrameOK(top) /\ OuterKind(fs) = top.kind
               /\ StackOK(below) /\ Fits(OuterKind(below), top)
  <1> DEFINE n == Len(fs)
             top == fs[n]
             b == SubSeq(fs, 1, n - 1)
  <1>1. /\ fs \in Seq(Frame) /\ n \in Nat /\ n # 0 /\ n \in 1 .. n /\ b \in Seq(Frame)
        /\ Len(b) = n - 1 /\ DOMAIN fs = 1 .. n /\ DOMAIN b = 1 .. n - 1
        /\ \A i \in 1 .. n - 1 : b[i] = fs[i]
    <2>1. fs \in Seq(Frame)  BY DEF StackOK
    <2>2. n \in Nat /\ n # 0 /\ DOMAIN fs = 1 .. n  BY <2>1
    <2> HIDE DEF n
    <2>3. n - 1 \in Nat /\ n \in 1 .. n /\ \A i \in 1 .. n - 1 : i \in 1 .. n  BY <2>2
    <2>4. \A i \in 1 .. n : fs[i] \in Frame  BY <2>1, <2>2
    <2>5. b = [i \in 1 .. n - 1 |-> fs[i]]
      <3>1. \A i \in 1 .. n - 1 : 1 + i - 1 = i /\ n - 1 - 1 + 1 = n - 1  BY <2>2
      <3>2. QED  BY <2>1, <2>2, <2>3, <3>1
    <2> HIDE DEF b
    <2>6. \A i \in 1 .. n - 1 : b[i] = fs[i] /\ b[i] \in Frame  BY <2>3, <2>4, <2>5
    <2>7. b \in Seq(Frame) /\ Len(b) = n - 1 /\ DOMAIN b = 1 .. n - 1  BY <2>3, <2>5, <2>6
    <2>8. QED  BY <2>1, <2>2, <2>3, <2>6, <2>7
  <1>2. top \in Frame /\ FrameOK(top) /\ Fits(KindAt(fs, n - 1), top)
    BY <1>1 DEF StackOK
  <1>3. OuterKind(fs) = top.kind  BY <1>1 DEF OuterKind, KindAt
  <1> HIDE DEF b
  <1>4. \A i \in 0 .. n - 1 : KindAt(b, i) = KindAt(fs, i)
    <2>1. \A i \in 0 .. n - 1 : i \in 1 .. n - 1 <=> i \in 1 .. n  BY <1>1
    <2>2. QED  BY <1>1, <2>1 DEF KindAt
  <1>5. OuterKind(b) = KindAt(fs, n - 1)
    <2>1. n - 1 \in 0 .. n - 1  BY <1>1
    <2>2. QED  BY <1>1, <1>4, <2>1 DEF OuterKind
  <1>6. ASSUME NEW i \in 1 .. n - 1 PROVE FrameOK(b[i]) /\ Fits(KindAt(b, i - 1), b[i])
    <2>1. i \in 1 .. n /\ i - 1 \in 0 .. n - 1  BY <1>1
    <2>2. FrameOK(fs[i]) /\ Fits(KindAt(fs, i - 1), fs[i])  BY <1>1, <2>1 DEF StackOK
    <2>3. QED  BY <1>1, <1>4, <2>1, <2>2
  <1>7. StackOK(b)  BY <1>1, <1>6 DEF StackOK
  <1>8. QED  BY <1>2, <1>3, <1>5, <1>7 DEF b

\* The top visitor goes on as g.
LEMMA SwapOK ==
    ASSUME StackOK(frames), frames # <<>>, NEW g \in Frame, FrameOK(g),
           Fits(OuterKind(Below), Top) => Fits(OuterKind(Below), g)
    PROVE  StackOK(Append(Below, g)) /\ OuterKind(Append(Below, g)) = g.kind
  <1>1. StackOK(Below) /\ Fits(OuterKind(Below), Top)  BY PopOK DEF Below, Top
  <1> HIDE DEF Below
  <1>2. QED  BY <1>1, PushOK

\* A reference that is noted changes what a waiting assignment aims at.
LEMMA NoteOK ==
    ASSUME NEW fs, StackOK(fs), NEW x \in Vars \cup Params, NEW given \in Seq(Nat)
    PROVE  LET gs == Note(fs, x, given)
           IN  /\ StackOK(gs) /\ OuterKind(gs) = OuterKind(fs)
               /\ OuterKind(fs) = "target" => gs[Len(gs)].aim = [var |-> x, given |-> given]
  <1> DEFINE gs == Note(fs, x, given)
             n == Len(fs)
             aim == [var |-> x, given |-> given]
  <1>1. /\ fs \in Seq(Frame) /\ n \in Nat /\ DOMAIN fs = 1 .. n
        /\ \A i \in 1 .. n : fs[i] \in Frame
    BY DEF StackOK
  <1>2. CASE OuterKind(fs) # "target"
    <2>1. ~(fs # <<>> /\ fs[n].kind = "target")
      <3>1. fs # <<>> => n \in 1 .. n  BY <1>1
      <3>2. QED  BY <1>1, <1>2, <3>1 DEF OuterKind, KindAt
    <2>2. gs = fs  BY <2>1 DEF Note
    <2>3. QED  BY <1>2, <2>2
  <1>3. CASE OuterKind(fs) = "target"
    <2>1. n \in 1 .. n /\ fs[n].kind = "target" /\ fs # <<>>
      <3>1. n \in 1 .. n /\ fs[n].kind = "target"
        BY <1>1, <1>3 DEF OuterKind, KindAt
      <3>2. QED  BY <1>1, <3>1
    <2> DEFINE g == [fs[n] EXCEPT !.aim = aim]
    <2>2. gs = [fs EXCEPT ![n] = g]
      <3>1. gs = [fs EXCEPT ![n].aim = aim]  BY <2>1 DEF Note
      <3>2. QED  BY <3>1
    <2>3. aim \in Aim  BY DEF Aim
    <2>4. fs[n] \in Frame  BY <1>1, <2>1
    <2> HIDE DEF aim
    <2>5. g \in Frame /\ g.kind = "target" /\ g.aim = aim
      BY <2>1, <2>3, <2>4 DEF Frame
    <2>6. FrameOK(g)  BY <2>5 DEF FrameOK
    <2>7. \A k : Fits(k, fs[n]) => Fits(k, g)  BY <2>1, <2>5 DEF Fits
    <2> HIDE DEF g, gs
    <2>8. /\ gs \in Seq(Frame) /\ Len(gs) = n /\ DOMAIN gs = 1 .. n /\ gs[n] = g
          /\ \A i \in 1 .. n : i # n => gs[i] = fs[i]
      BY <1>1, <2>1, <2>2, <2>5
    <2>9. \A i \in Nat : KindAt(gs, i) = KindAt(fs, i)
      BY <1>1, <2>1, <2>5, <2>8 DEF KindAt
    <2>10. ASSUME NEW i \in 1 .. n PROVE FrameOK(gs[i]) /\ Fits(KindAt(gs, i - 1), gs[i])
      <3>1. FrameOK(fs[i]) /\ Fits(KindAt(fs, i - 1), fs[i])  BY <1>1 DEF StackOK
      <3>2. i - 1 \in Nat /\ KindAt(gs, i - 1) = KindAt(fs, i - 1)
        <4>1. i - 1 \in Nat  OBVIOUS
        <4>2. QED  BY <2>9, <4>1
      <3>3. QED  BY <2>6, <2>7, <2>8, <3>1, <3>2
    <2>11. StackOK(gs)  BY <2>8, <2>10 DEF StackOK
    <2>12. OuterKind(gs) = OuterKind(fs)  BY <1>1, <2>8, <2>9 DEF OuterKind
    <2>13. QED  BY <2>5, <2>8, <2>11, <2>12 DEF aim, gs
  <1>4. QED  BY <1>2, <1>3

-----------------------------------------------------------------------------
(* Indexes.                                                                 *)

\* The indexes visited so far, with 0 for the others.
LEMMA PaddedFacts ==
    ASSUME NEW n \in Nat, NEW s \in Seq(Nat)
    PROVE  /\ Zeros(n) \o s \in Seq(Nat) /\ Len(Zeros(n) \o s) = n + Len(s)
           /\ DOMAIN (Zeros(n) \o s) = 1 .. n + Len(s)
           /\ \A j \in 1 .. n : (Zeros(n) \o s)[j] = 0
           /\ \A j \in 1 .. Len(s) : (Zeros(n) \o s)[n + j] = s[j]
           /\ Zeros(0) \o s = s
  <1>1. /\ Zeros(n) \in Seq(Nat) /\ Len(Zeros(n)) = n
        /\ \A j \in 1 .. n : Zeros(n)[j] = 0
    BY DEF Zeros
  <1>2. Zeros(0) = <<>>  BY DEF Zeros
  <1> DEFINE z == Zeros(n)
             l == Len(s)
             t == z \o s
  <1>3. l \in Nat /\ s \in Seq(Nat) /\ DOMAIN s = 1 .. l /\ z \in Seq(Nat) /\ Len(z) = n
    BY <1>1
  <1> HIDE DEF z
  <1>4. t \in Seq(Nat) /\ Len(t) = n + l /\ DOMAIN t = 1 .. n + l
    BY <1>3
  <1>5. ASSUME NEW j \in 1 .. n PROVE t[j] = 0
    <2>1. t[j] = z[j]  BY <1>3
    <2>2. QED  BY <1>1, <2>1 DEF z
  <1>6. ASSUME NEW j \in 1 .. l PROVE t[n + j] = s[j]
    <2>1. PICK k \in 1 .. n + l : k = n + j
      <3>1. n + j \in 1 .. n + l  BY <1>3
      <3>2. QED  BY <3>1
    <2>2. ~(k <= n) /\ k - n = j /\ k \in 1 .. Len(z) + Len(s)
      <3> HIDE DEF l
      <3>1. QED  BY <1>3, <2>1 DEF l
    <2>3. t[k] = s[k - Len(z)]  BY <1>3, <2>2, ConcatProperties
    <2>4. QED  BY <1>3, <2>1, <2>2, <2>3
  <1>7. Zeros(0) \o s = s  BY <1>2
  <1>8. QED  BY <1>4, <1>5, <1>6, <1>7 DEF z

\* A number in front.
LEMMA ConsFacts ==
    ASSUME NEW i \in Nat, NEW s \in Seq(Nat)
    PROVE  /\ <<i>> \o s \in Seq(Nat) /\ Len(<<i>> \o s) = Len(s) + 1
           /\ (<<i>> \o s)[1] = i
           /\ \A j \in 1 .. Len(s) : (<<i>> \o s)[j + 1] = s[j]
  OBVIOUS

\* One more index in front, in place of a 0.
LEMMA AddIndex ==
    ASSUME NEW n \in Nat, n # 0, NEW s \in Seq(Nat), NEW i \in Nat
    PROVE  /\ <<i>> \o s \in Seq(Nat) /\ Len(<<i>> \o s) = Len(s) + 1
           /\ Adds(Zeros(n) \o s, Zeros(n - 1) \o (<<i>> \o s), n, i)
  <1> DEFINE u == <<i>> \o s
             a == Zeros(n) \o s
             b == Zeros(n - 1) \o u
             l == Len(s)
  <1>1. /\ u \in Seq(Nat) /\ Len(u) = l + 1 /\ u[1] = i /\ l \in Nat
        /\ \A j \in 1 .. l : u[j + 1] = s[j]
    <2>1. l \in Nat  OBVIOUS
    <2>2. QED  BY <2>1, ConsFacts
  <1>2. n - 1 \in Nat  OBVIOUS
  <1>3. /\ a \in Seq(Nat) /\ Len(a) = n + l /\ DOMAIN a = 1 .. n + l
        /\ \A j \in 1 .. n : a[j] = 0
        /\ \A j \in 1 .. l : a[n + j] = s[j]
    BY PaddedFacts
  <1> HIDE DEF u
  <1>4. /\ b \in Seq(Nat) /\ Len(b) = n - 1 + (l + 1)
        /\ \A j \in 1 .. n - 1 : b[j] = 0
        /\ \A j \in 1 .. l + 1 : b[n - 1 + j] = u[j]
    <2> DEFINE m == n - 1
    <2>1. m \in Nat  BY <1>2
    <2>2. b = Zeros(m) \o u  OBVIOUS
    <2> HIDE DEF b, m, l
    <2>3. /\ b \in Seq(Nat) /\ Len(b) = m + Len(u)
          /\ \A j \in 1 .. m : b[j] = 0
          /\ \A j \in 1 .. Len(u) : b[m + j] = u[j]
      BY <1>1, <2>1, <2>2, PaddedFacts
    <2>4. QED  BY <1>1, <2>3 DEF m
  <1> HIDE DEF a, b, l
  <1>5. a[n] = 0
    <2>1. n \in 1 .. n  OBVIOUS
    <2>2. QED  BY <1>3, <2>1
  <1>6. b[n] = i
    <2>1. 1 \in 1 .. l + 1 /\ n - 1 + 1 = n  BY <1>1
    <2>2. QED  BY <1>1, <1>4, <2>1
  <1>7. ASSUME NEW j \in 1 .. n + l, j # n PROVE b[j] = a[j]
    <2>1. CASE j < n
      <3>1. j \in 1 .. n /\ j \in 1 .. n - 1  BY <2>1
      <3>2. QED  BY <1>3, <1>4, <3>1
    <2>2. CASE ~(j < n)
      <3>1. PICK k \in 1 .. l : j = n + k
        <4>1. j - n \in 1 .. l /\ j = n + (j - n)  BY <1>1, <1>7, <2>2
        <4>2. QED  BY <4>1
      <3>2. k + 1 \in 1 .. l + 1 /\ n - 1 + (k + 1) = n + k  BY <1>1
      <3>3. b[n + k] = u[k + 1]  BY <1>4, <3>2
      <3>4. QED  BY <1>1, <1>3, <3>1, <3>3
    <2>3. QED  BY <2>1, <2>2
  <1>8. Len(a) = Len(b) /\ n <= Len(a)  BY <1>1, <1>3, <1>4
  <1>9. Adds(a, b, n, i)  BY <1>3, <1>5, <1>6, <1>7, <1>8 DEF Adds
  <1>10. QED  BY <1>1, <1>9 DEF a, b, u, l

\* What a round of the loop over the indexes changes.
LEMMA RoundFields ==
    ASSUME NEW f \in Frame, f.n # 0, NEW i \in Nat, f.aim.var \in Vars
    PROVE  LET g == WithIndex(f, i) IN
           /\ g \in Frame /\ g.kind = f.kind /\ g.need = f.need /\ g.n = f.n - 1
           /\ g.at = f.at + 1 /\ g.stride = f.stride * DimAt(f.aim.var, f.at)
           /\ g.sum = f.sum + i * f.stride
           /\ g.aim.var = f.aim.var /\ g.aim.given = <<i>> \o f.aim.given
  <1> DEFINE dim == DimAt(f.aim.var, f.at)
             sum == f.sum + i * f.stride
             stride == f.stride * dim
             given == <<i>> \o f.aim.given
             aim == [f.aim EXCEPT !.given = given]
             g == [f EXCEPT !.sum = sum, !.stride = stride, !.at = f.at + 1, !.n = f.n - 1,
                            !.aim = aim]
  <1>1. /\ f.n \in Nat /\ f.at \in Nat /\ f.stride \in Nat /\ f.sum \in Nat
        /\ f.aim \in Aim
    BY DEF Frame
  <1>2. f.aim.given \in Seq(Nat) /\ f.aim.var \in Vars \cup Params \cup {""}
    BY <1>1 DEF Aim
  <1>3. dim \in Nat  BY <1>1, DimFacts
  <1>4. sum \in Nat
    <2>1. i * f.stride \in Nat  BY <1>1, SumType
    <2> DEFINE more == i * f.stride
    <2>2. more \in Nat  BY <2>1
    <2> HIDE DEF more
    <2>3. f.sum + more \in Nat  BY <1>1, <2>2
    <2>4. QED  BY <2>3 DEF more
  <1>5. stride \in Nat
    <2> HIDE DEF dim
    <2>1. QED  BY <1>1, <1>3, SumType
  <1>6. given \in Seq(Nat)  BY <1>2, ConsFacts
  <1>7. f.at + 1 \in Nat /\ f.n - 1 \in Nat  BY <1>1
  <1>8. WithIndex(f, i) = g
    BY <1>1 DEF WithIndex, Frame, Aim
  <1> HIDE DEF sum, stride, given, dim
  <1>9. aim \in Aim /\ aim.var = f.aim.var /\ aim.given = given
    BY <1>1, <1>2, <1>6 DEF Aim
  <1> HIDE DEF aim
  <1>10. /\ g \in Frame /\ g.kind = f.kind /\ g.n = f.n - 1
         /\ g.at = f.at + 1 /\ g.stride = stride /\ g.sum = sum /\ g.aim = aim
    BY <1>4, <1>5, <1>7, <1>9 DEF Frame
  <1>11. g.need = f.need  BY DEF Frame
  <1> HIDE DEF g
  <1>12. QED  BY <1>8, <1>9, <1>10, <1>11 DEF sum, stride, given, dim

\* The offset stays that of the indexes visited so far, and the stride that of the next.
LEMMA RoundOK ==
    ASSUME NEW f \in Frame, f.n # 0, Summed(f), NEW i \in Nat
    PROVE  Summed(WithIndex(f, i))
  <1> DEFINE x == f.aim.var
             l == Len(Dims[x])
             s == f.aim.given
             g == WithIndex(f, i)
             old == Zeros(f.n) \o s
             new == Zeros(f.n - 1) \o (<<i>> \o s)
  <1>1. /\ x \in Vars /\ f.n + Len(s) <= l /\ f.at = l - f.n /\ f.stride = Product(x, f.at)
        /\ f.sum = RowMajor(x, old)
    BY DEF Summed
  <1>2. f.n \in Nat /\ s \in Seq(Nat) /\ f.at \in Nat /\ Len(s) \in Nat
    <2>1. f.aim \in Aim /\ f.n \in Nat /\ f.at \in Nat  BY DEF Frame
    <2>2. s \in Seq(Nat)  BY <2>1 DEF Aim
    <2>3. QED  BY <2>1, <2>2
  <1>3. l \in Nat  BY <1>1, DimFacts
  <1>4. /\ g.n = f.n - 1 /\ g.at = f.at + 1 /\ g.stride = f.stride * DimAt(x, f.at)
        /\ g.sum = f.sum + i * f.stride
        /\ g.aim.var = x /\ g.aim.given = <<i>> \o s
    BY <1>1, RoundFields
  <1>5. Len(<<i>> \o s) = Len(s) + 1 /\ <<i>> \o s \in Seq(Nat) /\ Adds(old, new, f.n, i)
    BY <1>2, AddIndex
  <1>6. old \in Seq(Nat) /\ new \in Seq(Nat)
    <2>1. f.n - 1 \in Nat  BY <1>2
    <2>2. QED  BY <1>2, <1>5, <2>1, PaddedFacts
  <1> HIDE DEF g, l, s, old, new, x
  <1>7. f.n \in 1 .. l  BY <1>1, <1>2, <1>3
  <1>8. RowMajor(x, new) = RowMajor(x, old) + i * Product(x, l - f.n)
    BY <1>1, <1>5, <1>6, <1>7, OneMoreIndex DEF l
  <1>9. g.sum = RowMajor(x, new)  BY <1>1, <1>4, <1>8
  <1>10. f.stride * DimAt(x, f.at) = Product(x, f.at + 1)
    BY <1>1, <1>2, ProductFacts
  <1>11. g.at = l - g.n /\ g.n + Len(g.aim.given) <= l
    BY <1>1, <1>2, <1>3, <1>4, <1>5
  <1>12. /\ g.stride = Product(x, g.at) /\ g.aim.var \in Vars /\ g.aim.var = x
         /\ g.sum = RowMajor(g.aim.var, Zeros(g.n) \o g.aim.given)
    BY <1>1, <1>4, <1>9, <1>10 DEF new
  <1>13. Summed(g)
    <2>1. g.at = Len(Dims[g.aim.var]) - g.n /\ g.n + Len(g.aim.given) <= Len(Dims[g.aim.var])
      BY <1>11, <1>12 DEF l
    <2>2. g.stride = Product(g.aim.var, g.at)  BY <1>12
    <2>3. QED  BY <1>12, <2>1, <2>2 DEF Summed
  <1>14. QED  BY <1>13 DEF g

-----------------------------------------------------------------------------
(* The visitors.                                                            *)

\* An expression is visited for visitor g.
LEMMA AcceptOK ==
    ASSUME IInv, NEW g \in Frame, Accept(g), FrameOK(g), Fits(OuterKind(frames), g),
           UNCHANGED last, needPointer' \in BOOLEAN, needPointer' <=> g.kind = "target"
    PROVE  IInv'
  <1>1. StackOK(frames') /\ OuterKind(frames') = g.kind
    BY PushOK DEF IInv, Accept
  <1>2. last' \in Val /\ visiting' = TRUE
    BY DEF IInv, Accept
  <1>3. NeedOK(needPointer', frames')
    BY <1>1 DEF NeedOK
  <1>4. QED  BY <1>1, <1>2, <1>3 DEF IInv

\* ... and a further one for the visitor that waits, as g.
LEMMA AcceptAgainOK ==
    ASSUME IInv, frames # <<>>, NEW g \in Frame, AcceptAgain(g), FrameOK(g),
           Fits(OuterKind(Below), Top) => Fits(OuterKind(Below), g),
           UNCHANGED last, needPointer' \in BOOLEAN, needPointer' <=> g.kind = "target"
    PROVE  IInv'
  <1>1. StackOK(frames') /\ OuterKind(frames') = g.kind
    <2>1. StackOK(frames)  BY DEF IInv
    <2>2. frames' = Append(Below, g)  BY DEF AcceptAgain
    <2>3. StackOK(Append(Below, g)) /\ OuterKind(Append(Below, g)) = g.kind
      BY <2>1, SwapOK
    <2>4. QED  BY <2>2, <2>3
  <1>2. last' \in Val /\ visiting' = TRUE
    BY DEF IInv, AcceptAgain
  <1>3. NeedOK(needPointer', frames')
    BY <1>1 DEF NeedOK
  <1>4. QED  BY <1>1, <1>2, <1>3 DEF IInv

\* A visitor has returned.
LEMMA ReturnOK ==
    ASSUME StackOK(frames'), last' \in Val, visiting' = FALSE,
           NeedOK(needPointer', frames'), LastOK(last', frames')
    PROVE  IInv'
  BY DEF IInv

\* Only a reference is visited for its address.
LEMMA OtherFacts ==
    ASSUME IInv, Running, MayBeOther
    PROVE  OuterKind(frames) # "target" /\ needPointer = FALSE
  <1>1. frames \in Seq(Frame) /\ NeedOK(needPointer, frames)  BY DEF IInv, StackOK
  <1>2. OuterKind(frames) # "target"
    <2>1. Len(frames) \in DOMAIN frames => frames # <<>>  BY <1>1
    <2>2. QED  BY <2>1 DEF OuterKind, KindAt, MayBeOther, Top
  <1>3. QED  BY <1>1, <1>2 DEF NeedOK

\* The visitor that goes on when the visit it waited for returns.
LEMMA ReturnedFacts ==
    ASSUME IInv, NEW k, Returned(k)
    PROVE  /\ frames # <<>> /\ StackOK(frames) /\ OuterKind(frames) = k /\ Top.kind = k
           /\ Top \in Frame /\ FrameOK(Top) /\ StackOK(Below) /\ Fits(OuterKind(Below), Top)
           /\ NeedOK(needPointer, frames) /\ LastOK(last, frames) /\ last \in Val
           /\ k # "index" => OuterKind(Below) # "target"
  <1>1. frames # <<>> /\ StackOK(frames) /\ Top.kind = k /\ Running /\ ~visiting
    BY DEF Returned, IInv
  <1>2. /\ Top \in Frame /\ FrameOK(Top) /\ OuterKind(frames) = Top.kind
        /\ StackOK(Below) /\ Fits(OuterKind(Below), Top)
    BY <1>1, PopOK DEF Top, Below
  <1>3. NeedOK(needPointer, frames) /\ LastOK(last, frames) /\ last \in Val
    BY <1>1 DEF IInv
  <1>4. k # "index" => OuterKind(Below) # "target"
    BY <1>1, <1>2 DEF Fits
  <1>5. QED  BY <1>1, <1>2, <1>3, <1>4

\* A small number is a value.
LEMMA NumValue ==
    ASSUME NEW n \in Num
    PROVE  Value(n) \in Val /\ Value(n).kind = "value"
  <1>1. n \in Nat  BY ConstantsAssumption DEF Num
  <1>2. QED  BY <1>1, ValFacts

\* A value comes back to a visitor that is no assignment.
LEMMA ValueOK ==
    ASSUME IInv, NEW fs, StackOK(fs), OuterKind(fs) # "target", frames' = fs,
           NEW n \in Num, Yield(Value(n)), needPointer' = FALSE
    PROVE  IInv'
  <1>1. last' \in Val /\ last'.kind = "value" /\ visiting' = FALSE
    BY NumValue DEF Yield
  <1>2. NeedOK(needPointer', frames') /\ LastOK(last', frames')
    BY <1>1 DEF NeedOK, LastOK
  <1>3. QED  BY <1>1, <1>2, ReturnOK

\* Beginning of an expression.
LEMMA BeginStep == ASSUME IInv, Begin PROVE IInv'
  BY DEF IInv, Begin, Keep, Go, Running, NeedOK

\* A constant.
LEMMA VisitNumberStep == ASSUME IInv, VisitNumber PROVE IInv'
  <1>1. OuterKind(frames) # "target" /\ needPointer = FALSE
    BY OtherFacts DEF VisitNumber
  <1>2. PICK n \in Num : Yield(Value(n))  BY DEF VisitNumber
  <1>3. StackOK(frames) /\ frames' = frames /\ needPointer' = FALSE
    BY <1>1 DEF IInv, VisitNumber, Keep
  <1>4. QED  BY <1>1, <1>2, <1>3, ValueOK

\* The left operand.
LEMMA VisitBinaryStep == ASSUME IInv, VisitBinary PROVE IInv'
  <1> DEFINE g == Plain("left")
  <1>1. OuterKind(frames) # "target" /\ needPointer = FALSE
    BY OtherFacts DEF VisitBinary, AtExpr
  <1>2. g \in Frame /\ g.kind = "left"
    BY PlainFacts DEF Kind
  <1>3. Accept(g) /\ last' = last /\ needPointer' = FALSE
    BY <1>1 DEF VisitBinary, Keep
  <1> HIDE DEF g
  <1>4. FrameOK(g) /\ Fits(OuterKind(frames), g)  BY <1>1, <1>2 DEF FrameOK, Fits
  <1>5. QED  BY <1>2, <1>3, <1>4, AcceptOK

\* A frame with a value is a frame.
LEMMA DestFacts ==
    ASSUME NEW f \in Frame, NEW k \in Kind, NEW v \in Val
    PROVE  LET g == [f EXCEPT !.kind = k, !.dest = v]
           IN  g \in Frame /\ g.kind = k /\ g.dest = v /\ g.aim = f.aim
  BY DEF Frame

\* The right operand.
LEMMA VisitRhsStep == ASSUME IInv, VisitRhs PROVE IInv'
  <1> DEFINE p == Plain("right")
             g == [p EXCEPT !.dest = last]
  <1>1. Returned("left")  BY DEF VisitRhs
  <1>2. /\ frames # <<>> /\ OuterKind(frames) = "left" /\ NeedOK(needPointer, frames)
        /\ OuterKind(Below) # "target" /\ last \in Val
    BY <1>1, ReturnedFacts
  <1>3. p \in Frame /\ p.kind = "right"
    BY PlainFacts DEF Kind
  <1>4. AcceptAgain(g) /\ last' = last /\ needPointer' = needPointer
    BY DEF VisitRhs, Keep
  <1> HIDE DEF p
  <1>5. g = [p EXCEPT !.kind = "right", !.dest = last]
    BY <1>3 DEF Frame
  <1> HIDE DEF g
  <1>6. g \in Frame /\ g.kind = "right"
    <2>1. "right" \in Kind  BY DEF Kind
    <2>2. QED  BY <1>2, <1>3, <1>5, <2>1, DestFacts
  <1>7. FrameOK(g) /\ Fits(OuterKind(Below), g)  BY <1>2, <1>6 DEF FrameOK, Fits
  <1>8. needPointer' = FALSE  BY <1>2, <1>4 DEF NeedOK
  <1>9. QED  BY <1>2, <1>4, <1>6, <1>7, <1>8, AcceptAgainOK

\* An operator or a call has its value.
LEMMA FinishStep ==
    ASSUME IInv, NEW k \in {"right", "call"}, Returned(k), \E n \in Num : Yield(Value(n)),
           frames' = Below, Keep
    PROVE  IInv'
  <1>1. /\ OuterKind(frames) = k /\ NeedOK(needPointer, frames)
        /\ StackOK(Below) /\ OuterKind(Below) # "target"
    BY ReturnedFacts
  <1>2. needPointer' = FALSE  BY <1>1 DEF NeedOK, Keep
  <1>3. PICK n \in Num : Yield(Value(n))  OBVIOUS
  <1>4. QED  BY <1>1, <1>2, <1>3, ValueOK

\* Both operands have been visited.
LEMMA FinishBinaryStep == ASSUME IInv, FinishBinary PROVE IInv'
  BY FinishStep DEF FinishBinary

\* All arguments have been visited.
LEMMA FinishCallStep == ASSUME IInv, FinishCall PROVE IInv'
  BY FinishStep DEF FinishCall

\* A frame with a number of arguments is a frame.
LEMMA CountFacts ==
    ASSUME NEW f \in Frame, NEW n \in Nat
    PROVE  [f EXCEPT !.n = n] \in Frame /\ [f EXCEPT !.n = n].kind = f.kind
  BY DEF Frame

\* The first argument, ...
LEMMA FirstArgumentStep ==
    ASSUME IInv, OuterKind(frames) # "target", needPointer = FALSE, NEW n \in 1 .. MaxArgs,
           Accept([Plain("call") EXCEPT !.n = n - 1]), UNCHANGED <<last, needPointer>>
    PROVE  IInv'
  <1> DEFINE p == Plain("call")
             m == n - 1
             g == [p EXCEPT !.n = m]
  <1>3. p \in Frame /\ p.kind = "call"  BY PlainFacts DEF Kind
  <1>4. m \in Nat  BY ConstantsAssumption
  <1>5. Accept(g) /\ last' = last /\ needPointer' = FALSE
    OBVIOUS
  <1> HIDE DEF p, m
  <1>6. g \in Frame /\ g.kind = "call"  BY <1>3, <1>4, CountFacts
  <1> HIDE DEF g
  <1>7. FrameOK(g) /\ Fits(OuterKind(frames), g)  BY <1>6 DEF FrameOK, Fits
  <1>8. QED  BY <1>5, <1>6, <1>7, AcceptOK

\* ... and a call without any.
LEMMA VisitCallStep == ASSUME IInv, VisitCall PROVE IInv'
  <1>1. OuterKind(frames) # "target" /\ needPointer = FALSE
    BY OtherFacts DEF VisitCall, AtExpr
  <1>2. needPointer' = needPointer  BY DEF VisitCall, Keep
  <1>3. ASSUME NEW n \in 1 .. MaxArgs, Accept([Plain("call") EXCEPT !.n = n - 1]),
               UNCHANGED last
        PROVE  IInv'
    BY <1>1, <1>2, <1>3, FirstArgumentStep
  <1>4. ASSUME NEW n \in Num, Yield(Value(n)), UNCHANGED frames
        PROVE  IInv'
    <2>1. StackOK(frames)  BY DEF IInv
    <2>2. QED  BY <1>1, <1>2, <1>4, <2>1, ValueOK
  <1>5. QED  BY <1>3, <1>4 DEF VisitCall

\* The next argument.
LEMMA NextArgumentStep == ASSUME IInv, NextArgument PROVE IInv'
  <1>1. Returned("call") /\ Top.n > 0  BY DEF NextArgument
  <1>2. /\ frames # <<>> /\ OuterKind(frames) = "call" /\ NeedOK(needPointer, frames)
        /\ OuterKind(Below) # "target" /\ Top \in Frame /\ Top.kind = "call"
    BY <1>1, ReturnedFacts
  <1> DEFINE m == Top.n - 1
             g == [Top EXCEPT !.n = m]
  <1>3. AcceptAgain(g) /\ last' = last /\ needPointer' = needPointer
    BY DEF NextArgument, Keep
  <1>4. m \in Nat
    <2>1. Top.n \in Nat  BY <1>2 DEF Frame
    <2>2. QED  BY <1>1, <2>1
  <1> HIDE DEF m
  <1>5. g \in Frame /\ g.kind = "call"  BY <1>2, <1>4, CountFacts
  <1> HIDE DEF g
  <1>6. FrameOK(g) /\ Fits(OuterKind(Below), g)  BY <1>2, <1>5 DEF FrameOK, Fits
  <1>7. needPointer' = FALSE  BY <1>2, <1>3 DEF NeedOK
  <1>8. QED  BY <1>2, <1>3, <1>5, <1>6, <1>7, AcceptAgainOK

\* An assignment asks for an address.
LEMMA VisitAssignStep == ASSUME IInv, VisitAssign PROVE IInv'
  <1> DEFINE g == Plain("target")
  <1>1. OuterKind(frames) # "target"
    BY OtherFacts DEF VisitAssign, AtExpr
  <1>2. g \in Frame /\ g.kind = "target"
    BY PlainFacts DEF Kind
  <1>3. Accept(g) /\ last' = last /\ needPointer' = TRUE
    BY DEF VisitAssign
  <1> HIDE DEF g
  <1>4. FrameOK(g) /\ Fits(OuterKind(frames), g)  BY <1>1, <1>2 DEF FrameOK, Fits
  <1>5. QED  BY <1>2, <1>3, <1>4, AcceptOK

\* It has got it, and visits its right side.
LEMMA VisitSourceStep == ASSUME IInv, VisitSource PROVE IInv'
  <1> DEFINE g == [Top EXCEPT !.kind = "source", !.dest = last]
  <1>1. Returned("target")  BY DEF VisitSource
  <1>2. /\ frames # <<>> /\ OuterKind(frames) = "target" /\ LastOK(last, frames)
        /\ OuterKind(Below) # "target" /\ Top \in Frame /\ last \in Val
    BY <1>1, ReturnedFacts
  <1>3. AcceptAgain(g) /\ last' = last /\ needPointer' = FALSE
    BY DEF VisitSource
  <1>4. g \in Frame /\ g.kind = "source" /\ g.dest = last /\ g.aim = Top.aim
    <2>1. "source" \in Kind  BY DEF Kind
    <2>2. g = [Top EXCEPT !.kind = "source", !.dest = last]  OBVIOUS
    <2> HIDE DEF g
    <2>3. QED  BY <1>2, <2>1, <2>2 DEF Frame
  <1>5. Aimed(Top.aim, last)  BY <1>2 DEF LastOK, Top
  <1> HIDE DEF g
  <1>6. FrameOK(g) /\ Fits(OuterKind(Below), g)
    BY <1>2, <1>4, <1>5 DEF FrameOK, Fits
  <1>7. QED  BY <1>2, <1>3, <1>4, <1>6, AcceptAgainOK

\* The value of the right side is that of the assignment.
LEMMA FinishAssignStep == ASSUME IInv, FinishAssign PROVE IInv'
  <1>1. Returned("source") /\ visiting' = visiting
    BY DEF FinishAssign
  <1>2. /\ OuterKind(frames) = "source" /\ NeedOK(needPointer, frames) /\ LastOK(last, frames)
        /\ StackOK(Below) /\ OuterKind(Below) # "target" /\ last \in Val
    BY <1>1, ReturnedFacts
  <1>3. last' = last /\ frames' = Below /\ needPointer' = needPointer /\ visiting' = FALSE
    BY <1>1 DEF FinishAssign, Keep, Returned, IInv
  <1>4. NeedOK(needPointer', frames') /\ LastOK(last', frames')
    BY <1>2, <1>3 DEF NeedOK, LastOK
  <1>5. QED  BY <1>2, <1>3, <1>4, ReturnOK

\* The offset of a variable without indexes.
LEMMA ScalarOffset ==
    ASSUME NEW x \in Vars
    PROVE  <<>> \in Seq(Nat) /\ RowMajor(x, <<>>) = 0
  <1>1. <<>> \in Seq(Nat) /\ DOMAIN <<>> = {}
    OBVIOUS
  <1>2. QED  BY <1>1, NoOffset

\* A reference to a variable in memory comes back, with its address if that is what was
\* asked for.
LEMMA RefOK ==
    ASSUME NEW fs, StackOK(fs), NEW x \in Vars, NEW given \in Seq(Nat),
           NEW np, np \in BOOLEAN, np <=> OuterKind(fs) = "target",
           YieldRef(Address(x, RowMajor(x, given)), np), RowMajor(x, given) \in Nat,
           frames' = Note(fs, x, given), needPointer' = np
    PROVE  IInv'
  <1> DEFINE a == Address(x, RowMajor(x, given))
             gs == Note(fs, x, given)
  <1>1. /\ StackOK(gs) /\ OuterKind(gs) = OuterKind(fs)
        /\ OuterKind(fs) = "target" => gs[Len(gs)].aim = [var |-> x, given |-> given]
    BY NoteOK
  <1>2. a \in Val  BY ValFacts
  <1>3. NeedOK(np, gs)  BY <1>1 DEF NeedOK
  <1> HIDE DEF gs
  <1>4. CASE OuterKind(fs) = "target"
    <2>1. last' = a /\ visiting' = FALSE  BY <1>4 DEF YieldRef, Yield
    <2>2. x \notin Params  BY ConstantsAssumption
    <2>3. LastOK(a, gs)
      BY <1>1, <1>4, <2>2 DEF LastOK, Aimed
    <2> HIDE DEF a
    <2>4. QED  BY <1>1, <1>2, <1>3, <2>1, <2>3, ReturnOK DEF gs
  <1>5. CASE OuterKind(fs) # "target"
    <2>1. PICK n \in Num : Yield(Value(n))  BY <1>5 DEF YieldRef
    <2>2. last' \in Val /\ last'.kind = "value" /\ visiting' = FALSE
      BY <2>1, NumValue DEF Yield
    <2>3. LastOK(last', gs)  BY <1>1, <1>5, <2>2 DEF LastOK
    <2>4. QED  BY <1>1, <1>3, <2>2, <2>3, ReturnOK DEF gs
  <1>6. QED  BY <1>4, <1>5

\* A variable, or a parameter, which has no address.
LEMMA VisitIdRefStep == ASSUME IInv, VisitIdRef PROVE IInv'
  <1>1. StackOK(frames) /\ NeedOK(needPointer, frames) /\ needPointer' = needPointer
    BY DEF IInv, VisitIdRef, AtExpr, Keep
  <1>2. ASSUME NEW x \in Vars, YieldRef(Address(x, 0), needPointer),
               frames' = Note(frames, x, <<>>)
        PROVE  IInv'
    <2>1. <<>> \in Seq(Nat) /\ RowMajor(x, <<>>) = 0  BY ScalarOffset
    <2>2. YieldRef(Address(x, RowMajor(x, <<>>)), needPointer)  BY <1>2, <2>1
    <2>3. RowMajor(x, <<>>) \in Nat  BY <2>1
    <2>4. needPointer \in BOOLEAN /\ (needPointer <=> OuterKind(frames) = "target")
      BY <1>1 DEF NeedOK
    <2>5. QED  BY <1>1, <1>2, <2>1, <2>2, <2>3, <2>4, RefOK
  <1>3. ASSUME NEW p \in Params, NEW n \in Num, Yield(Value(n)), frames' = Note(frames, p, <<>>)
        PROVE  IInv'
    <2> DEFINE gs == Note(frames, p, <<>>)
    <2>1. /\ StackOK(gs) /\ OuterKind(gs) = OuterKind(frames)
          /\ OuterKind(frames) = "target" => gs[Len(gs)].aim = [var |-> p, given |-> <<>>]
      <3>1. <<>> \in Seq(Nat)  OBVIOUS
      <3>2. QED  BY <1>1, <3>1, NoteOK
    <2>2. last' \in Val /\ last'.kind = "value" /\ visiting' = FALSE
      BY <1>3, NumValue DEF Yield
    <2> HIDE DEF gs
    <2>3. p \notin Vars  BY ConstantsAssumption
    <2>4. LastOK(last', gs)  BY <2>1, <2>2, <2>3 DEF LastOK, Aimed
    <2>5. NeedOK(needPointer', gs)  BY <1>1, <2>1 DEF NeedOK
    <2>6. QED  BY <1>3, <2>1, <2>2, <2>4, <2>5, ReturnOK DEF gs
  <1>4. QED  BY <1>2, <1>3 DEF VisitIdRef

\* A frame for the indexes.
LEMMA IndexFrame ==
    ASSUME NEW x \in Vars, NEW n \in 1 .. Len(Dims[x]), NEW np \in BOOLEAN
    PROVE  LET g == [Plain("index") EXCEPT !.n = n, !.aim.var = x, !.need = np,
                         !.stride = Product(x, Len(Dims[x]) - n), !.at = Len(Dims[x]) - n]
           IN  /\ g \in Frame /\ g.kind = "index" /\ (g.need <=> np) /\ g.n # 0
               /\ Summed(g)
  <1> DEFINE l == Len(Dims[x])
             at == l - n
             stride == Product(x, at)
             p == Plain("index")
             aim == [p.aim EXCEPT !.var = x]
             g == [p EXCEPT !.n = n, !.aim = aim, !.need = np, !.stride = stride, !.at = at]
  <1>1. l \in Nat /\ at \in Nat /\ n \in Nat /\ n # 0 /\ n <= l /\ n + 0 = n
    <2>1. l \in Nat /\ n \in 1 .. l  BY DimFacts
    <2> HIDE DEF l
    <2>2. n \in Nat /\ n # 0 /\ n <= l /\ l - n \in Nat  BY <2>1
    <2>3. QED  BY <2>1, <2>2
  <1>2. stride \in Nat
    <2> HIDE DEF at
    <2>1. QED  BY <1>1, ProductFacts
  <1>3. /\ p \in Frame /\ p.kind = "index" /\ p.sum = 0 /\ p.aim.given = <<>>
        /\ p.aim \in Aim
    <2>1. p \in Frame /\ p.kind = "index"  BY PlainFacts DEF Kind
    <2>2. p.sum = 0 /\ p.aim.given = <<>>  BY DEF Plain, NoAim
    <2> HIDE DEF p
    <2>3. QED  BY <2>1, <2>2 DEF Frame
  <1> HIDE DEF l, at, stride, p
  <1>4. [p EXCEPT !.n = n, !.aim.var = x, !.need = np, !.stride = stride, !.at = at] = g
    BY <1>3 DEF Frame, Aim
  <1>5. aim \in Aim /\ aim.var = x /\ aim.given = <<>>
    BY <1>3 DEF Aim
  <1> HIDE DEF aim
  <1>6. /\ g \in Frame /\ g.kind = "index" /\ g.n = n /\ g.aim = aim
        /\ g.stride = stride /\ g.at = at /\ g.sum = 0
    BY <1>1, <1>2, <1>3, <1>5 DEF Frame
  <1>7. g.need <=> np  BY <1>3 DEF Frame
  <1> HIDE DEF g
  <1>8. RowMajor(x, Zeros(n) \o <<>>) = 0
    <2> DEFINE z == Zeros(n) \o <<>>
    <2>1. <<>> \in Seq(Nat) /\ Len(<<>>) = 0  OBVIOUS
    <2>2. z \in Seq(Nat) /\ DOMAIN z = 1 .. n /\ \A j \in 1 .. n : z[j] = 0
      BY <1>1, <2>1, PaddedFacts
    <2> HIDE DEF z
    <2>3. RowMajor(x, z) = 0  BY <2>2, NoOffset
    <2>4. QED  BY <2>3 DEF z
  <1>9. Summed(g)
    <2>1. g.aim.var = x /\ g.aim.given = <<>>  BY <1>5, <1>6
    <2>2. g.n + Len(g.aim.given) <= Len(Dims[x])
      <3>1. Len(<<>>) = 0  OBVIOUS
      <3>2. QED  BY <1>1, <1>6, <2>1, <3>1 DEF l
    <2>3. g.at = Len(Dims[x]) - g.n /\ g.stride = Product(x, g.at)
      BY <1>6 DEF at, stride, l
    <2>4. g.sum = RowMajor(x, Zeros(g.n) \o g.aim.given)
      BY <1>6, <1>8, <2>1
    <2>5. QED  BY <2>1, <2>2, <2>3, <2>4 DEF Summed
  <1>10. QED  BY <1>1, <1>4, <1>6, <1>7, <1>9 DEF at, stride, l, p

\* The last index is visited first.
LEMMA VisitIndexedRefStep == ASSUME IInv, VisitIndexedRef PROVE IInv'
  <1>1. NeedOK(needPointer, frames)
    BY DEF IInv, VisitIndexedRef, AtExpr
  <1>2. PICK x \in Vars : \E n \in 1 .. Len(Dims[x]) :
            Accept([Plain("index") EXCEPT !.n = n, !.aim.var = x, !.need = needPointer,
                       !.stride = Product(x, Len(Dims[x]) - n), !.at = Len(Dims[x]) - n])
    BY DEF VisitIndexedRef
  <1>3. PICK n \in 1 .. Len(Dims[x]) :
            Accept([Plain("index") EXCEPT !.n = n, !.aim.var = x, !.need = needPointer,
                       !.stride = Product(x, Len(Dims[x]) - n), !.at = Len(Dims[x]) - n])
    BY <1>2
  <1> DEFINE g == [Plain("index") EXCEPT !.n = n, !.aim.var = x, !.need = needPointer,
                       !.stride = Product(x, Len(Dims[x]) - n), !.at = Len(Dims[x]) - n]
  <1>4. g \in Frame /\ g.kind = "index" /\ (g.need <=> needPointer) /\ g.n # 0 /\ Summed(g)
    BY <1>1, IndexFrame DEF NeedOK
  <1>5. Accept(g)  BY <1>3
  <1> HIDE DEF g
  <1>6. FrameOK(g) /\ Fits(OuterKind(frames), g)
    BY <1>1, <1>4 DEF FrameOK, Fits, NeedOK
  <1>7. last' = last /\ needPointer' = FALSE  BY DEF VisitIndexedRef
  <1>8. QED  BY <1>4, <1>5, <1>6, <1>7, AcceptOK

\* A number that has come back, and the frame with it.
LEMMA RoundFacts ==
    ASSUME IInv, Returned("index")
    PROVE  LET g == WithIndex(Top, last.off) IN
           /\ g \in Frame /\ g.kind = "index" /\ g.need = Top.need /\ Summed(g)
  <1>1. Top \in Frame /\ FrameOK(Top) /\ Top.kind = "index" /\ last \in Val
    BY ReturnedFacts
  <1>2. Top.n # 0 /\ Summed(Top)  BY <1>1 DEF FrameOK
  <1>3. last.off \in Nat  BY <1>1 DEF Val
  <1>4. Top.aim.var \in Vars  BY <1>2 DEF Summed
  <1>5. QED  BY <1>1, <1>2, <1>3, <1>4, RoundFields, RoundOK

\* The index in front of it.
LEMMA NextIndexStep == ASSUME IInv, NextIndex PROVE IInv'
  <1> DEFINE g == WithIndex(Top, last.off)
  <1>1. Returned("index")  BY DEF NextIndex
  <1>2. /\ frames # <<>> /\ OuterKind(frames) = "index" /\ NeedOK(needPointer, frames)
        /\ Top.kind = "index"
    BY <1>1, ReturnedFacts
  <1>3. g \in Frame /\ g.kind = "index" /\ g.need = Top.need /\ Summed(g)
    BY <1>1, RoundFacts
  <1>4. g.n > 0 /\ AcceptAgain(g) /\ last' = last /\ needPointer' = needPointer
    BY DEF NextIndex, Keep
  <1> HIDE DEF g
  <1>5. g.n # 0
    <2>1. g.n \in Nat  BY <1>3 DEF Frame
    <2>2. QED  BY <1>4, <2>1
  <1>6. FrameOK(g)  BY <1>3, <1>5 DEF FrameOK
  <1>7. Fits(OuterKind(Below), Top) => Fits(OuterKind(Below), g)
    BY <1>2, <1>3 DEF Fits
  <1>8. needPointer' = FALSE  BY <1>2, <1>4 DEF NeedOK
  <1>9. QED  BY <1>2, <1>3, <1>4, <1>6, <1>7, <1>8, AcceptAgainOK

\* All indexes have been visited.
LEMMA FinishIndexedRefStep == ASSUME IInv, FinishIndexedRef PROVE IInv'
  <1> DEFINE g == WithIndex(Top, last.off)
             x == g.aim.var
             given == g.aim.given
  <1>1. Returned("index")  BY DEF FinishIndexedRef
  <1>2. StackOK(Below) /\ Fits(OuterKind(Below), Top) /\ Top.kind = "index"
    BY <1>1, ReturnedFacts
  <1>3. g \in Frame /\ g.need = Top.need /\ Summed(g)
    BY <1>1, RoundFacts
  <1>4. /\ g.n = 0 /\ frames' = Note(Below, x, given)
        /\ needPointer' = g.need /\ YieldRef(Address(x, g.sum), g.need)
    BY DEF FinishIndexedRef
  <1> HIDE DEF g
  <1>5. g.need \in BOOLEAN /\ given \in Seq(Nat) /\ g.sum \in Nat
    BY <1>3 DEF Frame, Aim
  <1>6. x \in Vars /\ g.sum = RowMajor(x, given)
    <2>1. x \in Vars /\ g.sum = RowMajor(x, Zeros(0) \o given)
      BY <1>3, <1>4 DEF Summed
    <2>2. Zeros(0) \o given = given
      <3>1. 0 \in Nat  OBVIOUS
      <3>2. QED  BY <1>5, <3>1, PaddedFacts
    <2>3. QED  BY <2>1, <2>2
  <1>7. g.need <=> OuterKind(Below) = "target"
    BY <1>2, <1>3 DEF Fits
  <1> DEFINE np == g.need
  <1>8. np \in BOOLEAN /\ (np <=> OuterKind(Below) = "target") /\ needPointer' = np
        /\ YieldRef(Address(x, RowMajor(x, given)), np) /\ RowMajor(x, given) \in Nat
    BY <1>4, <1>5, <1>6, <1>7
  <1> HIDE DEF np, x, given, Below
  <1>9. QED  BY <1>2, <1>4, <1>5, <1>6, <1>8, RefOK

\* Undefined behaviour ends the model.
LEMMA UndefinedStep ==
    ASSUME IInv, \/ TooManyIndexes \/ IndexedParam \/ NoReturnValue
                 \/ StoreToParam \/ MissingArgument
    PROVE  IInv'
  BY DEF IInv, TooManyIndexes, IndexedParam, NoReturnValue, StoreToParam, MissingArgument,
         Running

-----------------------------------------------------------------------------
(* The theorems.                                                            *)

\* The invariant holds at the start, ...
LEMMA InitIInv == Init => IInv
  <1> SUFFICES ASSUME Init PROVE IInv
    OBVIOUS
  <1>1. frames = <<>> /\ frames \in Seq(Frame) /\ DOMAIN frames = {}  BY DEF Init
  <1>2. OuterKind(frames) # "target"  BY <1>1 DEF OuterKind, KindAt
  <1>3. last \in Val /\ last.kind = "value"  BY ValFacts DEF Init
  <1>4. NeedOK(needPointer, frames) /\ LastOK(last, frames)
    BY <1>2, <1>3 DEF Init, NeedOK, LastOK
  <1>5. QED  BY <1>1, <1>3, <1>4 DEF Init, IInv, StackOK

\* ... and every step keeps it.
LEMMA NextIInv == IInv /\ [Next]_vars => IInv'
  <1> SUFFICES ASSUME IInv, [Next]_vars PROVE IInv'
    OBVIOUS
  <1>1. CASE UNCHANGED vars
    BY <1>1 DEF vars, IInv, Running
  <1>2. CASE Begin  BY <1>2, BeginStep
  <1>3. CASE VisitNumber  BY <1>3, VisitNumberStep
  <1>4. CASE VisitBinary  BY <1>4, VisitBinaryStep
  <1>5. CASE VisitRhs  BY <1>5, VisitRhsStep
  <1>6. CASE FinishBinary  BY <1>6, FinishBinaryStep
  <1>7. CASE VisitCall  BY <1>7, VisitCallStep
  <1>8. CASE NextArgument  BY <1>8, NextArgumentStep
  <1>9. CASE FinishCall  BY <1>9, FinishCallStep
  <1>10. CASE VisitAssign  BY <1>10, VisitAssignStep
  <1>11. CASE VisitSource  BY <1>11, VisitSourceStep
  <1>12. CASE FinishAssign  BY <1>12, FinishAssignStep
  <1>13. CASE VisitIdRef  BY <1>13, VisitIdRefStep
  <1>14. CASE VisitIndexedRef  BY <1>14, VisitIndexedRefStep
  <1>15. CASE \/ TooManyIndexes \/ IndexedParam \/ NoReturnValue
             \/ StoreToParam \/ MissingArgument
    BY <1>15, UndefinedStep
  <1>16. CASE NextIndex  BY <1>16, NextIndexStep
  <1>17. CASE FinishIndexedRef  BY <1>17, FinishIndexedRefStep
  <1>18. QED
    BY <1>1, <1>2, <1>3, <1>4, <1>5, <1>6, <1>7, <1>8, <1>9, <1>10, <1>11, <1>12, <1>13,
       <1>14, <1>15, <1>16, <1>17 DEF Next

\* It holds in every state.
LEMMA Invariant == Spec => []IInv
  BY InitIInv, NextIInv, PTL DEF Spec

\* However assignments, references, operators and calls nest, a visitor gets an address
\* exactly when it is an assignment that waits for its left side, and that is in memory.
THEOREM AddressesArrive == Spec => []AddressesReachTargets
  <1>1. IInv => AddressesReachTargets
    <2> SUFFICES ASSUME IInv, Running, ~visiting
                 PROVE  (last.kind = "address") =
                            (frames # <<>> /\ Top.kind = "target" /\ Top.aim.var \notin Params)
      BY DEF AddressesReachTargets
    <2>1. LastOK(last, frames) /\ frames \in Seq(Frame)  BY DEF IInv, StackOK
    <2>2. OuterKind(frames) = "target" <=> frames # <<>> /\ Top.kind = "target"
      <3>1. Len(frames) \in DOMAIN frames <=> frames # <<>>  BY <2>1
      <3>2. QED  BY <3>1 DEF OuterKind, KindAt, Top
    <2>3. CASE OuterKind(frames) = "target"
      <3>1. /\ Top.aim.var \in Vars \cup Params
            /\ Top.aim.var \in Params => last.kind = "value"
            /\ Aimed(Top.aim, last)
        BY <2>1, <2>3 DEF LastOK, Top
      <3>2. Top.aim.var \in Vars => last.kind = "address"
        BY <3>1 DEF Aimed, Address
      <3>3. QED  BY <2>2, <2>3, <3>1, <3>2
    <2>4. CASE OuterKind(frames) # "target"
      <3>1. last.kind = "value"  BY <2>1, <2>4 DEF LastOK
      <3>2. QED  BY <2>2, <2>4, <3>1
    <2>5. QED  BY <2>3, <2>4
  <1>2. QED  BY <1>1, Invariant, PTL

\* For arrays of any dimensions and any number of indexes, the address that an
\* assignment keeps while its right side is visited is that of the element it names.
THEOREM StoresArrive == Spec => []StoresHitTheElement
  <1>1. IInv => StoresHitTheElement
    <2> SUFFICES ASSUME IInv, NEW i \in DOMAIN frames, frames[i].kind = "source",
                        frames[i].aim.var \in Vars
                 PROVE  frames[i].dest = Address(frames[i].aim.var,
                                            RowMajor(frames[i].aim.var, frames[i].aim.given))
      BY DEF StoresHitTheElement
    <2>1. FrameOK(frames[i])  BY DEF IInv, StackOK
    <2>2. QED  BY <2>1 DEF FrameOK, Aimed
  <1>2. QED  BY <1>1, Invariant, PTL
=============================================================================
