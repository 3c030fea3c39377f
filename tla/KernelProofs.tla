---------------------------- MODULE KernelProofs ----------------------------
(***************************************************************************)
(* What the proofs about the audits share: the Freivalds identity          *)
(* r . (W x + b) = (r^T W) . x + r . b over the audit field and the margin *)
(* under which congruence modulo p is equality; what a kernel answers and  *)
(* when the audit of an op accepts a claim; and what the commitments bind, *)
(* for every modulus, bound and weight range.                              *)
(***************************************************************************)
EXTENDS Commitments, SumsProofs, SequenceTheorems

(************************* the Freivalds identity **************************)

\* A matrix as the rules on tensors give it, with an input and a bias that fit.
LayerData(w, x, bias) ==
    /\ w.shape \in Seq(Nat) /\ Len(w.shape) = 2 /\ w.cells \in Seq(Int)
    /\ Len(w.cells) = Rows(w) * Cols(w)
    /\ x \in Seq(Int) /\ Len(x) = Cols(w)
    /\ bias \in Seq(Int) /\ Len(bias) = Rows(w)

Int8Cells(w) == \A k \in DOMAIN w.cells : AsI8(w.cells[k]) = w.cells[k]

\* The constants of the audit are integers of the expected signs.
LEMMA Constants ==
    AuditP \in Nat \ {0} /\ Bound \in Nat /\ WMax \in Nat
  BY FreivaldsAssumption

\* Row-major addressing stays inside the cells.
LEMMA CellIndex ==
    ASSUME NEW n \in Nat, NEW m \in Nat, NEW i \in 1..n, NEW j \in 1..m
    PROVE  (i - 1) * m + j \in 1..(n * m)
<1>1. (i - 1) * m >= 0 /\ (i - 1) * m \in Int
  BY i - 1 >= 0, m >= 0
<1>2. (i - 1) * m + m = i * m /\ i * m \in Int
  OBVIOUS
<1>3. i * m <= n * m /\ n * m \in Int
  <2>1. (n - i) * m >= 0
    BY n - i >= 0, m >= 0
  <2>2. (n - i) * m = n * m - i * m
    OBVIOUS
  <2> QED BY <2>1, <2>2, <1>2
<1> DEFINE low == (i - 1) * m
           high == i * m
           all == n * m
<1>4. low >= 0 /\ low \in Int /\ low + m = high /\ high \in Int /\ high <= all /\ all \in Int
  BY <1>1, <1>2, <1>3
<1> HIDE DEF low, high, all
<1>5. low + j \in 1..all
  BY <1>4
<1> QED BY <1>5 DEF low, all

\* A cell of a matrix is an integer.
LEMMA CellType ==
    ASSUME NEW w, NEW x, NEW bias, LayerData(w, x, bias),
           NEW i \in 1..Rows(w), NEW j \in 1..Cols(w)
    PROVE  /\ Rows(w) \in Nat /\ Cols(w) \in Nat
           /\ (i - 1) * Cols(w) + j \in DOMAIN w.cells
           /\ Cell(w, i, j) \in Int
<1>1. Rows(w) \in Nat /\ Cols(w) \in Nat
  BY DEF LayerData, Rows, Cols
<1>2. (i - 1) * Cols(w) + j \in 1..(Rows(w) * Cols(w))
  BY <1>1, CellIndex
<1>3. (i - 1) * Cols(w) + j \in DOMAIN w.cells
  <2>1. w.cells \in Seq(Int) /\ Len(w.cells) = Rows(w) * Cols(w)
    BY DEF LayerData
  <2>2. DOMAIN w.cells = 1..(Rows(w) * Cols(w))
    BY <2>1
  <2> QED BY <1>2, <2>2
<1>4. w.cells[(i - 1) * Cols(w) + j] \in Int
  <2>1. w.cells \in Seq(Int)
    BY DEF LayerData
  <2>2. \A k \in DOMAIN w.cells : w.cells[k] \in Int
    BY <2>1
  <2> QED BY <1>3, <2>2
<1> QED BY <1>1, <1>3, <1>4 DEF Cell

\* Truncation to i8 gives a value of the type.
LEMMA AsI8Type ==
    ASSUME NEW x \in Int
    PROVE  AsI8(x) \in -(WMax + 1)..WMax
<1> DEFINE m == x % (2 * (WMax + 1))
<1>1. WMax \in Nat
  BY Constants
<1>2. m \in 0..(2 * (WMax + 1) - 1)
  BY <1>1, DivMod
<1>3. AsI8(x) = IF m > WMax THEN m - 2 * (WMax + 1) ELSE m
  BY DEF AsI8
<1> HIDE DEF m
<1> QED BY <1>1, <1>2, <1>3

(******************************* dot products ******************************)
Products(c, x) == [i \in 1..Len(x) |-> c[i] * x[i]]

\* The field dot product is the integer one reduced modulo p.
LEMMA DotReduces ==
    ASSUME NEW c \in Seq(Int), NEW x \in Seq(Int), Len(c) = Len(x)
    PROVE  /\ SumTo(Products(c, x), Len(x)) \in Int
           /\ Cong(Dot(c, x), SumTo(Products(c, x), Len(x)), AuditP)
           /\ Dot(c, x) \in FieldElems
<1> DEFINE n == Len(x)
           f == [i \in 1..ZipLen(c, x) |-> c[i] * FromInt(x[i])]
           g == Products(c, x)
<1>1. n \in Nat /\ ZipLen(c, x) = n /\ AuditP \in Nat \ {0}
  BY Constants DEF ZipLen
<1>2. ASSUME NEW i \in 1..n
      PROVE  f[i] \in Int /\ g[i] \in Int /\ Cong(f[i], g[i], AuditP)
  <2>1. c[i] \in Int /\ x[i] \in Int
    OBVIOUS
  <2>2. FromInt(x[i]) \in Int /\ Cong(FromInt(x[i]), x[i], AuditP)
    BY <1>1, <2>1, CongRefl DEF FromInt
  <2>3. Cong(c[i], c[i], AuditP)
    BY <1>1, <2>1, CongRefl
  <2>4. Cong(c[i] * FromInt(x[i]), c[i] * x[i], AuditP)
    BY <1>1, <2>1, <2>2, <2>3, CongRing
  <2>5. f[i] = c[i] * FromInt(x[i]) /\ g[i] = c[i] * x[i]
    BY <1>1 DEF Products
  <2>6. c[i] * FromInt(x[i]) \in Int /\ c[i] * x[i] \in Int
    BY <2>1, <2>2
  <2> QED BY <2>4, <2>5, <2>6
<1>3. Dot(c, x) = SumTo(f, n) % AuditP
  BY <1>1 DEF Dot
<1> HIDE DEF f, g, n
<1>4. SumTo(f, n) \in Int /\ SumTo(g, n) \in Int /\ Cong(SumTo(f, n), SumTo(g, n), AuditP)
  BY <1>1, <1>2, SumCong
<1>5. Cong(SumTo(f, n) % AuditP, SumTo(f, n), AuditP)
  BY <1>1, <1>4, CongRefl
<1>6. SumTo(f, n) % AuditP \in 0..(AuditP - 1)
  BY <1>1, <1>4, DivMod
<1>7. SumTo(f, n) % AuditP = SumTo(g, n) % AuditP
  BY <1>1, <1>4, CongMod
<1>8. Cong(SumTo(g, n) % AuditP, SumTo(g, n), AuditP)
  BY <1>1, <1>4, CongRefl
<1> QED BY <1>3, <1>4, <1>6, <1>7, <1>8 DEF n, g, FieldElems

(******************************* the identity ******************************)
\* The terms r_i * W_ij * x_j of both sides of the equation.
TermMatrix(w, x, r) ==
    [i \in 1..Rows(w) |-> [j \in 1..Cols(w) |-> r[i] * (Cell(w, i, j) * x[j])]]

\* v = r^T W, reduced modulo p column by column.
LEMMA PrecomputeReduces ==
    ASSUME NEW w, NEW x, NEW bias, LayerData(w, x, bias), Int8Cells(w),
           NEW r \in Challenges(Rows(w)), NEW j \in 1..Cols(w)
    PROVE  /\ PrecomputeV(r, w)[j] \in FieldElems
           /\ SumTo([i \in 1..Rows(w) |-> r[i] * Cell(w, i, j)], Rows(w)) \in Int
           /\ Cong(PrecomputeV(r, w)[j],
                   SumTo([i \in 1..Rows(w) |-> r[i] * Cell(w, i, j)], Rows(w)), AuditP)
<1> DEFINE n == Rows(w)
           f == [i \in 1..n |-> r[i] * FromInt(AsI8(Cell(w, i, j)))]
           g == [i \in 1..n |-> r[i] * Cell(w, i, j)]
<1>1. n \in Nat /\ AuditP \in Nat \ {0}
  BY Constants DEF LayerData, Rows
<1>2. ASSUME NEW i \in 1..n
      PROVE  f[i] \in Int /\ g[i] \in Int /\ Cong(f[i], g[i], AuditP)
  <2>1. r[i] \in Int
    BY <1>1 DEF Challenges, FieldElems
  <2>2. Cell(w, i, j) \in Int /\ (i - 1) * Cols(w) + j \in DOMAIN w.cells
    BY CellType
  <2>3. AsI8(Cell(w, i, j)) = Cell(w, i, j)
    BY <2>2 DEF Int8Cells, Cell
  <2>4. FromInt(Cell(w, i, j)) \in Int /\ Cong(FromInt(Cell(w, i, j)), Cell(w, i, j), AuditP)
    BY <1>1, <2>2, CongRefl DEF FromInt
  <2>5. Cong(r[i], r[i], AuditP)
    BY <1>1, <2>1, CongRefl
  <2>6. Cong(r[i] * FromInt(Cell(w, i, j)), r[i] * Cell(w, i, j), AuditP)
    BY <1>1, <2>1, <2>2, <2>4, <2>5, CongRing
  <2>7. r[i] * FromInt(Cell(w, i, j)) \in Int /\ r[i] * Cell(w, i, j) \in Int
    BY <2>1, <2>2, <2>4
  <2> QED BY <2>3, <2>6, <2>7
<1>3. PrecomputeV(r, w)[j] = SumTo(f, n) % AuditP
  BY DEF PrecomputeV
<1>4. g = [i \in 1..Rows(w) |-> r[i] * Cell(w, i, j)] /\ n = Rows(w)
  OBVIOUS
<1> HIDE DEF f, g, n
<1>5. SumTo(f, n) \in Int /\ SumTo(g, n) \in Int /\ Cong(SumTo(f, n), SumTo(g, n), AuditP)
  BY <1>1, <1>2, SumCong
<1>6. SumTo(f, n) % AuditP \in 0..(AuditP - 1) /\ SumTo(f, n) % AuditP = SumTo(g, n) % AuditP
  BY <1>1, <1>5, DivMod, CongMod
<1>7. Cong(SumTo(g, n) % AuditP, SumTo(g, n), AuditP)
  BY <1>1, <1>5, CongRefl
<1> QED BY <1>3, <1>4, <1>5, <1>6, <1>7 DEF FieldElems

\* The left-hand side: v . x is the sum of the terms, column by column.
LEMMA LeftSide ==
    ASSUME NEW w, NEW x, NEW bias, LayerData(w, x, bias), Int8Cells(w),
           NEW r \in Challenges(Rows(w))
    PROVE  /\ TermMatrix(w, x, r) \in [1..Rows(w) -> [1..Cols(w) -> Int]]
           /\ Dot(PrecomputeV(r, w), x) \in Int
           /\ SumTo(ColumnSums(TermMatrix(w, x, r), Cols(w), Rows(w)), Cols(w)) \in Int
           /\ Cong(Dot(PrecomputeV(r, w), x),
                   SumTo(ColumnSums(TermMatrix(w, x, r), Cols(w), Rows(w)), Cols(w)), AuditP)
<1> DEFINE n == Rows(w)
           m == Cols(w)
           A == TermMatrix(w, x, r)
           v == PrecomputeV(r, w)
           left == Products(v, x)
           right == ColumnSums(A, m, n)
<1>1. n \in Nat /\ m \in Nat /\ AuditP \in Nat \ {0} /\ Len(x) = m /\ x \in Seq(Int)
  BY Constants DEF LayerData, Rows, Cols
<1>2. \A i \in 1..n : r[i] \in Int
  BY <1>1 DEF Challenges, FieldElems
<1>3. \A i \in 1..n, j \in 1..m : Cell(w, i, j) \in Int
  BY CellType
<1>4. \A j \in 1..m : x[j] \in Int
  BY <1>1
<1>5. ASSUME NEW i \in 1..n, NEW j \in 1..m
      PROVE  A[i][j] \in Int /\ A[i][j] = x[j] * (r[i] * Cell(w, i, j))
  <2>1. A[i][j] = r[i] * (Cell(w, i, j) * x[j])
    BY DEF TermMatrix
  <2>2. r[i] \in Int /\ Cell(w, i, j) \in Int /\ x[j] \in Int
    BY <1>2, <1>3, <1>4
  <2> HIDE DEF A
  <2> QED BY <2>1, <2>2
<1>6. A \in [1..n -> [1..m -> Int]]
  <2>1. A = [i \in 1..n |-> [j \in 1..m |-> A[i][j]]]
    BY DEF TermMatrix
  <2> HIDE DEF A, n, m
  <2> QED BY <1>5, <2>1
<1>7. v \in Seq(Int) /\ Len(v) = m
  <2>1. v = [j \in 1..m |-> v[j]] /\ \A j \in 1..m : v[j] \in Int
    <3>1. \A j \in 1..m : v[j] \in FieldElems
      BY PrecomputeReduces
    <3>2. v = [j \in 1..m |-> v[j]]
      BY DEF PrecomputeV
    <3> QED BY <1>1, <3>1, <3>2 DEF FieldElems
  <2> HIDE DEF v, m
  <2>2. v \in [1..m -> Int]
    BY <2>1
  <2>3. m \in Nat
    BY <1>1
  <2> QED BY <2>2, <2>3
<1>8. ASSUME NEW j \in 1..m
      PROVE  left[j] \in Int /\ right[j] \in Int /\ Cong(left[j], right[j], AuditP)
  <2> DEFINE column == [i \in 1..n |-> r[i] * Cell(w, i, j)]
             terms == [i \in 1..n |-> A[i][j]]
  <2>1. v[j] \in Int /\ SumTo(column, n) \in Int /\ Cong(v[j], SumTo(column, n), AuditP)
    BY <1>1, PrecomputeReduces DEF FieldElems
  <2>2. \A i \in 1..n : column[i] \in Int /\ terms[i] = x[j] * column[i]
    <3>1. \A i \in 1..n : column[i] = r[i] * Cell(w, i, j) /\ column[i] \in Int
      BY <1>2, <1>3
    <3> HIDE DEF A, column
    <3> QED BY <1>5, <3>1
  <2>3. right[j] = SumTo(terms, n)
    BY DEF ColumnSums
  <2>4. left[j] = v[j] * x[j]
    BY <1>1 DEF Products
  <2>5. x[j] \in Int /\ Cong(x[j], x[j], AuditP)
    BY <1>1, <1>4, CongRefl
  <2> HIDE DEF n, m, v, A, left, right, column, terms
  <2>6. SumTo(terms, n) = x[j] * SumTo(column, n)
    BY <1>1, <2>2, <2>5, SumScale
  <2>7. Cong(v[j] * x[j], SumTo(column, n) * x[j], AuditP)
    BY <1>1, <2>1, <2>5, CongRing
  <2>8. SumTo(column, n) * x[j] = x[j] * SumTo(column, n) /\ SumTo(column, n) * x[j] \in Int
        /\ v[j] * x[j] \in Int
    BY <2>1, <2>5
  <2> QED BY <2>3, <2>4, <2>6, <2>7, <2>8
<1>9. /\ SumTo(left, m) \in Int /\ SumTo(right, m) \in Int
      /\ Cong(SumTo(left, m), SumTo(right, m), AuditP)
  <2> HIDE DEF left, right, m, n
  <2> QED BY <1>1, <1>8, SumCong
<1>10. Cong(Dot(v, x), SumTo(left, m), AuditP) /\ Dot(v, x) \in Int
  <2> HIDE DEF v, m
  <2> QED BY <1>1, <1>7, DotReduces DEF FieldElems
<1>11. Cong(Dot(v, x), SumTo(right, m), AuditP)
  <2> HIDE DEF v, m, left, right
  <2>1. Dot(v, x) % AuditP = SumTo(left, m) % AuditP
    BY <1>1, <1>9, <1>10, CongMod
  <2>2. SumTo(left, m) % AuditP = SumTo(right, m) % AuditP
    BY <1>1, <1>9, CongMod
  <2> QED BY <1>1, <1>9, <1>10, <2>1, <2>2, CongMod
<1> QED BY <1>6, <1>9, <1>10, <1>11

\* The kernel's result is a vector of integers.
LEMMA LinearType ==
    ASSUME NEW w, NEW x, NEW bias, LayerData(w, x, bias)
    PROVE  /\ Linear(w, x, bias) \in Seq(Int) /\ Len(Linear(w, x, bias)) = Rows(w)
           /\ \A i \in 1..Rows(w) :
                /\ SumTo([j \in 1..Cols(w) |-> Cell(w, i, j) * x[j]], Cols(w)) \in Int
                /\ Linear(w, x, bias)[i] =
                      bias[i] + SumTo([j \in 1..Cols(w) |-> Cell(w, i, j) * x[j]], Cols(w))
<1>1. Rows(w) \in Nat /\ Cols(w) \in Nat /\ (\A j \in 1..Cols(w) : x[j] \in Int)
      /\ (\A i \in 1..Rows(w) : bias[i] \in Int)
  BY DEF LayerData, Rows, Cols
<1>2. ASSUME NEW i \in 1..Rows(w)
      PROVE  SumTo([j \in 1..Cols(w) |-> Cell(w, i, j) * x[j]], Cols(w)) \in Int
  <2> DEFINE row == [j \in 1..Cols(w) |-> Cell(w, i, j) * x[j]]
  <2>1. \A j \in 1..Cols(w) : row[j] \in Int
    <3>1. \A j \in 1..Cols(w) : Cell(w, i, j) \in Int
      BY CellType
    <3> QED BY <1>1, <3>1
  <2> HIDE DEF row
  <2>2. SumTo(row, Cols(w)) \in Int
    BY <1>1, <2>1, SumType
  <2> QED BY <2>2 DEF row
<1>3. Linear(w, x, bias) = [i \in 1..Rows(w) |-> bias[i] + SumTo([j \in 1..Cols(w) |-> Cell(w, i, j) * x[j]], Cols(w))]
  BY DEF Linear
<1> DEFINE sums == [i \in 1..Rows(w) |-> SumTo([j \in 1..Cols(w) |-> Cell(w, i, j) * x[j]], Cols(w))]
           out == Linear(w, x, bias)
           n == Rows(w)
<1>4. out = [i \in 1..n |-> bias[i] + sums[i]] /\ n \in Nat
  BY <1>1, <1>3
<1>5. \A i \in 1..n : sums[i] \in Int /\ bias[i] \in Int
  BY <1>1, <1>2
<1>6. out \in Seq(Int) /\ Len(out) = n /\ \A i \in 1..n : out[i] = bias[i] + sums[i]
  <2> HIDE DEF out, sums, n
  <2>1. out \in [1..n -> Int]
    BY <1>4, <1>5
  <2> QED BY <1>4, <2>1
<1> QED BY <1>2, <1>6

\* The right-hand side: r . out is r . bias plus the terms, row by row.
LEMMA RightSide ==
    ASSUME NEW w, NEW x, NEW bias, LayerData(w, x, bias), NEW r \in Challenges(Rows(w)),
           TermMatrix(w, x, r) \in [1..Rows(w) -> [1..Cols(w) -> Int]]
    PROVE  /\ SumTo(RowSums(TermMatrix(w, x, r), Cols(w), Rows(w)), Rows(w)) \in Int
           /\ SumTo(Products(r, Linear(w, x, bias)), Rows(w)) =
                SumTo(Products(r, bias), Rows(w))
                  + SumTo(RowSums(TermMatrix(w, x, r), Cols(w), Rows(w)), Rows(w))
<1> DEFINE n == Rows(w)
           m == Cols(w)
           A == TermMatrix(w, x, r)
           out == Linear(w, x, bias)
           total == Products(r, out)
           biases == Products(r, bias)
           terms == RowSums(A, m, n)
<1>1. n \in Nat /\ m \in Nat /\ Len(bias) = n
  BY DEF LayerData, Rows, Cols
<1>2. ASSUME NEW i \in 1..n
      PROVE  biases[i] \in Int /\ terms[i] \in Int /\ total[i] = biases[i] + terms[i]
  <2> DEFINE row == [j \in 1..m |-> Cell(w, i, j) * x[j]]
             scaled == [j \in 1..m |-> A[i][j]]
  <2>1. r[i] \in Int /\ bias[i] \in Int
    <3>1. r[i] \in 0..(AuditP - 1)
      BY DEF Challenges, FieldElems
    <3>2. bias \in Seq(Int)
      BY DEF LayerData
    <3> QED BY <1>1, <3>1, <3>2
  <2>2. out[i] = bias[i] + SumTo(row, m) /\ SumTo(row, m) \in Int /\ Len(out) = n
    BY LinearType
  <2>3. \A j \in 1..m : row[j] \in Int /\ scaled[j] = r[i] * row[j]
    <3>1. \A j \in 1..Cols(w) : Cell(w, i, j) \in Int
      BY CellType, Zenon
    <3>2. Len(x) = m /\ x \in Seq(Int)
      BY DEF LayerData
    <3>3. \A j \in 1..m : x[j] \in Int
      <4> HIDE DEF m
      <4> QED BY <1>1, <3>2
    <3> QED BY <3>1, <3>3 DEF TermMatrix
  <2>4. terms[i] = SumTo(scaled, m)
    BY DEF RowSums
  <2>5. total[i] = r[i] * out[i] /\ biases[i] = r[i] * bias[i]
    BY <1>1, <2>2 DEF Products
  <2> HIDE DEF n, m, A, out, total, biases, terms, row, scaled
  <2>6. SumTo(scaled, m) = r[i] * SumTo(row, m)
    BY <1>1, <2>1, <2>3, SumScale
  <2>7. r[i] * (bias[i] + SumTo(row, m)) = r[i] * bias[i] + r[i] * SumTo(row, m)
        /\ r[i] * bias[i] \in Int /\ r[i] * SumTo(row, m) \in Int
    BY <2>1, <2>2
  <2> QED BY <2>2, <2>4, <2>5, <2>6, <2>7
<1> HIDE DEF n, m, A, out, total, biases, terms
<1>3. SumTo(total, n) = SumTo(biases, n) + SumTo(terms, n)
  BY <1>1, <1>2, SumAdd
<1>4. SumTo(terms, n) \in Int
  BY <1>1, <1>2, SumType
<1> QED BY <1>3, <1>4 DEF n, m, A, out, total, biases, terms

\* Completeness of the equation (freivalds.rs:9): whatever the challenge, the kernel's
\* own result satisfies v . x + r . bias = r . out in the audit field.
THEOREM KernelSatisfiesEquation ==
    ASSUME NEW w, NEW x, NEW bias, LayerData(w, x, bias), Int8Cells(w),
           NEW r \in Challenges(Rows(w))
    PROVE  (Dot(PrecomputeV(r, w), x) + Dot(r, bias)) % AuditP = Dot(r, Linear(w, x, bias))
<1> DEFINE out == Linear(w, x, bias)
           n == Rows(w)
           D == Dot(PrecomputeV(r, w), x)
           E == Dot(r, bias)
           F == Dot(r, out)
           C == SumTo(ColumnSums(TermMatrix(w, x, r), Cols(w), n), Cols(w))
           R == SumTo(RowSums(TermMatrix(w, x, r), Cols(w), n), n)
           B == SumTo(Products(r, bias), n)
           T == SumTo(Products(r, out), n)
<1>1. n \in Nat /\ Cols(w) \in Nat /\ AuditP \in Nat \ {0} /\ Len(bias) = n /\ bias \in Seq(Int)
  BY Constants DEF LayerData, Rows, Cols
<1>2. out \in Seq(Int) /\ Len(out) = n
  BY LinearType
<1>3. r \in Seq(Int) /\ Len(r) = n
  BY <1>1 DEF Challenges, FieldElems
<1>4. C \in Int /\ Cong(D, C, AuditP) /\ TermMatrix(w, x, r) \in [1..n -> [1..Cols(w) -> Int]]
  BY LeftSide
<1>5. R \in Int /\ T = B + R
  BY <1>4, RightSide
<1>6. C = R
  BY <1>1, <1>4, SumExchange
<1>7. B \in Int /\ Cong(E, B, AuditP) /\ E \in FieldElems
  BY <1>1, <1>3, DotReduces
<1>8. T \in Int /\ Cong(F, T, AuditP) /\ F \in FieldElems
  BY <1>2, <1>3, DotReduces
<1>9. D \in Int
  BY LeftSide
<1> HIDE DEF out, n, D, E, F, C, R, B, T
<1>10. E \in Int /\ F \in 0..(AuditP - 1) /\ F \in Int
  BY <1>1, <1>7, <1>8 DEF FieldElems
<1>11. Cong(D + E, C + B, AuditP)
  BY <1>1, <1>4, <1>7, <1>9, <1>10, CongRing
<1>12. (D + E) % AuditP = T % AuditP
  <2>1. C + B = T
    BY <1>5, <1>6, <1>7
  <2> QED BY <1>1, <1>8, <1>9, <1>10, <1>11, <2>1, CongMod
<1>13. F % AuditP = T % AuditP
  BY <1>1, <1>8, <1>10, CongMod
<1>14. F = F % AuditP
  <2>1. F = AuditP * 0 + F
    BY <1>1, <1>10
  <2> QED BY <1>1, <1>10, <2>1, ModUnique
<1> QED BY <1>12, <1>13, <1>14 DEF D, E, F, out

(******************************** the margin *******************************)
LEMMA ProductBound ==
    ASSUME NEW M \in Nat, NEW B \in Nat, NEW a \in -M..M, NEW x \in -B..B
    PROVE  a * x \in -(M * B)..(M * B)
<1>1. \A p, q \in Nat : p * q >= 0
  OBVIOUS
<1>2. CASE x >= 0
  <2>1. M * (B - x) >= 0 /\ x * (M - a) >= 0 /\ x * (M + a) >= 0
    BY <1>1, <1>2, B - x \in Nat, M - a \in Nat, M + a \in Nat, x \in Nat
  <2>2. M * B - a * x = M * (B - x) + x * (M - a) /\ M * B + a * x = M * (B - x) + x * (M + a)
    OBVIOUS
  <2> QED BY <2>1, <2>2
<1>3. CASE x < 0
  <2>1. M * (B + x) >= 0 /\ (-x) * (M - a) >= 0 /\ (-x) * (M + a) >= 0
    BY <1>1, <1>3, B + x \in Nat, M - a \in Nat, M + a \in Nat, -x \in Nat
  <2>2. /\ M * B - a * x = M * (B + x) + (-x) * (M + a)
        /\ M * B + a * x = M * (B + x) + (-x) * (M - a)
    OBVIOUS
  <2> QED BY <2>1, <2>2
<1> QED BY <1>2, <1>3

\* Weights of the symmetric range keep the accumulator within the margin.
LEMMA AccumulatorBound ==
    ASSUME NEW w, NEW x, NEW bias, LayerData(w, x, bias),
           \A k \in DOMAIN w.cells : w.cells[k] \in -WMax..WMax,
           WithinOperandBound(x), WithinOperandBound(bias), NEW i \in 1..Rows(w)
    PROVE  /\ Linear(w, x, bias)[i] \in Int
           /\ -(WMax * Cols(w) * Bound + Bound) <= Linear(w, x, bias)[i]
           /\ Linear(w, x, bias)[i] <= WMax * Cols(w) * Bound + Bound
<1> DEFINE m == Cols(w)
           row == [j \in 1..m |-> Cell(w, i, j) * x[j]]
           b == WMax * Bound
           z == Linear(w, x, bias)[i]
<1>1. m \in Nat /\ WMax \in Nat /\ Bound \in Nat /\ b \in Nat
  BY Constants DEF LayerData, Cols
<1>2. \A j \in 1..m : row[j] \in -b..b
  <2>1. TAKE j \in 1..m
  <2>2. Cell(w, i, j) \in -WMax..WMax
    BY CellType DEF Cell
  <2>3. x[j] \in -Bound..Bound
    <3>1. j \in DOMAIN x
      BY DEF LayerData
    <3> QED BY <3>1 DEF WithinOperandBound
  <2>4. row[j] = Cell(w, i, j) * x[j]
    OBVIOUS
  <2> QED BY <1>1, <2>2, <2>3, <2>4, ProductBound
<1>3. z = bias[i] + SumTo(row, m)
  BY LinearType
<1>4. bias[i] \in -Bound..Bound
  <2>1. i \in DOMAIN bias
    BY DEF LayerData
  <2> QED BY <2>1 DEF WithinOperandBound
<1>5. m * b = WMax * m * Bound /\ m * b \in Int
  BY <1>1
<1> HIDE DEF row, z
<1>6. SumTo(row, m) \in Int /\ -(m * b) <= SumTo(row, m) /\ SumTo(row, m) <= m * b
  <2> HIDE DEF b, m
  <2> QED BY <1>1, <1>2, SumBound
<1>7. z \in Int /\ -(m * b + Bound) <= z /\ z <= m * b + Bound
  <2> DEFINE mb == m * b
             s == SumTo(row, m)
             c == bias[i]
  <2>1. mb \in Int /\ s \in Int /\ c \in Int /\ -mb <= s /\ s <= mb /\ -Bound <= c /\ c <= Bound
        /\ z = c + s /\ Bound \in Int
    BY <1>1, <1>3, <1>4, <1>5, <1>6
  <2> HIDE DEF mb, s, c
  <2>2. z \in Int /\ -(mb + Bound) <= z /\ z <= mb + Bound
    BY <2>1
  <2> QED BY <2>2 DEF mb
<1> QED BY <1>5, <1>7 DEF z

\* The range guard (freivalds.rs:16-32, INV-FP-10): under symmetric weights, guarded
\* operands and an accumulator congruent to the true one, the two are equal.
THEOREM MarginSeparates ==
    ASSUME NEW w, NEW x, NEW bias, LayerData(w, x, bias),
           \A k \in DOMAIN w.cells : w.cells[k] \in -WMax..WMax,
           NEW out \in Seq(Int), Len(out) = Rows(w), RangeGuard(Cols(w), x, bias, out),
           NEW i \in 1..Rows(w), (out[i] - Linear(w, x, bias)[i]) % AuditP = 0
    PROVE  out[i] = Linear(w, x, bias)[i]
<1> DEFINE z == Linear(w, x, bias)[i]
           o == out[i]
           top == WMax * Cols(w) * Bound
<1>1. AuditP \in Nat \ {0} /\ Bound \in Nat /\ top \in Int
  <2>1. Cols(w) \in Nat
    BY DEF LayerData, Cols
  <2> QED BY <2>1, Constants
<1>2. z \in Int /\ -(top + Bound) <= z /\ z <= top + Bound
  BY AccumulatorBound DEF RangeGuard
<1>3. o \in Int /\ -Bound <= o /\ o <= Bound
  <2>1. i \in DOMAIN out
    BY DEF LayerData
  <2> QED BY <1>1, <2>1 DEF RangeGuard, WithinOperandBound
<1>4. top + 2 * Bound < AuditP
  BY DEF RangeGuard, DimsWithinMargin
<1>5. (o - z) % AuditP = 0
  OBVIOUS
<1> HIDE DEF o, z, top
<1>6. -AuditP < o - z /\ o - z < AuditP
  BY <1>1, <1>2, <1>3, <1>4
<1>7. Cong(o, z, AuditP)
  <2>1. o - z = AuditP * ((o - z) \div AuditP) + ((o - z) % AuditP) /\ (o - z) \div AuditP \in Int
    BY <1>1, <1>2, <1>3, DivMod
  <2> DEFINE k == (o - z) \div AuditP
  <2>2. k \in Int /\ o - z = AuditP * k + 0
    BY <1>5, <2>1
  <2> HIDE DEF k
  <2>3. o = z + AuditP * k
    BY <1>1, <1>2, <1>3, <2>2
  <2> QED BY <2>2, <2>3 DEF Cong
<1>8. o = z
  BY <1>1, <1>2, <1>3, <1>6, <1>7, CongruentAndClose
<1> QED BY <1>8 DEF o, z

(************************** the catching challenge *************************)
\* Values of the type survive the cast to i8.
LEMMA AsI8Again ==
    ASSUME NEW x \in -(WMax + 1)..WMax
    PROVE  AsI8(x) = x
<1> DEFINE m == 2 * (WMax + 1)
<1>1. WMax \in Nat /\ m \in Nat \ {0} /\ m = 2 * WMax + 2
  BY Constants
<1>2. AsI8(x) = IF x % m > WMax THEN (x % m) - m ELSE x % m
  BY DEF AsI8
<1> HIDE DEF m
<1>3. CASE x >= 0
  <2>1. x = m * 0 + x /\ x \in 0..(m - 1)
    BY <1>1, <1>3
  <2>2. x = x % m
    BY <1>1, <2>1, ModUnique
  <2> QED BY <1>1, <1>2, <2>2
<1>4. CASE x < 0
  <2> DEFINE r == x + m
  <2>1. x = m * (-1) + r /\ r \in 0..(m - 1) /\ r > WMax /\ r - m = x
    BY <1>1, <1>4
  <2> HIDE DEF r
  <2>2. r = x % m
    BY <1>1, <2>1, ModUnique
  <2> QED BY <1>1, <1>2, <2>1, <2>2
<1> QED BY <1>3, <1>4

\* And so do symmetric int8 cells.
LEMMA SymmetricIsInt8 ==
    ASSUME NEW w, w.cells \in Seq(Int), \A k \in DOMAIN w.cells : w.cells[k] \in -WMax..WMax
    PROVE  Int8Cells(w)
<1> SUFFICES ASSUME NEW x \in -WMax..WMax PROVE AsI8(x) = x
  BY DEF Int8Cells
<1>1. x \in -(WMax + 1)..WMax
  BY Constants
<1> QED BY <1>1, AsI8Again

\* The challenge that looks at one row only.
UnitChallenge(n, i) == [k \in 1..n |-> IF k = i THEN 1 % AuditP ELSE 0]

\* Under it, the right-hand side of the equation is that row's value.
LEMMA UnitPicks ==
    ASSUME NEW s \in Seq(Int), NEW i \in 1..Len(s)
    PROVE  /\ UnitChallenge(Len(s), i) \in Challenges(Len(s))
           /\ Dot(UnitChallenge(Len(s), i), s) = s[i] % AuditP
<1> DEFINE n == Len(s)
           u == UnitChallenge(n, i)
           f == Products(u, s)
           one == 1 % AuditP
<1>1. n \in Nat /\ AuditP \in Nat \ {0} /\ s[i] \in Int
  BY Constants
<1>2. one \in 0..(AuditP - 1) /\ one \in Int /\ 0 \in 0..(AuditP - 1) /\ Cong(one, 1, AuditP)
  <2>1. one \in 0..(AuditP - 1) /\ Cong(one, 1, AuditP)
    BY <1>1, 1 \in Int, DivMod, CongRefl
  <2> HIDE DEF one
  <2> QED BY <1>1, <2>1
<1>3. u \in Challenges(n) /\ \A k \in 1..n : u[k] = IF k = i THEN one ELSE 0
  BY <1>2 DEF UnitChallenge, Challenges, FieldElems
<1>4. u \in Seq(Int) /\ Len(u) = n
  BY <1>1, <1>3 DEF Challenges, FieldElems
<1>5. \A k \in 1..n : f[k] = u[k] * s[k]
  BY DEF Products
<1> HIDE DEF u, f, one
<1>6. f[i] = one * s[i] /\ one * s[i] \in Int
  BY <1>1, <1>2, <1>3, <1>5
<1>7. \A k \in 1..n : k # i => f[k] = 0
  <2> SUFFICES ASSUME NEW k \in 1..n, k # i PROVE f[k] = 0
    OBVIOUS
  <2>1. f[k] = 0 * s[k] /\ s[k] \in Int
    BY <1>3, <1>5
  <2> QED BY <2>1
<1>8. SumTo(f, n) = one * s[i]
  BY <1>1, <1>6, <1>7, SumSpike
<1>9. Cong(one * s[i], s[i], AuditP)
  <2> DEFINE c == s[i]
  <2>1. c \in Int /\ Cong(c, c, AuditP)
    BY <1>1, CongRefl
  <2> HIDE DEF c
  <2>2. Cong(one * c, 1 * c, AuditP)
    BY <1>1, <1>2, <2>1, 1 \in Int, CongRing
  <2>3. 1 * c = c
    BY <2>1
  <2> QED BY <2>2, <2>3 DEF c
<1>10. Cong(Dot(u, s), SumTo(f, n), AuditP) /\ Dot(u, s) \in FieldElems
  BY <1>4, DotReduces DEF f, n
<1>11. Dot(u, s) \in 0..(AuditP - 1) /\ Dot(u, s) \in Int
  BY <1>1, <1>10 DEF FieldElems
<1>12. Dot(u, s) % AuditP = s[i] % AuditP
  BY <1>1, <1>6, <1>8, <1>9, <1>10, <1>11, CongMod
<1>13. Dot(u, s) = Dot(u, s) % AuditP
  <2> DEFINE d == Dot(u, s)
  <2>1. d \in 0..(AuditP - 1) /\ d \in Int /\ d = AuditP * 0 + d
    BY <1>1, <1>11
  <2> HIDE DEF d
  <2>2. d = d % AuditP
    BY <1>1, <2>1, 0 \in Int, ModUnique
  <2> QED BY <2>2 DEF d
<1> QED BY <1>3, <1>12, <1>13 DEF u, n

\* A guarded output that passes under every challenge is the kernel's: a wrong
\* one is caught by the challenge that looks at a wrong row (freivalds.rs:10).
THEOREM WrongOutputIsCaught ==
    ASSUME NEW w, NEW x, NEW bias, LayerData(w, x, bias),
           \A k \in DOMAIN w.cells : w.cells[k] \in -WMax..WMax,
           NEW out \in Seq(Int), Len(out) = Rows(w), RangeGuard(Cols(w), x, bias, out),
           \A r \in Challenges(Rows(w)) : CheckLinearBiased(PrecomputeV(r, w), x, bias, r, out)
    PROVE  out = Linear(w, x, bias)
<1> DEFINE z == Linear(w, x, bias)
           n == Rows(w)
<1>1. Int8Cells(w)
  BY SymmetricIsInt8 DEF LayerData
<1>2. z \in Seq(Int) /\ Len(z) = n /\ n \in Nat /\ AuditP \in Nat \ {0}
  BY LinearType, Constants DEF LayerData, Rows
<1>3. ASSUME NEW i \in 1..n
      PROVE  out[i] = z[i]
  <2> DEFINE u == UnitChallenge(n, i)
  <2>1. u \in Challenges(n) /\ Dot(u, out) = out[i] % AuditP /\ Dot(u, z) = z[i] % AuditP
    BY <1>2, UnitPicks
  <2>2. (Dot(PrecomputeV(u, w), x) + Dot(u, bias)) % AuditP = Dot(u, out)
    <3> HIDE DEF u
    <3> QED BY <2>1 DEF CheckLinearBiased
  <2>3. (Dot(PrecomputeV(u, w), x) + Dot(u, bias)) % AuditP = Dot(u, z)
    <3> HIDE DEF u
    <3> QED BY <1>1, <2>1, KernelSatisfiesEquation
  <2>4. out[i] % AuditP = z[i] % AuditP /\ out[i] \in Int /\ z[i] \in Int
    BY <1>2, <2>1, <2>2, <2>3
  <2>5. (out[i] - z[i]) % AuditP = 0
    <3>1. Cong(out[i], z[i], AuditP)
      BY <1>2, <2>4, CongMod
    <3>2. PICK k \in Int : out[i] = z[i] + AuditP * k
      BY <3>1 DEF Cong
    <3>3. out[i] - z[i] = AuditP * k + 0 /\ 0 \in 0..(AuditP - 1) /\ out[i] - z[i] \in Int
      BY <1>2, <2>4, <3>2
    <3> HIDE DEF z
    <3>4. 0 = (out[i] - z[i]) % AuditP
      BY <1>2, <3>3, ModUnique
    <3> QED BY <3>4
  <2> QED BY <2>5, MarginSeparates
<1> HIDE DEF z, n
<1>4. out = z
  <2>1. Len(out) = Len(z) /\ \A i \in 1..Len(out) : out[i] = z[i]
    BY <1>2, <1>3 DEF n
  <2> QED BY <1>2, <2>1, SeqEqual
<1> QED BY <1>4 DEF z

(********************************* lists ***********************************)
LEMMA ListOf ==
    ASSUME NEW S, NEW s \in Seq(S)
    PROVE  IsList(s)
  BY DEF IsList, Range

LEMMA ListFacts ==
    ASSUME NEW s, IsList(s)
    PROVE  /\ Len(s) \in Nat /\ DOMAIN s = 1..Len(s) /\ s = [i \in 1..Len(s) |-> s[i]]
  BY DEF IsList

LEMMA MakeList ==
    ASSUME NEW n \in Nat, NEW f, f = [i \in 1..n |-> f[i]]
    PROVE  IsList(f) /\ Len(f) = n
<1>1. DOMAIN f = 1..n
  OBVIOUS
<1>2. f \in [1..n -> Range(f)]
  BY <1>1 DEF Range
<1>3. f \in Seq(Range(f))
  BY <1>2
<1> QED BY <1>1, <1>3 DEF IsList

LEMMA ListIn ==
    ASSUME NEW s, IsList(s), NEW S, \A i \in DOMAIN s : s[i] \in S
    PROVE  s \in Seq(S)
  BY ListFacts

\* Two lists are equal when their entries are.
LEMMA SameList ==
    ASSUME NEW s, NEW t, IsList(s), IsList(t), Len(s) = Len(t), \A i \in 1..Len(s) : s[i] = t[i]
    PROVE  s = t
  BY ListFacts

\* A list with one more entry, and one list after another.
LEMMA Extended ==
    ASSUME NEW s, IsList(s), NEW z
    PROVE  /\ IsList(Append(s, z)) /\ Len(Append(s, z)) = Len(s) + 1
           /\ \A i \in 1..Len(s) : Append(s, z)[i] = s[i]
           /\ Append(s, z)[Len(s) + 1] = z
<1> DEFINE S == Range(s) \union {z}
<1>1. s \in Seq(S) /\ z \in S
  <2>1. \A i \in DOMAIN s : s[i] \in S
    BY DEF Range
  <2> HIDE DEF S
  <2>2. s \in Seq(S)
    BY <2>1, ListIn
  <2> QED BY <2>2 DEF S
<1> HIDE DEF S
<1>2. /\ Append(s, z) \in Seq(S) /\ Len(Append(s, z)) = Len(s) + 1
      /\ \A i \in 1..Len(s) : Append(s, z)[i] = s[i]
      /\ Append(s, z)[Len(s) + 1] = z
  BY <1>1, AppendProperties
<1>3. IsList(Append(s, z))
  BY <1>2, ListOf
<1> QED BY <1>2, <1>3

LEMMA ConcatList ==
    ASSUME NEW s, NEW t, IsList(s), IsList(t)
    PROVE  IsList(s \o t) /\ Range(s \o t) = Range(s) \union Range(t)
<1> DEFINE S == Range(s) \union Range(t)
<1>1. s \in Seq(S) /\ t \in Seq(S)
  <2>1. (\A i \in DOMAIN s : s[i] \in S) /\ (\A i \in DOMAIN t : t[i] \in S)
    BY DEF Range
  <2> HIDE DEF S
  <2> QED BY <2>1, ListIn
<1> HIDE DEF S
<1>2. PICK m, n : m = Len(s) /\ n = Len(t)
  OBVIOUS
<1>3. m \in Nat /\ n \in Nat /\ DOMAIN s = 1..m /\ DOMAIN t = 1..n
  BY <1>2, ListFacts
<1>4. /\ s \o t \in Seq(S) /\ Len(s \o t) = m + n
      /\ \A i \in 1..(m + n) : (s \o t)[i] = IF i <= m THEN s[i] ELSE t[i - m]
  BY <1>1, <1>2, ConcatProperties
<1>5. IsList(s \o t) /\ DOMAIN (s \o t) = 1..(m + n)
  <2>1. IsList(s \o t)
    BY <1>4, ListOf
  <2> QED BY <1>4, <2>1, ListFacts
<1>6. ASSUME NEW i \in 1..m
      PROVE  s[i] \in Range(s \o t)
  <2>1. i \in 1..(m + n) /\ (s \o t)[i] = s[i]
    BY <1>3, <1>4
  <2> QED BY <1>5, <2>1 DEF Range
<1>7. ASSUME NEW i \in 1..n
      PROVE  t[i] \in Range(s \o t)
  <2>1. m + i \in 1..(m + n) /\ ~(m + i <= m) /\ (m + i) - m = i
    BY <1>3
  <2>2. (s \o t)[m + i] = t[i]
    BY <1>4, <2>1
  <2> QED BY <1>5, <2>1, <2>2 DEF Range
<1>8. ASSUME NEW i \in 1..(m + n)
      PROVE  (s \o t)[i] \in S
  BY <1>1, <1>3, <1>4
<1>9. Range(s) \union Range(t) \subseteq Range(s \o t)
  BY <1>3, <1>6, <1>7 DEF Range
<1>10. Range(s \o t) \subseteq S
  BY <1>5, <1>8 DEF Range
<1> QED BY <1>5, <1>9, <1>10 DEF S

\* The entry a lookup returns is one of the list.
LEMMA FindIs ==
    ASSUME NEW list, IsList(list), NEW id, Has(list, id)
    PROVE  \E i \in DOMAIN list : Find(list, id) = list[i] /\ list[i].id = id
<1> DEFINE T == { i \in DOMAIN list : list[i].id = id }
<1>1. T \subseteq Nat /\ T # {}
  BY ListFacts DEF Has
<1>2. Min(T) \in T
  <2> HIDE DEF T
  <2>1. \E x \in T : \A y \in T : x <= y
    BY <1>1, LeastNat
  <2> QED BY <2>1 DEF Min
<1>3. Find(list, id) = list[Min(T)]
  BY DEF Find
<1> QED BY <1>2, <1>3

(****************************** flat lists *********************************)
\* g concatenates the first n entries of seqs, one after the other.
Flat(seqs, n, g) ==
    /\ DOMAIN g = 1..n
    /\ \A k \in 1..n : g[k] = IF k = 1 THEN seqs[k] ELSE g[k - 1] \o seqs[k]

LEMMA FlatExists ==
    ASSUME NEW seqs
    PROVE  \A n \in Nat : \E g : Flat(seqs, n, g)
<1> DEFINE S == { n \in Nat : \E g : Flat(seqs, n, g) }
<1>1. 0 \in S
  <2>1. Flat(seqs, 0, [k \in 1..0 |-> 0])
    BY DEF Flat
  <2> QED BY <2>1
<1>2. ASSUME NEW n \in Nat, n \in S
      PROVE  n + 1 \in S
  <2>1. PICK g : Flat(seqs, n, g)
    BY <1>2
  <2> DEFINE last == IF n + 1 = 1 THEN seqs[n + 1] ELSE g[n] \o seqs[n + 1]
             h == [k \in 1..(n + 1) |-> IF k = n + 1 THEN last ELSE g[k]]
  <2>2. /\ DOMAIN h = 1..(n + 1) /\ h[n + 1] = last
        /\ \A k \in 1..n : h[k] = g[k]
    <3> HIDE DEF last
    <3> QED OBVIOUS
  <2>3. ASSUME NEW k \in 1..(n + 1)
        PROVE  h[k] = IF k = 1 THEN seqs[k] ELSE h[k - 1] \o seqs[k]
    <3>1. CASE k = n + 1
      <4>1. k # 1 => k - 1 \in 1..n /\ k - 1 = n
        BY <3>1
      <4> HIDE DEF h
      <4> QED BY <2>2, <3>1, <4>1
    <3>2. CASE k # n + 1
      <4>1. k \in 1..n /\ (k # 1 => k - 1 \in 1..n)
        BY <3>2
      <4>2. g[k] = IF k = 1 THEN seqs[k] ELSE g[k - 1] \o seqs[k]
        BY <2>1, <4>1 DEF Flat
      <4> HIDE DEF h
      <4> QED BY <2>2, <4>1, <4>2
    <3> QED BY <3>1, <3>2
  <2> HIDE DEF h
  <2>4. Flat(seqs, n + 1, h)
    BY <2>2, <2>3 DEF Flat
  <2> QED BY <2>4
<1> HIDE DEF S
<1>3. \A n \in Nat : n \in S
  BY <1>1, <1>2, SetInduction
<1> QED BY <1>3 DEF S

\* FlattenSeq is the last of these concatenations.
LEMMA FlattenFlat ==
    ASSUME NEW seqs, IsList(seqs)
    PROVE  /\ Len(seqs) = 0 => FlattenSeq(seqs) = <<>>
           /\ Len(seqs) # 0 => \E g : Flat(seqs, Len(seqs), g) /\ FlattenSeq(seqs) = g[Len(seqs)]
<1> DEFINE n == Len(seqs)
           Eq(f) == f = [i \in 1..n |-> IF i = 1 THEN seqs[i] ELSE f[i - 1] \o seqs[i]]
           flatten == CHOOSE f : Eq(f)
<1>1. n \in Nat /\ DOMAIN seqs = 1..n
  BY ListFacts
<1>2. CASE n = 0
  <2>1. FlattenSeq(seqs) = seqs
    BY <1>2 DEF FlattenSeq
  <2>2. seqs = <<>>
    BY <1>2 DEF IsList
  <2> QED BY <1>2, <2>1, <2>2
<1>3. CASE n # 0
  <2>1. FlattenSeq(seqs) = flatten[n]
    BY <1>3 DEF FlattenSeq
  <2>2. \E f : Eq(f)
    <3>1. PICK g : Flat(seqs, n, g)
      BY <1>1, FlatExists
    <3> DEFINE g0 == [k \in 1..n |-> g[k]]
    <3>2. ASSUME NEW k \in 1..n
          PROVE  g0[k] = IF k = 1 THEN seqs[k] ELSE g0[k - 1] \o seqs[k]
      <4>1. g[k] = IF k = 1 THEN seqs[k] ELSE g[k - 1] \o seqs[k]
        BY <3>1 DEF Flat
      <4>2. g0[k] = g[k] /\ (k # 1 => g0[k - 1] = g[k - 1])
        BY <1>1
      <4> HIDE DEF g0
      <4> QED BY <4>1, <4>2
    <3>3. g0 = [k \in 1..n |-> g0[k]]
      OBVIOUS
    <3> HIDE DEF g0
    <3>4. Eq(g0)
      BY <3>2, <3>3
    <3> QED BY <3>4
  <2>3. Eq(flatten)
    <3> HIDE DEF Eq
    <3> QED BY <2>2
  <2> HIDE DEF flatten
  <2>4. Flat(seqs, n, flatten)
    BY <2>3 DEF Flat
  <2> QED BY <1>3, <2>1, <2>4
<1> QED BY <1>2, <1>3

\* Concatenating lists gives a list of their entries.
LEMMA FlattenList ==
    ASSUME NEW seqs, IsList(seqs), \A i \in DOMAIN seqs : IsList(seqs[i])
    PROVE  /\ IsList(FlattenSeq(seqs))
           /\ Range(FlattenSeq(seqs)) = UNION { Range(seqs[i]) : i \in DOMAIN seqs }
<1> DEFINE n == Len(seqs)
<1>1. n \in Nat /\ DOMAIN seqs = 1..n
  BY ListFacts
<1>2. CASE n = 0
  <2>1. FlattenSeq(seqs) = <<>> /\ DOMAIN seqs = {}
    BY <1>1, <1>2, FlattenFlat
  <2>2. IsList(<<>>)
    BY <<>> \in Seq(Nat), ListOf
  <2>3. Range(<<>>) = {}
    BY DEF Range
  <2> QED BY <2>1, <2>2, <2>3
<1>3. CASE n # 0
  <2>1. PICK g : Flat(seqs, n, g) /\ FlattenSeq(seqs) = g[n]
    BY <1>3, FlattenFlat
  <2>2. \A i \in 1..n : g[i] = IF i = 1 THEN seqs[i] ELSE g[i - 1] \o seqs[i]
    BY <2>1 DEF Flat
  <2> DEFINE V(k) == UNION { Range(seqs[i]) : i \in 1..k }
             S == { i \in Nat : i + 1 <= n => IsList(g[i + 1]) /\ Range(g[i + 1]) = V(i + 1) }
  <2>3. 0 \in S
    <3> SUFFICES ASSUME 1 <= n PROVE IsList(g[1]) /\ Range(g[1]) = V(1)
      OBVIOUS
    <3>1. 1 \in 1..n /\ 1..1 = {1}
      BY <1>1
    <3>2. g[1] = seqs[1] /\ IsList(seqs[1])
      BY <1>1, <2>2, <3>1
    <3> QED BY <3>1, <3>2
  <2>4. ASSUME NEW i \in Nat, i \in S
        PROVE  i + 1 \in S
    <3> SUFFICES ASSUME (i + 1) + 1 <= n
                 PROVE  IsList(g[(i + 1) + 1]) /\ Range(g[(i + 1) + 1]) = V((i + 1) + 1)
      OBVIOUS
    <3> DEFINE j == (i + 1) + 1
    <3>1. j \in 1..n /\ j # 1 /\ j - 1 = i + 1 /\ i + 1 <= n /\ 1..j = (1..(i + 1)) \union {j}
      BY <1>1
    <3> HIDE DEF j
    <3>2. /\ g[j] = g[j - 1] \o seqs[j]
          /\ IsList(g[j - 1]) /\ IsList(seqs[j]) /\ Range(g[j - 1]) = V(i + 1)
      BY <1>1, <2>2, <2>4, <3>1
    <3>3. IsList(g[j]) /\ Range(g[j]) = V(i + 1) \union Range(seqs[j])
      BY <3>2, ConcatList
    <3>4. V(j) = V(i + 1) \union Range(seqs[j])
      BY <3>1
    <3> QED BY <3>3, <3>4 DEF j
  <2>5. \A i \in Nat : i \in S
    <3> HIDE DEF S
    <3> QED BY <2>3, <2>4, SetInduction
  <2>6. IsList(g[n]) /\ Range(g[n]) = V(n)
    <3>1. PICK i \in Nat : i + 1 = n
      <4>1. n - 1 \in Nat /\ (n - 1) + 1 = n
        BY <1>1, <1>3
      <4> QED BY <4>1
    <3>2. i \in S /\ i + 1 <= n
      BY <1>1, <2>5, <3>1
    <3> QED BY <3>1, <3>2
  <2> QED BY <1>1, <2>1, <2>6
<1> QED BY <1>2, <1>3

(****************************** the kernels ********************************)
\* Every buffer holds a list of values.
BufsTyped(b) == \A id \in DOMAIN b : IsList(b[id])

Errors == {"MissingBuffer", "MissingWeight", "WeightShape", "Shape", "MissingBias",
           "InvalidRounding", "MissingTable", "TableDomain"}

Answer(k) == k.err \in Errors \union {"ok"} /\ (k.err # "ok" => k.out = <<>>)

\* What prove_block answers for an op: a value, or one of these errors and no value.
LEMMA KernelErrors ==
    ASSUME NEW op, op.kind \in Kinds, NEW b, NEW B
    PROVE  Answer(Kernel(op, b, B))
<1> DEFINE arg == [i \in DOMAIN op.args |-> b[op.args[i]]]
<1>1. CASE \E i \in DOMAIN op.args : op.args[i] \notin DOMAIN b
  BY <1>1 DEF Answer, Kernel, Err, Errors
<1>2. CASE ~(\E i \in DOMAIN op.args : op.args[i] \notin DOMAIN b)
  <2> HIDE DEF arg
  <2>1. Answer(LinearKernel(op, arg[1], B))
    BY DEF Answer, LinearKernel, Out, Err, Errors
  <2>2. Answer(RequantKernel(op, arg[1]))
    BY DEF Answer, RequantKernel, Out, Err, Errors
  <2>3. Answer(ActivationKernel(op, arg[1], B))
    BY DEF Answer, ActivationKernel, Out, Err, Errors
  <2>4. Answer(LayerNormKernel(op, arg[1], B))
    BY DEF Answer, LayerNormKernel, Out, Err, Errors
  <2>5. Answer(ModulateKernel(op, arg[1], arg[2], arg[3]))
    BY DEF Answer, ModulateKernel, Out, Err, Errors
  <2>6. Answer(GateKernel(op, arg[1], arg[2]))
    BY DEF Answer, GateKernel, Out, Err, Errors
  <2>7. Answer(AddKernel(arg[1], arg[2]))
    BY DEF Answer, AddKernel, Out, Err, Errors
  <2>8. Answer(MatMulKernel(op, arg[1], arg[2]))
    BY DEF Answer, MatMulKernel, Out, Err, Errors
  <2>9. Answer(SoftmaxKernel(op, arg[1], B))
    BY DEF Answer, SoftmaxKernel, Out, Err, Errors
  <2>10. Answer(SliceKernel(op, arg[1]))
    BY DEF Answer, SliceKernel, Out, Err, Errors
  <2>11. Answer(Out(FlattenSeq(arg)))
    BY DEF Answer, Out
  <2>12. Kernel(op, b, B) =
            CASE IsLinear(op)           -> LinearKernel(op, arg[1], B)
              [] op.kind = "Requant"    -> RequantKernel(op, arg[1])
              [] op.kind = "Activation" -> ActivationKernel(op, arg[1], B)
              [] op.kind = "LayerNorm"  -> LayerNormKernel(op, arg[1], B)
              [] op.kind = "Modulate"   -> ModulateKernel(op, arg[1], arg[2], arg[3])
              [] op.kind = "Gate"       -> GateKernel(op, arg[1], arg[2])
              [] op.kind = "Add"        -> AddKernel(arg[1], arg[2])
              [] op.kind = "MatMul"     -> MatMulKernel(op, arg[1], arg[2])
              [] op.kind = "Softmax"    -> SoftmaxKernel(op, arg[1], B)
              [] op.kind = "Slice"      -> SliceKernel(op, arg[1])
              [] op.kind = "Concat"     -> Out(FlattenSeq(arg))
    BY <1>2 DEF Kernel, arg
  <2> QED BY <2>1, <2>2, <2>3, <2>4, <2>5, <2>6, <2>7, <2>8, <2>9, <2>10, <2>11, <2>12
        DEF Kinds, IsLinear
<1> QED BY <1>1, <1>2

\* The verifier reports each of them with an error of its own.
LEMMA CodeIsError ==
    ASSUME NEW e \in Errors
    PROVE  Code(e) \in {"MissingBuffer", "MissingBinding", "BlockOpMismatch", "ActivationDomain"}
  BY DEF Code, Errors

\* A kernel that succeeds on lists gives a list.  The rescaling kinds give one
\* whatever the rest of the op is.
OpLists(op) ==
    /\ op.kind \in Kinds /\ IsList(op.args) /\ (op.kind # "Concat" => Len(op.args) = Arity(op))
    /\ op.kind = "BatchedLinear" => op.seq \in Nat
    /\ op.kind = "MatMul" => op.rows \in Nat /\ op.cols \in Nat
    /\ op.kind = "Slice" => op.start \in Nat /\ op.len \in Nat

LEMMA LinearList ==
    ASSUME NEW op, OpLists(op), IsLinear(op), NEW x, NEW B, LinearKernel(op, x, B).err = "ok",
           IsList(B.weights), \A i \in DOMAIN B.weights : B.weights[i].shape \in Seq(Nat)
    PROVE  IsList(LinearKernel(op, x, B).out)
<1> DEFINE w == Find(B.weights, op.weight)
           n == SeqLen(op) * Rows(w)
<1>1. /\ Has(B.weights, op.weight) /\ Len(w.shape) = 2
      /\ LinearKernel(op, x, B).out = LinearRows(w, x, Bias(op, B), SeqLen(op))
  BY DEF LinearKernel, Err, Out
<1>2. w.shape \in Seq(Nat)
  BY <1>1, FindIs
<1>3. Rows(w) \in Nat /\ SeqLen(op) \in Nat
  <2> HIDE DEF w
  <2> QED BY <1>1, <1>2 DEF Rows, SeqLen, OpLists, IsLinear
<1>4. n \in Nat
  <2> HIDE DEF w
  <2> QED BY <1>3
<1> DEFINE f == LinearRows(w, x, Bias(op, B), SeqLen(op))
<1>5. f = [e \in 1..n |-> f[e]]
  BY DEF LinearRows
<1> HIDE DEF f, n
<1> QED BY <1>1, <1>4, <1>5, MakeList DEF f

\* The kinds computed entry by entry.
LEMMA MapList ==
    ASSUME NEW x, IsList(x), NEW f, f = [i \in DOMAIN x |-> f[i]]
    PROVE  IsList(f)
<1>1. Len(x) \in Nat /\ f = [i \in 1..Len(x) |-> f[i]]
  BY ListFacts
<1> QED BY <1>1, MakeList

LEMMA ExactList ==
    ASSUME NEW op, NEW x, NEW y, NEW z, NEW B, IsList(x), IsList(y), IsList(z)
    PROVE  /\ RequantKernel(op, x).err = "ok" => IsList(RequantKernel(op, x).out)
           /\ ActivationKernel(op, x, B).err = "ok" => IsList(ActivationKernel(op, x, B).out)
           /\ LayerNormKernel(op, x, B).err = "ok" => IsList(LayerNormKernel(op, x, B).out)
           /\ ModulateKernel(op, x, y, z).err = "ok" => IsList(ModulateKernel(op, x, y, z).out)
           /\ GateKernel(op, x, y).err = "ok" => IsList(GateKernel(op, x, y).out)
           /\ AddKernel(x, y).err = "ok" => IsList(AddKernel(x, y).out)
           /\ SoftmaxKernel(op, x, B).err = "ok" => IsList(SoftmaxKernel(op, x, B).out)
<1>0. Len(x) \in Nat
  BY ListFacts
<1>1. RequantKernel(op, x).err = "ok" => IsList(RequantKernel(op, x).out)
  BY MapList DEF RequantKernel, Err, Out
<1>2. ActivationKernel(op, x, B).err = "ok" => IsList(ActivationKernel(op, x, B).out)
  BY MapList DEF ActivationKernel, Err, Out
<1>3. LayerNormKernel(op, x, B).err = "ok" => IsList(LayerNormKernel(op, x, B).out)
  <2>1. IsList(LayerNorm(op, x, Find(B.tables, op.table)))
    BY MapList DEF LayerNorm
  <2> QED BY <2>1 DEF LayerNormKernel, Err, Out
<1>4. ModulateKernel(op, x, y, z).err = "ok" => IsList(ModulateKernel(op, x, y, z).out)
  <2> SUFFICES ASSUME Len(y) = Len(x), Len(z) = Len(x) PROVE IsList(ModulateVec(op, x, y, z))
    BY DEF ModulateKernel, Err, Out
  <2>1. Min({Len(x), Len(y), Len(z)}) = Len(x)
    BY <1>0 DEF Min
  <2> DEFINE f == ModulateVec(op, x, y, z)
  <2>2. f = [i \in 1..Len(x) |-> f[i]]
    BY <2>1 DEF ModulateVec
  <2> HIDE DEF f
  <2>3. IsList(f)
    BY <1>0, <2>2, MakeList
  <2> QED BY <2>3 DEF f
<1>5. GateKernel(op, x, y).err = "ok" => IsList(GateKernel(op, x, y).out)
  <2> SUFFICES ASSUME Len(x) = Len(y) PROVE IsList(GateVec(op, x, y))
    BY DEF GateKernel, Err, Out
  <2> DEFINE f == GateVec(op, x, y)
  <2>1. f = [i \in 1..Len(x) |-> f[i]]
    BY <1>0 DEF GateVec, ZipLen
  <2> HIDE DEF f
  <2>2. IsList(f)
    BY <1>0, <2>1, MakeList
  <2> QED BY <2>2 DEF f
<1>6. AddKernel(x, y).err = "ok" => IsList(AddKernel(x, y).out)
  <2> SUFFICES ASSUME Len(x) = Len(y) PROVE IsList(ResidualAdd(x, y))
    BY DEF AddKernel, Err, Out
  <2> DEFINE f == ResidualAdd(x, y)
  <2>1. f = [i \in 1..Len(x) |-> f[i]]
    BY <1>0 DEF ResidualAdd, ZipLen
  <2> HIDE DEF f
  <2>2. IsList(f)
    BY <1>0, <2>1, MakeList
  <2> QED BY <2>2 DEF f
<1>7. SoftmaxKernel(op, x, B).err = "ok" => IsList(SoftmaxKernel(op, x, B).out)
  <2>1. IsList(SoftmaxRows(x, op.row_len, Find(B.tables, op.table), op.one))
    BY MapList DEF SoftmaxRows
  <2> QED BY <2>1 DEF SoftmaxKernel, Err, Out
<1> QED BY <1>1, <1>2, <1>3, <1>4, <1>5, <1>6, <1>7

LEMMA ReshapeList ==
    ASSUME NEW op, OpLists(op), NEW x, NEW y, IsList(x)
    PROVE  /\ (op.kind = "MatMul" /\ MatMulKernel(op, x, y).err = "ok")
                => IsList(MatMulKernel(op, x, y).out)
           /\ (op.kind = "Slice" /\ SliceKernel(op, x).err = "ok")
                => IsList(SliceKernel(op, x).out)
<1>1. (op.kind = "MatMul" /\ MatMulKernel(op, x, y).err = "ok")
         => IsList(MatMulKernel(op, x, y).out)
  <2> SUFFICES ASSUME op.kind = "MatMul" PROVE IsList(MatMul(x, y, op))
    BY DEF MatMulKernel, Err, Out
  <2> DEFINE f == MatMul(x, y, op)
             n == op.rows * op.cols
  <2>1. n \in Nat
    BY DEF OpLists
  <2>2. f = [i \in 1..n |-> f[i]]
    BY DEF MatMul
  <2> HIDE DEF f, n
  <2>3. IsList(f)
    BY <2>1, <2>2, MakeList
  <2> QED BY <2>3 DEF f
<1>2. (op.kind = "Slice" /\ SliceKernel(op, x).err = "ok") => IsList(SliceKernel(op, x).out)
  <2> SUFFICES ASSUME op.kind = "Slice", op.start + op.len <= Len(x)
               PROVE  IsList(SubSeq(x, op.start + 1, op.start + op.len))
    BY ListFacts DEF SliceKernel, Err, Out, OpLists
  <2>1. op.start + 1 \in Int /\ op.start + op.len \in Int
    BY DEF OpLists
  <2>2. \A i \in (op.start + 1)..(op.start + op.len) : x[i] \in Range(x)
    BY ListFacts DEF OpLists, Range
  <2>3. SubSeq(x, op.start + 1, op.start + op.len) \in Seq(Range(x))
    BY <2>1, <2>2, SubSeqProperties
  <2> QED BY <2>3, ListOf
<1> QED BY <1>1, <1>2

LEMMA KernelList ==
    ASSUME NEW op, OpLists(op), NEW b, BufsTyped(b), NEW B, Kernel(op, b, B).err = "ok",
           IsList(B.weights), \A i \in DOMAIN B.weights : B.weights[i].shape \in Seq(Nat)
    PROVE  IsList(Kernel(op, b, B).out)
<1> DEFINE arg == [i \in DOMAIN op.args |-> b[op.args[i]]]
<1>1. \A i \in DOMAIN op.args : op.args[i] \in DOMAIN b
  BY DEF Kernel, Err
<1>2. \A i \in DOMAIN op.args : IsList(arg[i])
  BY <1>1 DEF BufsTyped
<1>3. DOMAIN op.args = 1..Len(op.args) /\ Len(op.args) \in Nat /\ IsList(arg)
  <2>1. IsList(op.args) /\ DOMAIN op.args = 1..Len(op.args) /\ Len(op.args) \in Nat
    BY ListFacts DEF OpLists
  <2> QED BY <2>1, MakeList
<1>4. DOMAIN arg = DOMAIN op.args
  OBVIOUS
<1>5. Kernel(op, b, B) =
        CASE IsLinear(op)           -> LinearKernel(op, arg[1], B)
          [] op.kind = "Requant"    -> RequantKernel(op, arg[1])
          [] op.kind = "Activation" -> ActivationKernel(op, arg[1], B)
          [] op.kind = "LayerNorm"  -> LayerNormKernel(op, arg[1], B)
          [] op.kind = "Modulate"   -> ModulateKernel(op, arg[1], arg[2], arg[3])
          [] op.kind = "Gate"       -> GateKernel(op, arg[1], arg[2])
          [] op.kind = "Add"        -> AddKernel(arg[1], arg[2])
          [] op.kind = "MatMul"     -> MatMulKernel(op, arg[1], arg[2])
          [] op.kind = "Softmax"    -> SoftmaxKernel(op, arg[1], B)
          [] op.kind = "Slice"      -> SliceKernel(op, arg[1])
          [] op.kind = "Concat"     -> Out(FlattenSeq(arg))
  BY <1>1 DEF Kernel, arg
<1> HIDE DEF arg
<1>6. CASE op.kind = "Concat"
  <2>1. Kernel(op, b, B) = Out(FlattenSeq(arg))
    BY <1>5, <1>6 DEF IsLinear
  <2>2. IsList(FlattenSeq(arg))
    BY <1>2, <1>3, <1>4, FlattenList
  <2> QED BY <2>1, <2>2 DEF Out
<1>7. CASE op.kind # "Concat"
  <2>1. Len(op.args) = Arity(op) /\ Arity(op) \in 1..3
        /\ (op.kind = "Modulate" => Arity(op) = 3)
        /\ (op.kind \in {"Gate", "Add", "MatMul"} => Arity(op) = 2)
    <3>1. Arity(op) \in 1..3
      BY DEF Arity
    <3>2. op.kind = "Modulate" => Arity(op) = 3
      BY DEF Arity
    <3>3. op.kind \in {"Gate", "Add", "MatMul"} => Arity(op) = 2
      BY DEF Arity
    <3> QED BY <1>7, <3>1, <3>2, <3>3 DEF OpLists
  <2>2. IsList(arg[1])
    <3>1. 1 \in DOMAIN op.args
      BY <1>3, <2>1
    <3> QED BY <1>2, <3>1
  <2>3. op.kind \in {"Modulate", "Gate", "Add", "MatMul"} => IsList(arg[2])
    BY <1>2, <1>3, <2>1
  <2>4. op.kind = "Modulate" => IsList(arg[3])
    BY <1>2, <1>3, <2>1
  <2>5. CASE IsLinear(op)
    <3>1. Kernel(op, b, B) = LinearKernel(op, arg[1], B)
      BY <1>5, <2>5 DEF IsLinear
    <3> QED BY <2>5, <3>1, LinearList
  <2>6. CASE op.kind = "Requant"
    BY <1>5, <2>2, <2>6, ExactList DEF IsLinear
  <2>7. CASE op.kind = "Activation"
    BY <1>5, <2>2, <2>7, ExactList DEF IsLinear
  <2>8. CASE op.kind = "LayerNorm"
    BY <1>5, <2>2, <2>8, ExactList DEF IsLinear
  <2>9. CASE op.kind = "Modulate"
    BY <1>5, <2>2, <2>3, <2>4, <2>9, ExactList DEF IsLinear
  <2>10. CASE op.kind = "Gate"
    BY <1>5, <2>2, <2>3, <2>10, ExactList DEF IsLinear
  <2>11. CASE op.kind = "Add"
    BY <1>5, <2>2, <2>3, <2>11, ExactList DEF IsLinear
  <2>12. CASE op.kind = "MatMul"
    BY <1>5, <2>2, <2>12, ReshapeList DEF IsLinear
  <2>13. CASE op.kind = "Softmax"
    BY <1>5, <2>2, <2>13, ExactList DEF IsLinear
  <2>14. CASE op.kind = "Slice"
    BY <1>5, <2>2, <2>14, ReshapeList DEF IsLinear
  <2> QED BY <1>7, <2>5, <2>6, <2>7, <2>8, <2>9, <2>10, <2>11, <2>12, <2>13, <2>14
        DEF OpLists, Kinds, IsLinear
<1> QED BY <1>6, <1>7

\* Whatever a kernel answers, its value is a list.
LEMMA KernelOut ==
    ASSUME NEW op, OpLists(op), NEW b, BufsTyped(b), NEW B,
           IsList(B.weights), \A i \in DOMAIN B.weights : B.weights[i].shape \in Seq(Nat)
    PROVE  IsList(Kernel(op, b, B).out)
<1>1. CASE Kernel(op, b, B).err = "ok"
  BY <1>1, KernelList
<1>2. CASE Kernel(op, b, B).err # "ok"
  <2>1. Kernel(op, b, B).out = <<>>
    BY <1>2, KernelErrors DEF OpLists, Answer
  <2>2. <<>> \in Seq(Nat)
    OBVIOUS
  <2> QED BY <2>1, <2>2, ListOf
<1> QED BY <1>1, <1>2

(******************************* the rows **********************************)
\* An entry of a row-major buffer is at one place of one row.
LEMMA RowIndex ==
    ASSUME NEW s \in Nat, NEW n \in Nat, NEW e \in 1..(s * n)
    PROVE  /\ (e - 1) \div n + 1 \in 1..s /\ ((e - 1) % n) + 1 \in 1..n
           /\ (((e - 1) \div n + 1) - 1) * n + (((e - 1) % n) + 1) = e
<1>1. n # 0
  <2>1. n = 0 => s * n = 0
    OBVIOUS
  <2>2. s * n \in Nat
    OBVIOUS
  <2> QED BY <2>1, <2>2
<1> DEFINE d == e - 1
           q == d \div n
           r == d % n
<1>2. s * n \in Nat /\ d \in Nat /\ d < s * n /\ d + 1 = e
  OBVIOUS
<1>3. q \in Int /\ r \in 0..(n - 1) /\ d = n * q + r
  <2> HIDE DEF d
  <2> QED BY <1>1, <1>2, DivMod
<1> HIDE DEF d, q, r
<1>4. q >= 0
  <2> SUFFICES ASSUME q < 0 PROVE FALSE
    BY <1>3
  <2>1. n * (-1 - q) >= 0
    BY <1>1, <1>3, -1 - q \in Nat
  <2>2. n * (-1 - q) = -n - n * q
    BY <1>3
  <2> QED BY <1>2, <1>3, <2>1, <2>2
<1>5. q < s
  <2> SUFFICES ASSUME q >= s PROVE FALSE
    BY <1>3
  <2>1. n * (q - s) >= 0
    BY <1>3, q - s \in Nat
  <2>2. n * (q - s) = n * q - s * n
    BY <1>3
  <2> QED BY <1>2, <1>3, <2>1, <2>2
<1>6. q + 1 \in 1..s /\ r + 1 \in 1..n
  BY <1>3, <1>4, <1>5
<1>7. ((q + 1) - 1) * n + (r + 1) = e
  <2>1. ((q + 1) - 1) * n = n * q
    BY <1>3
  <2> QED BY <1>2, <1>3, <2>1
<1> QED BY <1>6, <1>7 DEF q, r, d

At(t, n, j) == (t - 1) * n + j

RowEntry(x, t, n, j) == At(t, n, j) \in DOMAIN x /\ RowOf(x, t, n)[j] = x[At(t, n, j)]

LEMMA RowOfIs ==
    ASSUME NEW s \in Nat, NEW n \in Nat, NEW x, IsList(x), Len(x) = s * n, NEW t \in 1..s
    PROVE  /\ IsList(RowOf(x, t, n)) /\ Len(RowOf(x, t, n)) = n
           /\ \A j \in 1..n : RowEntry(x, t, n, j)
<1> DEFINE a == (t - 1) * n
           c == t * n
<1>1. a \in Int /\ c \in Int /\ c = a + n /\ s * n \in Nat
  OBVIOUS
<1>2. \A j \in 1..n : a + j \in 1..(s * n)
  BY CellIndex
<1>3. DOMAIN x = 1..(s * n)
  BY ListFacts
<1>4. RowOf(x, t, n) = SubSeq(x, a + 1, c)
  BY DEF RowOf
<1> HIDE DEF a, c
<1>5. \A i \in (a + 1)..c : x[i] \in Range(x)
  <2> SUFFICES ASSUME NEW i \in (a + 1)..c PROVE i \in DOMAIN x
    BY DEF Range
  <2>1. i - a \in 1..n /\ a + (i - a) = i
    BY <1>1
  <2> QED BY <1>2, <1>3, <2>1
<1>6. /\ SubSeq(x, a + 1, c) \in Seq(Range(x)) /\ Len(SubSeq(x, a + 1, c)) = n
      /\ \A j \in 1..n : SubSeq(x, a + 1, c)[j] = x[a + j]
  <2>1. a + 1 \in Int /\ c \in Int
    BY <1>1
  <2>2. /\ SubSeq(x, a + 1, c) \in Seq(Range(x))
        /\ Len(SubSeq(x, a + 1, c)) = IF a + 1 <= c THEN c - (a + 1) + 1 ELSE 0
        /\ \A j \in 1..(c - (a + 1) + 1) : SubSeq(x, a + 1, c)[j] = x[(a + 1) + j - 1]
    BY <1>5, <2>1, SubSeqProperties
  <2>3. c - (a + 1) + 1 = n /\ (a + 1 <= c <=> n # 0)
    BY <1>1
  <2>4. Len(SubSeq(x, a + 1, c)) = n
    BY <1>1, <2>2, <2>3
  <2>5. \A j \in 1..n : (a + 1) + j - 1 = a + j
    BY <1>1
  <2> QED BY <2>2, <2>3, <2>4, <2>5
<1>7. \A j \in 1..n : a + j \in DOMAIN x /\ RowOf(x, t, n)[j] = x[a + j]
  BY <1>2, <1>3, <1>4, <1>6
<1>8. IsList(RowOf(x, t, n)) /\ Len(RowOf(x, t, n)) = n
  BY <1>4, <1>6, ListOf
<1> QED BY <1>7, <1>8 DEF a, At, RowEntry

\* A buffer is the dense layer of its rows exactly when each row is.
LEMMA RowByRow ==
    ASSUME NEW w, NEW x, NEW bias, NEW s \in Nat, Rows(w) \in Nat,
           NEW z, IsList(z), Len(z) = s * Rows(w)
    PROVE  (\A t \in 1..s : RowOf(z, t, Rows(w)) = Linear(w, RowOf(x, t, Cols(w)), bias))
             <=> z = LinearRows(w, x, bias, s)
<1> DEFINE n == Rows(w)
           L(t) == Linear(w, RowOf(x, t, Cols(w)), bias)
           T(e) == (e - 1) \div n + 1
           I(e) == ((e - 1) % n) + 1
           out == LinearRows(w, x, bias, s)
<1>1. n \in Nat /\ s * n \in Nat /\ DOMAIN z = 1..(s * n) /\ Len(z) = s * n
  BY ListFacts
<1>2. \A t \in 1..s : L(t) = [i \in 1..n |-> L(t)[i]]
  BY DEF Linear
<1>3. out = [e \in 1..(s * n) |-> L(T(e))[I(e)]]
  BY DEF LinearRows
<1> HIDE DEF L, out, n
<1>4. \A t \in 1..s : \A j \in 1..n :
        At(t, n, j) \in 1..(s * n) /\ T(At(t, n, j)) = t /\ I(At(t, n, j)) = j
  <2> SUFFICES ASSUME NEW t \in 1..s, NEW j \in 1..n
               PROVE  At(t, n, j) \in 1..(s * n) /\ T(At(t, n, j)) = t /\ I(At(t, n, j)) = j
    OBVIOUS
  <2> DEFINE e == (t - 1) * n + j
             d == e - 1
             q == t - 1
             r == j - 1
  <2>1. e \in 1..(s * n)
    BY <1>1, CellIndex
  <2>2. d \in Int /\ q \in Int /\ n \in Nat \ {0} /\ r \in 0..(n - 1) /\ d = n * q + r
    <3>1. (t - 1) * n \in Int /\ (t - 1) * n = n * (t - 1)
      BY <1>1
    <3> QED BY <1>1, <3>1
  <2> HIDE DEF d, q, r
  <2>3. r = d % n
    BY <2>2, ModUnique
  <2>4. q = d \div n
    <3>1. d \div n \in Int /\ d = n * (d \div n) + (d % n) /\ d % n \in 0..(n - 1)
      BY <2>2, DivMod
    <3> DEFINE p == d \div n
               k == q - p
               zero == n * k
    <3>2. p \in Int /\ d = n * p + r /\ k \in Int
      BY <2>2, <2>3, <3>1
    <3> HIDE DEF p
    <3>3. zero = n * q - n * p
      BY <2>2, <3>2
    <3>4. zero \in Int /\ -n < zero /\ zero < n
      BY <2>2, <3>2, <3>3
    <3>5. zero = 0
      <4> HIDE DEF k
      <4>1. n \in Nat \ {0} /\ k \in Int /\ zero \in Int /\ zero = n * k /\ -n < zero /\ zero < n
        BY <2>2, <3>2, <3>4
      <4> HIDE DEF zero
      <4> QED BY <4>1, SmallMultiple
    <3>6. k = 0
      <4> HIDE DEF k
      <4>1. n * k = 0
        BY <3>5
      <4> QED BY <2>2, <3>2, <4>1
    <3> QED BY <2>2, <3>2, <3>6 DEF p
  <2>5. (d \div n) + 1 = t /\ (d % n) + 1 = j
    BY <2>3, <2>4 DEF q, r
  <2> QED BY <2>1, <2>5 DEF d, At
<1>5. ASSUME \A t \in 1..s : RowOf(z, t, n) = L(t)
      PROVE  z = out
  <2>1. ASSUME NEW e \in 1..(s * n) PROVE z[e] = out[e]
    <3>1. T(e) \in 1..s /\ I(e) \in 1..n /\ (T(e) - 1) * n + I(e) = e
      BY <1>1, RowIndex
    <3> DEFINE t == T(e)
               j == I(e)
    <3>2. out[e] = L(t)[j]
      BY <1>3
    <3> HIDE DEF t, j
    <3>3. RowOf(z, t, n)[j] = z[At(t, n, j)] /\ At(t, n, j) = e
      <4>1. t \in 1..s /\ j \in 1..n /\ At(t, n, j) = e
        BY <3>1 DEF t, j, At
      <4>2. RowEntry(z, t, n, j)
        BY <1>1, <4>1, RowOfIs
      <4> QED BY <4>1, <4>2 DEF RowEntry
    <3>4. RowOf(z, t, n) = L(t)
      BY <1>5, <3>1 DEF t, j
    <3> QED BY <3>1, <3>2, <3>3, <3>4 DEF t, j
  <2>2. IsList(out) /\ Len(out) = s * n
    <3>1. out = [e \in 1..(s * n) |-> out[e]]
      BY <1>3
    <3> QED BY <1>1, <3>1, MakeList
  <2> QED BY <2>1, <2>2, SameList DEF n
<1>6. ASSUME z = out, NEW t \in 1..s
      PROVE  RowOf(z, t, n) = L(t)
  <2>1. IsList(RowOf(z, t, n)) /\ Len(RowOf(z, t, n)) = n
        /\ \A j \in 1..n : RowOf(z, t, n)[j] = z[At(t, n, j)]
    <3>1. \A j \in 1..n : RowEntry(z, t, n, j)
      BY <1>1, RowOfIs
    <3>2. IsList(RowOf(z, t, n)) /\ Len(RowOf(z, t, n)) = n
      BY <1>1, RowOfIs
    <3> QED BY <3>1, <3>2 DEF RowEntry
  <2>2. IsList(L(t)) /\ Len(L(t)) = n
    BY <1>1, <1>2, MakeList
  <2>3. ASSUME NEW j \in 1..n PROVE RowOf(z, t, n)[j] = L(t)[j]
    <3> DEFINE e == At(t, n, j)
    <3>1. e \in 1..(s * n) /\ T(e) = t /\ I(e) = j
      BY <1>4
    <3>2. z[e] = L(T(e))[I(e)]
      <4> HIDE DEF e
      <4> QED BY <1>3, <1>6, <3>1
    <3> QED BY <2>1, <3>1, <3>2
  <2> QED BY <2>1, <2>2, <2>3, SameList
<1> QED BY <1>5, <1>6 DEF L, n, out

(*************************** auditing a dense layer ************************)
\* What the audit of a layer relies on: the tensors bound, and an op's own lists.
BindsOK(B) == IsList(B.weights) /\ \A i \in DOMAIN B.weights : TensorOK(B.weights[i])

OpOK(op, B) ==
    /\ OpLists(op) /\ {"kind", "args"} \subseteq DOMAIN op
    /\ IsLinear(op) => op.bias \in Seq(Range(op.bias)) /\ Len(op.bias) <= 1
    /\ (IsLinear(op) /\ Has(B.weights, op.weight) /\ ~BiasMissing(op, B)
          /\ Len(WeightOf(op, B).shape) = 2)
       => Len(Bias(op, B)) >= Rows(WeightOf(op, B))

\* The layer a linear op stands for when prove_block computes it.
LEMMA LinearFacts ==
    ASSUME NEW op, NEW B, OpOK(op, B), BindsOK(B), IsLinear(op),
           NEW b, BufsTyped(b), Kernel(op, b, B).err = "ok"
    PROVE  LET w == WeightOf(op, B)
               x == b[op.args[1]]
           IN  /\ Has(B.weights, op.weight) /\ TensorOK(w) /\ Len(w.shape) = 2
               /\ Rows(w) \in Nat /\ Cols(w) \in Nat /\ SeqLen(op) \in Nat
               /\ IsList(x) /\ Len(x) = SeqLen(op) * Cols(w)
               /\ Bias(op, B) \in Seq(Int) /\ Len(Bias(op, B)) >= Rows(w)
               /\ Kernel(op, b, B).out = LinearRows(w, x, Bias(op, B), SeqLen(op))
<1> DEFINE w == WeightOf(op, B)
           x == b[op.args[1]]
<1>1. OpLists(op) /\ 1 \in DOMAIN op.args
  <2>1. OpLists(op) /\ IsList(op.args)
    BY DEF OpOK, OpLists
  <2>2. Len(op.args) = 1
    <3>1. op.kind \in {"Linear", "BatchedLinear"}
      BY DEF IsLinear
    <3>2. Arity(op) = 1
      BY <3>1 DEF Arity
    <3> QED BY <2>1, <3>1, <3>2 DEF OpLists
  <2> QED BY <2>1, <2>2, ListFacts
<1>2. \A i \in DOMAIN op.args : op.args[i] \in DOMAIN b
  BY DEF Kernel, Err
<1>3. Kernel(op, b, B) = LinearKernel(op, x, B)
  BY <1>1, <1>2 DEF Kernel, IsLinear
<1>4. IsList(x)
  BY <1>1, <1>2 DEF BufsTyped
<1>5. LinearKernel(op, x, B).err = "ok"
  BY <1>3
<1> HIDE DEF x
<1>6. /\ Has(B.weights, op.weight) /\ Len(w.shape) = 2 /\ Len(x) = SeqLen(op) * Cols(w)
      /\ ~BiasMissing(op, B)
      /\ LinearKernel(op, x, B).out = LinearRows(w, x, Bias(op, B), SeqLen(op))
  BY <1>5 DEF LinearKernel, Err, Out, WeightOf
<1>7. TensorOK(w)
  <2>1. IsList(B.weights)
    BY DEF BindsOK
  <2>2. PICK i \in DOMAIN B.weights : Find(B.weights, op.weight) = B.weights[i]
    BY <1>6, <2>1, FindIs
  <2> QED BY <2>2 DEF BindsOK, WeightOf
<1>8. Len(Bias(op, B)) >= Rows(w)
  BY <1>6 DEF OpOK
<1>9. Rows(w) \in Nat /\ Cols(w) \in Nat
  <2> HIDE DEF w
  <2> QED BY <1>6, <1>7 DEF TensorOK, Rows, Cols
<1>10. SeqLen(op) \in Nat
  BY <1>1 DEF SeqLen, OpLists, IsLinear
<1>11. Bias(op, B) \in Seq(Int)
  <2>1. CASE op.bias = <<>>
    <3>1. Bias(op, B) = [i \in 1..Rows(w) |-> 0]
      BY <2>1 DEF Bias, WeightOf
    <3> QED BY <1>9, <3>1
  <2>2. CASE op.bias # <<>>
    <3>1. Has(B.weights, op.bias[1])
      BY <1>6, <2>2 DEF BiasMissing
    <3>2. IsList(B.weights)
      BY DEF BindsOK
    <3>3. PICK i \in DOMAIN B.weights : Find(B.weights, op.bias[1]) = B.weights[i]
      BY <3>1, <3>2, FindIs
    <3> QED BY <2>2, <3>3 DEF Bias, BindsOK, TensorOK
  <2> QED BY <2>1, <2>2
<1> QED BY <1>3, <1>4, <1>6, <1>7, <1>8, <1>9, <1>10, <1>11 DEF x

\* A bias is read up to the last row of the layer.
LEMMA BiasTrimmed ==
    ASSUME NEW bias \in Seq(Int), NEW n \in Nat, Len(bias) >= n
    PROVE  /\ SubSeq(bias, 1, n) \in Seq(Int) /\ Len(SubSeq(bias, 1, n)) = n
           /\ \A i \in 1..n : SubSeq(bias, 1, n)[i] = bias[i]
<1>1. \A i \in 1..n : bias[i] \in Int
  OBVIOUS
<1>2. /\ SubSeq(bias, 1, n) \in Seq(Int)
      /\ Len(SubSeq(bias, 1, n)) = IF 1 <= n THEN n - 1 + 1 ELSE 0
      /\ \A i \in 1..(n - 1 + 1) : SubSeq(bias, 1, n)[i] = bias[1 + i - 1]
  BY <1>1, 1 \in Int, n \in Int, SubSeqProperties
<1>3. \A i \in 1..n : SubSeq(bias, 1, n)[i] = bias[i]
  <2>1. n - 1 + 1 = n /\ \A i \in 1..n : 1 + i - 1 = i
    OBVIOUS
  <2> QED BY <1>2, <2>1
<1> QED BY <1>2, <1>3

LEMMA TrimmedCheck ==
    ASSUME NEW w, NEW x, Rows(w) \in Nat, NEW bias \in Seq(Int), Len(bias) >= Rows(w)
    PROVE  LET b0 == SubSeq(bias, 1, Rows(w)) IN
           /\ Linear(w, x, b0) = Linear(w, x, bias)
           /\ \A r \in Challenges(Rows(w)) : Dot(r, b0) = Dot(r, bias)
           /\ WithinOperandBound(bias) => WithinOperandBound(b0)
<1> DEFINE n == Rows(w)
           b0 == SubSeq(bias, 1, n)
<1>1. b0 \in Seq(Int) /\ Len(b0) = n /\ \A i \in 1..n : b0[i] = bias[i]
  BY BiasTrimmed
<1> HIDE DEF b0
<1>2. Linear(w, x, b0) = Linear(w, x, bias)
  BY <1>1 DEF Linear
<1>3. ASSUME NEW r \in Challenges(n)
      PROVE  Dot(r, b0) = Dot(r, bias)
  <2>1. Len(r) = n
    BY <1>1 DEF Challenges
  <2>2. ZipLen(r, b0) = n /\ ZipLen(r, bias) = n
    BY <1>1, <2>1 DEF ZipLen
  <2>3. [i \in 1..n |-> r[i] * FromInt(b0[i])] = [i \in 1..n |-> r[i] * FromInt(bias[i])]
    BY <1>1
  <2> QED BY <2>2, <2>3 DEF Dot
<1>4. WithinOperandBound(bias) => WithinOperandBound(b0)
  BY <1>1 DEF WithinOperandBound
<1> QED BY <1>2, <1>3, <1>4 DEF b0

LEMMA InBound ==
    ASSUME NEW s, IsList(s), WithinOperandBound(s)
    PROVE  s \in Seq(Int)
<1>1. \A i \in DOMAIN s : s[i] \in Int
  BY Constants DEF WithinOperandBound
<1> QED BY <1>1, ListIn

\* A weight, an input row and a bias cut to the rows are a layer.
LEMMA RowLayer ==
    ASSUME NEW w, TensorOK(w), Len(w.shape) = 2, Rows(w) \in Nat,
           NEW x \in Seq(Int), Len(x) = Cols(w),
           NEW bias \in Seq(Int), Len(bias) >= Rows(w)
    PROVE  LayerData(w, x, SubSeq(bias, 1, Rows(w)))
<1>1. SubSeq(bias, 1, Rows(w)) \in Seq(Int) /\ Len(SubSeq(bias, 1, Rows(w))) = Rows(w)
  BY BiasTrimmed
<1> QED BY <1>1 DEF LayerData, TensorOK

\* A row that every challenge accepts is the layer's.
LEMMA RowSound ==
    ASSUME NEW w, TensorOK(w), Len(w.shape) = 2, Rows(w) \in Nat,
           NEW x, IsList(x), Len(x) = Cols(w),
           NEW bias \in Seq(Int), Len(bias) >= Rows(w),
           NEW z, IsList(z), Len(z) = Rows(w),
           \A r \in Challenges(Rows(w)) : CheckLinearBiased(PrecomputeV(r, w), x, bias, r, z)
    PROVE  z = Linear(w, x, bias)
<1> DEFINE n == Rows(w)
           b0 == SubSeq(bias, 1, n)
<1>1. [i \in 1..n |-> 0] \in Challenges(n)
  BY Constants DEF Challenges, FieldElems
<1>2. RangeGuard(Len(x), x, bias, z)
  BY <1>1 DEF CheckLinearBiased
<1>3. x \in Seq(Int) /\ z \in Seq(Int)
  BY <1>2, InBound DEF RangeGuard
<1>4. LayerData(w, x, b0)
  BY <1>3, RowLayer
<1>5. Linear(w, x, b0) = Linear(w, x, bias) /\ (WithinOperandBound(bias) => WithinOperandBound(b0))
  BY TrimmedCheck
<1>6. RangeGuard(Cols(w), x, b0, z)
  BY <1>2, <1>5 DEF RangeGuard
<1>7. ASSUME NEW r \in Challenges(n)
      PROVE  CheckLinearBiased(PrecomputeV(r, w), x, b0, r, z)
  <2>1. CheckLinearBiased(PrecomputeV(r, w), x, bias, r, z) /\ Dot(r, b0) = Dot(r, bias)
    BY TrimmedCheck
  <2> HIDE DEF b0
  <2> QED BY <1>6, <2>1 DEF CheckLinearBiased
<1>8. \A k \in DOMAIN w.cells : w.cells[k] \in -WMax..WMax
  BY DEF TensorOK
<1> HIDE DEF b0
<1>9. z = Linear(w, x, b0)
  BY <1>3, <1>4, <1>6, <1>7, <1>8, WrongOutputIsCaught
<1> QED BY <1>5, <1>9 DEF b0

\* The layer's own row passes under every challenge, within the range guard.
LEMMA RowComplete ==
    ASSUME NEW w, TensorOK(w), Len(w.shape) = 2, Rows(w) \in Nat,
           NEW x, IsList(x), Len(x) = Cols(w),
           NEW bias \in Seq(Int), Len(bias) >= Rows(w),
           RangeGuard(Cols(w), x, bias, Linear(w, x, bias)),
           NEW r \in Challenges(Rows(w))
    PROVE  CheckLinearBiased(PrecomputeV(r, w), x, bias, r, Linear(w, x, bias))
<1> DEFINE n == Rows(w)
           b0 == SubSeq(bias, 1, n)
<1>1. x \in Seq(Int)
  BY InBound DEF RangeGuard
<1>2. LayerData(w, x, b0) /\ Int8Cells(w)
  BY <1>1, RowLayer, SymmetricIsInt8 DEF TensorOK
<1>3. Linear(w, x, b0) = Linear(w, x, bias) /\ Dot(r, b0) = Dot(r, bias)
  BY TrimmedCheck
<1> HIDE DEF b0
<1>4. (Dot(PrecomputeV(r, w), x) + Dot(r, b0)) % AuditP = Dot(r, Linear(w, x, b0))
  BY <1>2, KernelSatisfiesEquation
<1> QED BY <1>3, <1>4 DEF CheckLinearBiased

\* A claim for a dense layer that every challenge accepts is the kernel's
\* value: whatever else passes, passed by luck.
LEMMA LinearSound ==
    ASSUME NEW op, NEW B, OpOK(op, B), BindsOK(B), IsLinear(op),
           NEW b, BufsTyped(b), NEW z, IsList(z),
           \A r \in [1..Rows(WeightOf(op, B)) -> FieldElems] : AuditLinear(op, z, b, B, r) = "ok"
    PROVE  Kernel(op, b, B).err = "ok" /\ z = Kernel(op, b, B).out
<1> DEFINE w == WeightOf(op, B)
           n == Rows(w)
           m == Cols(w)
           x == b[op.args[1]]
           bias == Bias(op, B)
           s == SeqLen(op)
           k == Kernel(op, b, B)
<1>1. PICK r0 : r0 \in [1..n -> FieldElems]
  <2>1. 0 \in FieldElems
    BY Constants DEF FieldElems
  <2>2. [i \in 1..n |-> 0] \in [1..n -> FieldElems]
    BY <2>1
  <2> QED BY <2>2
<1>2. k.err = "ok"
  <2>1. AuditLinear(op, z, b, B, r0) = "ok"
    BY <1>1
  <2>2. k.err \in Errors \union {"ok"}
    BY KernelErrors DEF OpOK, OpLists, Answer
  <2>3. k.err # "ok" => Code(k.err) # "ok"
    BY <2>2, CodeIsError
  <2> QED BY <2>1, <2>3 DEF AuditLinear
<1>3. ASSUME NEW r \in [1..n -> FieldElems]
      PROVE  /\ ~WrongLength(op, z, B)
             /\ \A t \in 1..s : CheckLinearBiased(PrecomputeV(r, w), RowOf(x, t, m), bias, r, RowOf(z, t, n))
  <2>1. AuditLinear(op, z, b, B, r) = "ok"
    BY <1>3
  <2>2. ~WrongLength(op, z, B) /\ EquationHolds(op, z, x, B, r)
    BY <1>2, <2>1 DEF AuditLinear
  <2> QED BY <2>2 DEF EquationHolds
<1>4. /\ Has(B.weights, op.weight) /\ TensorOK(w) /\ Len(w.shape) = 2
      /\ n \in Nat /\ m \in Nat /\ s \in Nat /\ IsList(x) /\ Len(x) = s * m
      /\ bias \in Seq(Int) /\ Len(bias) >= n /\ k.out = LinearRows(w, x, bias, s)
  BY <1>2, LinearFacts
<1>5. Len(z) = s * n
  BY <1>1, <1>3, <1>4 DEF WrongLength
<1> HIDE DEF w, n, m, x, bias, s, k
<1>6. ASSUME NEW t \in 1..s
      PROVE  RowOf(z, t, n) = Linear(w, RowOf(x, t, m), bias)
  <2>1. IsList(RowOf(x, t, m)) /\ Len(RowOf(x, t, m)) = m
    BY <1>4, RowOfIs
  <2>2. IsList(RowOf(z, t, n)) /\ Len(RowOf(z, t, n)) = n
    BY <1>4, <1>5, RowOfIs
  <2>3. \A r \in Challenges(n) :
           CheckLinearBiased(PrecomputeV(r, w), RowOf(x, t, m), bias, r, RowOf(z, t, n))
    BY <1>3 DEF Challenges
  <2> QED BY <1>4, <2>1, <2>2, <2>3, RowSound DEF n, m
<1>7. z = LinearRows(w, x, bias, s)
  BY <1>4, <1>5, <1>6, RowByRow DEF n, m
<1> QED BY <1>2, <1>4, <1>7 DEF k

\* The kernel's own value is accepted under every challenge, or is out of range.
LEMMA LinearComplete ==
    ASSUME NEW op, NEW B, OpOK(op, B), BindsOK(B), IsLinear(op),
           NEW b, BufsTyped(b), Kernel(op, b, B).err = "ok",
           NEW r \in [1..Rows(WeightOf(op, B)) -> FieldElems]
    PROVE  AuditLinear(op, Kernel(op, b, B).out, b, B, r) \in {"ok", "AccumulatorRange"}
<1> DEFINE w == WeightOf(op, B)
           n == Rows(w)
           m == Cols(w)
           x == b[op.args[1]]
           bias == Bias(op, B)
           s == SeqLen(op)
           z == Kernel(op, b, B).out
<1>1. /\ Has(B.weights, op.weight) /\ TensorOK(w) /\ Len(w.shape) = 2
      /\ n \in Nat /\ m \in Nat /\ s \in Nat /\ IsList(x) /\ Len(x) = s * m
      /\ bias \in Seq(Int) /\ Len(bias) >= n /\ z = LinearRows(w, x, bias, s)
  BY LinearFacts
<1> HIDE DEF w, n, m, x, bias, s, z
<1>2. s * n \in Nat /\ IsList(z) /\ Len(z) = s * n
  <2>1. s * n \in Nat
    BY <1>1
  <2>2. z = [e \in 1..(s * n) |-> z[e]]
    BY <1>1 DEF LinearRows, n
  <2> QED BY <2>1, <2>2, MakeList
<1>3. ~WrongLength(op, z, B)
  BY <1>2 DEF WrongLength, s, n, w
<1>4. ASSUME RangeGuard(m, x, bias, z), NEW t \in 1..s
      PROVE  CheckLinearBiased(PrecomputeV(r, w), RowOf(x, t, m), bias, r, RowOf(z, t, n))
  <2>1. /\ IsList(RowOf(x, t, m)) /\ Len(RowOf(x, t, m)) = m
        /\ \A j \in 1..m : RowEntry(x, t, m, j)
    BY <1>1, RowOfIs
  <2>2. /\ IsList(RowOf(z, t, n)) /\ Len(RowOf(z, t, n)) = n
        /\ \A j \in 1..n : RowEntry(z, t, n, j)
    BY <1>1, <1>2, RowOfIs
  <2>3. WithinOperandBound(RowOf(x, t, m))
    BY <1>4, <2>1, ListFacts DEF RowEntry, WithinOperandBound, RangeGuard
  <2>4. WithinOperandBound(RowOf(z, t, n))
    BY <1>4, <2>2, ListFacts DEF RowEntry, WithinOperandBound, RangeGuard
  <2>5. RowOf(z, t, n) = Linear(w, RowOf(x, t, m), bias)
    BY <1>1, <1>2, RowByRow DEF n, m
  <2>6. RangeGuard(m, RowOf(x, t, m), bias, RowOf(z, t, n))
    BY <1>4, <2>3, <2>4 DEF RangeGuard
  <2>7. r \in Challenges(n)
    BY DEF Challenges, n, w
  <2> DEFINE row == RowOf(x, t, m)
  <2> HIDE DEF row
  <2>8. RangeGuard(m, row, bias, Linear(w, row, bias)) /\ IsList(row) /\ Len(row) = m
    BY <2>1, <2>5, <2>6 DEF row
  <2>9. CheckLinearBiased(PrecomputeV(r, w), row, bias, r, Linear(w, row, bias))
    BY <1>1, <2>7, <2>8, RowComplete DEF n, m
  <2> QED BY <2>5, <2>9 DEF row
<1>5. RangeGuard(m, x, bias, z) => EquationHolds(op, z, x, B, r)
  BY <1>4 DEF EquationHolds, w, n, m, bias, s
<1> QED BY <1>3, <1>5 DEF AuditLinear, z, x, bias, m, w

(******************************* auditing an op ****************************)
\* A claim that passes is for an op the kernel computes; it is the kernel's
\* value unless the op is a dense layer.
LEMMA AuditSound ==
    ASSUME NEW op, NEW B, OpOK(op, B), NEW b, NEW z, NEW r, AuditOp(op, z, b, B, r) = "ok"
    PROVE  Kernel(op, b, B).err = "ok" /\ (~IsLinear(op) => z = Kernel(op, b, B).out)
<1> DEFINE k == Kernel(op, b, B)
<1>1. k.err \in Errors \union {"ok"}
  BY KernelErrors DEF OpOK, OpLists, Answer
<1>2. k.err # "ok" => Code(k.err) # "ok"
  BY <1>1, CodeIsError
<1> HIDE DEF k
<1>3. CASE IsLinear(op)
  BY <1>2, <1>3 DEF AuditOp, AuditLinear, k
<1>4. CASE ~IsLinear(op)
  BY <1>2, <1>4 DEF AuditOp, AuditExact, k
<1> QED BY <1>3, <1>4 DEF k

\* The audit of an op always says something.
LEMMA AuditSpeaks ==
    ASSUME NEW op, NEW B, OpOK(op, B), NEW b, NEW z, NEW r
    PROVE  AuditOp(op, z, b, B, r) # "none"
<1> DEFINE k == Kernel(op, b, B)
<1>1. k.err \in Errors \union {"ok"}
  BY KernelErrors DEF OpOK, OpLists, Answer
<1>2. k.err # "ok" => Code(k.err) # "none"
  BY <1>1, CodeIsError
<1> HIDE DEF k
<1>3. CASE IsLinear(op)
  BY <1>2, <1>3 DEF AuditOp, AuditLinear, k
<1>4. CASE ~IsLinear(op)
  BY <1>2, <1>4 DEF AuditOp, AuditExact, k
<1> QED BY <1>3, <1>4 DEF k

\* Where the shift is in range, the kernel's value passes, or a dense layer is
\* out of range; where it is not, nothing passes.
LEMMA AuditComplete ==
    ASSUME NEW op, NEW B, OpOK(op, B), BindsOK(B), NEW b, BufsTyped(b),
           Kernel(op, b, B).err = "ok", NEW z, NEW r,
           IsLinear(op) => r \in [1..Rows(WeightOf(op, B)) -> FieldElems]
    PROVE  /\ ShiftRejected(op) => AuditOp(op, z, b, B, r) = "InvalidShift"
           /\ (~ShiftRejected(op) /\ z = Kernel(op, b, B).out)
                => AuditOp(op, z, b, B, r) \in {"ok", "AccumulatorRange"}
<1>1. CASE IsLinear(op)
  <2>1. ~ShiftRejected(op)
    BY <1>1 DEF ShiftRejected, Shifts, IsLinear
  <2>2. AuditLinear(op, Kernel(op, b, B).out, b, B, r) \in {"ok", "AccumulatorRange"}
    BY <1>1, LinearComplete
  <2> QED BY <1>1, <2>1, <2>2 DEF AuditOp
<1>2. CASE ~IsLinear(op)
  BY <1>2 DEF AuditOp, AuditExact
<1> QED BY <1>1, <1>2

(************************* trees bind their leaves *************************)
LEMMA TwoOrMore ==
    ASSUME NEW s, IsList(s), Len(s) >= 1, Len(s) # 1
    PROVE  Len(s) >= 2
<1>1. PICK n : n = Len(s)
  OBVIOUS
<1>2. n \in Nat /\ n >= 1 /\ n # 1
  BY <1>1, ListFacts
<1>3. n >= 2
  BY <1>2
<1> QED BY <1>1, <1>3

\* Lists that agree as far as both go and have the same entries.
SameUpTo(s, t) == Range(s) = Range(t) /\ \A i \in DOMAIN s \cap DOMAIN t : s[i] = t[i]

\* The i-th node of a level stands for two entries of the one below.
LEMMA NodeIs ==
    ASSUME NEW node, NEW s, IsList(s), NEW j \in DOMAIN s
    PROVE  /\ DOMAIN MerkleUp(node, s) = 1..((Len(s) + 1) \div 2)
           /\ \A i \in DOMAIN MerkleUp(node, s) :
                 /\ 2 * i - 1 \in DOMAIN s
                 /\ MerkleUp(node, s)[i] =
                      << node, s[2 * i - 1], IF 2 * i \in DOMAIN s THEN s[2 * i] ELSE s[2 * i - 1] >>
           /\ \E i \in DOMAIN MerkleUp(node, s) : j = 2 * i - 1 \/ j = 2 * i
<1> DEFINE u == MerkleUp(node, s)
<1>1. PICK n : n = Len(s)
  OBVIOUS
<1>2. n \in Nat /\ DOMAIN s = 1..n
  BY <1>1, ListFacts
<1>3. DOMAIN u = 1..((n + 1) \div 2)
  BY <1>1 DEF MerkleUp
<1>4. ASSUME NEW i \in 1..((n + 1) \div 2)
      PROVE  /\ 2 * i - 1 \in DOMAIN s /\ (2 * i <= n <=> 2 * i \in DOMAIN s)
             /\ u[i] = << node, s[2 * i - 1], IF 2 * i <= n THEN s[2 * i] ELSE s[2 * i - 1] >>
  BY <1>1, <1>2 DEF MerkleUp
<1>5. \E i \in 1..((n + 1) \div 2) : j = 2 * i - 1 \/ j = 2 * i
  <2> DEFINE i == (j + 1) \div 2
  <2>1. i \in 1..((n + 1) \div 2) /\ (j = 2 * i - 1 \/ j = 2 * i)
    BY <1>2
  <2> HIDE DEF i
  <2> QED BY <2>1
<1> HIDE DEF u
<1>6. \A i \in DOMAIN u :
         /\ 2 * i - 1 \in DOMAIN s
         /\ u[i] = << node, s[2 * i - 1], IF 2 * i \in DOMAIN s THEN s[2 * i] ELSE s[2 * i - 1] >>
  BY <1>3, <1>4
<1> QED BY <1>1, <1>3, <1>5, <1>6 DEF u

\* A level is determined by the one above it, up to a last entry hashed twice.
LEMMA UpEntries ==
    ASSUME NEW node, NEW s, NEW t, IsList(s), IsList(t),
           SameUpTo(MerkleUp(node, s), MerkleUp(node, t)), NEW j \in DOMAIN s
    PROVE  s[j] \in Range(t) /\ (j \in DOMAIN t => s[j] = t[j])
<1> DEFINE u == MerkleUp(node, s)
           v == MerkleUp(node, t)
<1>1. PICK i \in DOMAIN u : j = 2 * i - 1 \/ j = 2 * i
  BY NodeIs
<1>2. u[i] = << node, s[2 * i - 1], IF 2 * i \in DOMAIN s THEN s[2 * i] ELSE s[2 * i - 1] >>
  BY NodeIs
<1>3. s[j] = u[i][2] \/ s[j] = u[i][3]
  BY <1>1, <1>2
<1>4. PICK k \in DOMAIN v : u[i] = v[k]
  <2>1. u[i] \in Range(v)
    BY DEF SameUpTo, Range
  <2> QED BY <2>1 DEF Range
<1>5. PICK e : e \in DOMAIN t
  <2>1. DOMAIN v = 1..((Len(t) + 1) \div 2) /\ Len(t) \in Nat /\ DOMAIN t = 1..Len(t)
    BY ListFacts DEF MerkleUp
  <2>2. 1 \in 1..Len(t)
    <3>1. PICK n : n = Len(t)
      OBVIOUS
    <3>2. n \in Nat /\ k \in 1..((n + 1) \div 2)
      BY <2>1, <3>1
    <3> QED BY <3>1, <3>2
  <2> QED BY <2>1, <2>2
<1>6. /\ 2 * k - 1 \in DOMAIN t
      /\ v[k] = << node, t[2 * k - 1], IF 2 * k \in DOMAIN t THEN t[2 * k] ELSE t[2 * k - 1] >>
  <2>1. \A x \in DOMAIN v :
           /\ 2 * x - 1 \in DOMAIN t
           /\ v[x] = << node, t[2 * x - 1], IF 2 * x \in DOMAIN t THEN t[2 * x] ELSE t[2 * x - 1] >>
    BY <1>5, NodeIs
  <2> HIDE DEF v
  <2> QED BY <1>4, <2>1
<1>7. s[j] \in Range(t)
  <2>1. v[k][2] = t[2 * k - 1] /\ v[k][3] \in { t[2 * k], t[2 * k - 1] }
        /\ (v[k][3] = t[2 * k - 1] \/ 2 * k \in DOMAIN t)
    BY <1>6
  <2> QED BY <1>3, <1>4, <1>6, <2>1 DEF Range
<1>8. ASSUME j \in DOMAIN t
      PROVE  s[j] = t[j]
  <2>1. i \in DOMAIN v
    <3>1. PICK n : n = Len(t)
      OBVIOUS
    <3>2. n \in Nat /\ DOMAIN t = 1..n /\ DOMAIN v = 1..((n + 1) \div 2)
      BY <3>1, ListFacts DEF MerkleUp
    <3>3. i \in Nat /\ i >= 1
      <4>1. DOMAIN u = 1..((Len(s) + 1) \div 2)
        BY DEF MerkleUp
      <4> HIDE DEF u
      <4>2. i \in 1..((Len(s) + 1) \div 2) /\ Len(s) \in Nat
        BY <4>1, ListFacts
      <4> QED BY <4>2
    <3>4. i \in 1..((n + 1) \div 2)
      BY <1>1, <1>8, <3>2, <3>3
    <3> QED BY <3>2, <3>4
  <2>2. u[i] = v[i]
    <3> HIDE DEF u, v
    <3> QED BY <2>1 DEF SameUpTo, u, v
  <2>3. v[i] = << node, t[2 * i - 1], IF 2 * i \in DOMAIN t THEN t[2 * i] ELSE t[2 * i - 1] >>
    BY <1>5, <2>1, NodeIs
  <2> HIDE DEF u, v
  <2> QED BY <1>1, <1>2, <1>8, <2>2, <2>3
<1> QED BY <1>7, <1>8

LEMMA UpBinds ==
    ASSUME NEW node, NEW s, NEW t, IsList(s), IsList(t),
           SameUpTo(MerkleUp(node, s), MerkleUp(node, t))
    PROVE  SameUpTo(s, t)
<1>1. SameUpTo(MerkleUp(node, t), MerkleUp(node, s))
  BY DEF SameUpTo
<1>2. \A j \in DOMAIN s : s[j] \in Range(t) /\ (j \in DOMAIN t => s[j] = t[j])
  BY UpEntries
<1>3. \A j \in DOMAIN t : t[j] \in Range(s)
  BY <1>1, UpEntries
<1> QED BY <1>2, <1>3 DEF SameUpTo, Range

\* The next level is a list, half as long and no longer than it was.
LEMMA UpShrinks ==
    ASSUME NEW node, NEW s, IsList(s), Len(s) >= 2
    PROVE  /\ IsList(MerkleUp(node, s)) /\ Len(MerkleUp(node, s)) = (Len(s) + 1) \div 2
           /\ Len(MerkleUp(node, s)) >= 1 /\ Len(MerkleUp(node, s)) <= Len(s) - 1
<1> DEFINE n == (Len(s) + 1) \div 2
           F(i) == << node, s[2 * i - 1], IF 2 * i <= Len(s) THEN s[2 * i] ELSE s[2 * i - 1] >>
           u == [i \in 1..n |-> F(i)]
<1>1. Len(s) \in Nat /\ n \in Nat /\ n >= 1 /\ n <= Len(s) - 1
  BY ListFacts
<1>2. MerkleUp(node, s) = u
  BY DEF MerkleUp
<1>3. u = [i \in 1..n |-> u[i]]
  OBVIOUS
<1> HIDE DEF u
<1>4. IsList(u) /\ Len(u) = n
  BY <1>1, <1>3, MakeList
<1> QED BY <1>1, <1>2, <1>4

\* The levels of a tree over its leaves, up to the n-th.
Levels(node, leaves, n, g) ==
    g = [k \in 0..n |-> IF k = 0 THEN leaves
                        ELSE IF Len(g[k - 1]) = 1 THEN g[k - 1]
                        ELSE MerkleUp(node, g[k - 1])]

LEMMA LevelsExist ==
    ASSUME NEW node, NEW leaves
    PROVE  \A n \in Nat : \E g : Levels(node, leaves, n, g)
<1> DEFINE S == { n \in Nat : \E g : Levels(node, leaves, n, g) }
           Next1(x) == IF Len(x) = 1 THEN x ELSE MerkleUp(node, x)
<1>1. 0 \in S
  <2>1. Levels(node, leaves, 0, [k \in 0..0 |-> leaves])
    BY DEF Levels
  <2> QED BY <2>1
<1>2. ASSUME NEW n \in Nat, n \in S
      PROVE  n + 1 \in S
  <2>1. PICK g : Levels(node, leaves, n, g)
    BY <1>2
  <2> DEFINE h == [k \in 0..(n + 1) |-> IF k = n + 1 THEN Next1(g[n]) ELSE g[k]]
  <2>2. \A k \in 0..n : g[k] = IF k = 0 THEN leaves ELSE Next1(g[k - 1])
    BY <2>1 DEF Levels
  <2> HIDE DEF Next1
  <2>3. ASSUME NEW k \in 0..(n + 1)
        PROVE  h[k] = IF k = 0 THEN leaves ELSE Next1(h[k - 1])
    <3>1. CASE k = n + 1
      BY <3>1
    <3>2. CASE k # n + 1
      <4>1. k \in 0..n /\ (k # 0 => k - 1 \in 0..n /\ k - 1 # n + 1)
        BY <3>2
      <4>2. h[k] = g[k] /\ (k # 0 => h[k - 1] = g[k - 1])
        BY <3>2, <4>1
      <4>3. g[k] = IF k = 0 THEN leaves ELSE Next1(g[k - 1])
        BY <2>2, <4>1
      <4> HIDE DEF h
      <4> QED BY <4>2, <4>3
    <3> QED BY <3>1, <3>2
  <2>4. h = [k \in 0..(n + 1) |-> h[k]]
    OBVIOUS
  <2> HIDE DEF h
  <2>5. h = [k \in 0..(n + 1) |-> IF k = 0 THEN leaves ELSE Next1(h[k - 1])]
    BY <2>3, <2>4
  <2>6. Levels(node, leaves, n + 1, h)
    BY <2>5 DEF Levels, Next1
  <2> QED BY <2>6
<1> HIDE DEF S
<1>3. \A n \in Nat : n \in S
  BY <1>1, <1>2, SetInduction
<1> QED BY <1>3 DEF S

\* The root is the only entry of the last level.
LEMMA RootIs ==
    ASSUME NEW node, NEW leaves, IsList(leaves), leaves # <<>>
    PROVE  \E g : Levels(node, leaves, Len(leaves), g) /\ MerkleRoot(node, leaves) = g[Len(leaves)][1]
<1> DEFINE n == Len(leaves)
           g == CHOOSE x : Levels(node, leaves, n, x)
<1>1. n \in Nat
  BY ListFacts
<1>2. Levels(node, leaves, n, g)
  BY <1>1, LevelsExist
<1>3. MerkleRoot(node, leaves) = g[n][1]
  BY DEF MerkleRoot, Levels
<1> HIDE DEF g
<1> QED BY <1>2, <1>3

\* Each level is a list, shorter than the one below until one node is left.
LEMMA LevelShape ==
    ASSUME NEW node, NEW leaves, IsList(leaves), NEW n \in Nat, Len(leaves) = n, n >= 1,
           NEW g, Levels(node, leaves, n, g)
    PROVE  \A k \in 0..n : IsList(g[k]) /\ Len(g[k]) >= 1 /\ (Len(g[k]) = 1 \/ Len(g[k]) <= n - k)
<1> DEFINE Shape(k) == IsList(g[k]) /\ Len(g[k]) >= 1 /\ (Len(g[k]) = 1 \/ Len(g[k]) <= n - k)
           S == { k \in Nat : k <= n => Shape(k) }
<1>1. \A k \in 0..n : g[k] = IF k = 0 THEN leaves
                             ELSE IF Len(g[k - 1]) = 1 THEN g[k - 1] ELSE MerkleUp(node, g[k - 1])
  BY DEF Levels
<1>2. 0 \in S
  <2>1. g[0] = leaves
    BY <1>1
  <2> QED BY <2>1
<1>3. ASSUME NEW k \in Nat, k \in S
      PROVE  k + 1 \in S
  <2>1. SUFFICES ASSUME k + 1 <= n PROVE Shape(k + 1)
    BY <1>3
  <2>2. Shape(k) /\ k + 1 \in 0..n /\ (k + 1) - 1 = k /\ k + 1 # 0
    BY <1>3, <2>1
  <2>3. g[k + 1] = IF Len(g[k]) = 1 THEN g[k] ELSE MerkleUp(node, g[k])
    BY <1>1, <2>2
  <2>4. CASE Len(g[k]) = 1
    BY <2>2, <2>3, <2>4
  <2>5. CASE Len(g[k]) # 1
    <3>1. Len(g[k]) \in Nat /\ Len(g[k]) >= 2 /\ Len(g[k]) <= n - k
      BY <2>2, <2>5, ListFacts, TwoOrMore
    <3>2. g[k + 1] = MerkleUp(node, g[k])
      BY <2>3, <2>5
    <3>3. /\ IsList(g[k + 1]) /\ Len(g[k + 1]) >= 1 /\ Len(g[k + 1]) <= Len(g[k]) - 1
      BY <2>2, <3>1, <3>2, UpShrinks
    <3>4. Len(g[k + 1]) \in Nat
      BY <3>3, ListFacts
    <3> QED BY <3>1, <3>2, <3>3, <3>4
  <2> QED BY <2>4, <2>5
<1>4. \A k \in Nat : k \in S
  <2> HIDE DEF S
  <2> QED BY <1>2, <1>3, SetInduction
<1> QED BY <1>4

LEMMA LevelStep ==
    ASSUME NEW node, NEW leaves, NEW n \in Nat, NEW g, Levels(node, leaves, n, g)
    PROVE  /\ g[0] = leaves
           /\ \A k \in 0..(n - 1) : g[k + 1] = IF Len(g[k]) = 1 THEN g[k] ELSE MerkleUp(node, g[k])
<1>1. \A k \in 0..n : g[k] = IF k = 0 THEN leaves
                             ELSE IF Len(g[k - 1]) = 1 THEN g[k - 1] ELSE MerkleUp(node, g[k - 1])
  BY DEF Levels
<1>2. ASSUME NEW k \in 0..(n - 1)
      PROVE  g[k + 1] = IF Len(g[k]) = 1 THEN g[k] ELSE MerkleUp(node, g[k])
  <2>1. k + 1 \in 0..n /\ (k + 1) - 1 = k /\ k + 1 # 0
    OBVIOUS
  <2> QED BY <1>1, <2>1
<1> QED BY <1>1, <1>2

\* The levels that differ, d of them above the leaves, up to the one node.
Tower(node, leaves, d, g) ==
    /\ g[0] = leaves /\ IsList(g[d]) /\ Len(g[d]) = 1
    /\ \A k \in 0..(d - 1) :
          IsList(g[k]) /\ Len(g[k]) >= 2 /\ g[k + 1] = MerkleUp(node, g[k])

LEMMA RootTower ==
    ASSUME NEW node, NEW leaves, IsList(leaves), leaves # <<>>
    PROVE  \E d \in Nat : \E g : Tower(node, leaves, d, g) /\ MerkleRoot(node, leaves) = g[d][1]
<1>1. PICK n : n = Len(leaves)
  OBVIOUS
<1>2. n \in Nat /\ n >= 1
  <2>1. n \in Nat /\ DOMAIN leaves = 1..n
    BY <1>1, ListFacts
  <2>2. CASE n = 0
    <3>1. IsList(<<>>) /\ Len(<<>>) = 0
      BY <<>> \in Seq(Nat), ListOf
    <3>2. leaves = <<>>
      BY <1>1, <2>1, <2>2, <3>1, SameList
    <3> QED BY <3>2
  <2> QED BY <2>1, <2>2
<1>3. PICK g : Levels(node, leaves, n, g) /\ MerkleRoot(node, leaves) = g[n][1]
  BY <1>1, RootIs
<1>4. \A k \in 0..n : IsList(g[k]) /\ Len(g[k]) >= 1 /\ (Len(g[k]) = 1 \/ Len(g[k]) <= n - k)
  BY <1>1, <1>2, <1>3, LevelShape
<1>5. /\ g[0] = leaves
      /\ \A k \in 0..(n - 1) : g[k + 1] = IF Len(g[k]) = 1 THEN g[k] ELSE MerkleUp(node, g[k])
  BY <1>2, <1>3, LevelStep
<1> DEFINE T == { k \in 0..n : Len(g[k]) = 1 }
<1>6. n \in T
  <2>1. n \in 0..n /\ n - n = 0
    BY <1>2
  <2>2. IsList(g[n]) /\ Len(g[n]) >= 1 /\ (Len(g[n]) = 1 \/ Len(g[n]) <= 0)
    BY <1>4, <2>1
  <2>3. Len(g[n]) \in Nat
    BY <2>2, ListFacts
  <2> QED BY <2>1, <2>2, <2>3
<1>7. PICK d \in T : \A k \in T : d <= k
  <2>1. T \subseteq Nat /\ T # {}
    BY <1>2, <1>6
  <2> HIDE DEF T
  <2> QED BY <2>1, LeastNat
<1>8. d \in 0..n /\ Len(g[d]) = 1
  BY <1>7
<1>9. ASSUME NEW k \in 0..(d - 1)
      PROVE  IsList(g[k]) /\ Len(g[k]) >= 2 /\ g[k + 1] = MerkleUp(node, g[k])
  <2>1. k \in 0..n /\ k \in 0..(n - 1) /\ ~(d <= k)
    BY <1>2, <1>8
  <2>2. Len(g[k]) # 1
    BY <1>7, <2>1
  <2>3. IsList(g[k]) /\ Len(g[k]) >= 1
    BY <1>4, <2>1
  <2>4. Len(g[k]) >= 2
    BY <2>2, <2>3, TwoOrMore
  <2> QED BY <1>5, <2>1, <2>2, <2>3, <2>4
<1>10. g[n] = g[d]
  <2> DEFINE S == { k \in Nat : d <= k /\ k <= n => g[k] = g[d] }
  <2>1. 0 \in S
    BY <1>8
  <2>2. ASSUME NEW k \in Nat, k \in S
        PROVE  k + 1 \in S
    <3>1. SUFFICES ASSUME d <= k + 1, k + 1 <= n PROVE g[k + 1] = g[d]
      BY <2>2
    <3>2. CASE d = k + 1
      BY <3>2
    <3>3. CASE d # k + 1
      <4>1. d <= k /\ k <= n /\ k \in 0..(n - 1)
        BY <1>2, <1>8, <3>1, <3>3
      <4>2. g[k] = g[d]
        BY <2>2, <4>1
      <4> QED BY <1>5, <1>8, <4>1, <4>2
    <3> QED BY <3>2, <3>3
  <2>3. \A k \in Nat : k \in S
    <3> HIDE DEF S
    <3> QED BY <2>1, <2>2, SetInduction
  <2> QED BY <1>2, <1>8, <2>3
<1>11. Tower(node, leaves, d, g)
  BY <1>4, <1>5, <1>8, <1>9 DEF Tower
<1> QED BY <1>2, <1>3, <1>8, <1>10, <1>11

\* A leaf is a pair, and no node is one.
Leaves(s) == IsList(s) /\ \A i \in DOMAIN s : DOMAIN s[i] = 1..2

LEMMA NodeIsNoLeaf ==
    ASSUME NEW node, NEW s, IsList(s), Len(s) >= 2, NEW t, Leaves(t)
    PROVE  ~SameUpTo(MerkleUp(node, s), t)
<1> DEFINE u == MerkleUp(node, s)
<1>1. PICK n : n = Len(s)
  OBVIOUS
<1>2. n \in Nat /\ n >= 2 /\ DOMAIN s = 1..n
  BY <1>1, ListFacts
<1>3. PICK i : i \in DOMAIN u
  <2>1. 1 \in DOMAIN s
    BY <1>2
  <2> HIDE DEF u
  <2> QED BY <2>1, NodeIs DEF u
<1>4. PICK a, b : u[i] = <<node, a, b>>
  <2>1. 1 \in DOMAIN s
    BY <1>2
  <2>2. u[i] = << node, s[2 * i - 1], IF 2 * i \in DOMAIN s THEN s[2 * i] ELSE s[2 * i - 1] >>
    BY <1>3, <2>1, NodeIs
  <2> HIDE DEF u
  <2> QED BY <2>2
<1>5. DOMAIN u[i] = 1..3 /\ 1..3 # 1..2
  <2>1. 3 \in 1..3 /\ 3 \notin 1..2
    OBVIOUS
  <2> HIDE DEF u
  <2>2. DOMAIN u[i] = 1..3
    BY <1>4
  <2> QED BY <2>1, <2>2
<1> HIDE DEF u
<1>6. ASSUME SameUpTo(u, t)
      PROVE  FALSE
  <2>1. u[i] \in Range(t)
    BY <1>3, <1>6 DEF SameUpTo, Range
  <2> QED BY <1>5, <2>1 DEF Range, Leaves
<1> QED BY <1>6 DEF u

\* Equal roots are over equal leaves, up to the end of the shorter list, and over
\* no other leaf: an odd level hashes its last node twice, so the lists need not
\* be equal.
LEMMA RootBinds ==
    ASSUME NEW node, NEW s, NEW t, Leaves(s), Leaves(t), s # <<>>, t # <<>>,
           MerkleRoot(node, s) = MerkleRoot(node, t)
    PROVE  SameUpTo(s, t)
<1>1. PICK d \in Nat : \E g : Tower(node, s, d, g) /\ MerkleRoot(node, s) = g[d][1]
  BY RootTower DEF Leaves
<1>2. PICK g : Tower(node, s, d, g) /\ MerkleRoot(node, s) = g[d][1]
  BY <1>1
<1>3. PICK e \in Nat : \E h : Tower(node, t, e, h) /\ MerkleRoot(node, t) = h[e][1]
  BY RootTower DEF Leaves
<1>4. PICK h : Tower(node, t, e, h) /\ MerkleRoot(node, t) = h[e][1]
  BY <1>3
<1> DEFINE S == { j \in Nat : j <= d => j <= e /\ SameUpTo(g[d - j], h[e - j]) }
<1>5. 0 \in S
  <2>1. /\ IsList(g[d]) /\ Len(g[d]) = 1 /\ IsList(h[e]) /\ Len(h[e]) = 1 /\ g[d][1] = h[e][1]
    BY <1>2, <1>4 DEF Tower
  <2>2. DOMAIN g[d] = {1} /\ DOMAIN h[e] = {1}
    <3>1. 1..1 = {1}
      OBVIOUS
    <3> QED BY <2>1, <3>1, ListFacts
  <2>3. SameUpTo(g[d], h[e])
    BY <2>1, <2>2 DEF SameUpTo, Range
  <2>4. d - 0 = d /\ e - 0 = e
    OBVIOUS
  <2> QED BY <2>3, <2>4
<1>6. ASSUME NEW j \in Nat, j \in S
      PROVE  j + 1 \in S
  <2>1. SUFFICES ASSUME j + 1 <= d PROVE j + 1 <= e /\ SameUpTo(g[d - (j + 1)], h[e - (j + 1)])
    OBVIOUS
  <2>2. j <= d /\ j <= e /\ SameUpTo(g[d - j], h[e - j])
    BY <1>6, <2>1
  <2>3. PICK k \in 0..(d - 1) : k = d - (j + 1) /\ k + 1 = d - j
    <3>1. d - (j + 1) \in 0..(d - 1) /\ (d - (j + 1)) + 1 = d - j
      BY <2>1
    <3> QED BY <3>1
  <2>4. IsList(g[k]) /\ Len(g[k]) >= 2 /\ g[d - j] = MerkleUp(node, g[k])
    BY <1>2, <2>3 DEF Tower
  <2>5. j # e
    <3> SUFFICES ASSUME j = e PROVE FALSE
      OBVIOUS
    <3>1. e - j = 0 /\ h[0] = t
      BY <1>4 DEF Tower
    <3>2. SameUpTo(MerkleUp(node, g[k]), t)
      BY <2>2, <2>4, <3>1
    <3> QED BY <2>4, <3>2, NodeIsNoLeaf
  <2>6. PICK l \in 0..(e - 1) : l = e - (j + 1) /\ l + 1 = e - j
    <3>1. e - (j + 1) \in 0..(e - 1) /\ (e - (j + 1)) + 1 = e - j
      BY <2>2, <2>5
    <3> QED BY <3>1
  <2>7. IsList(h[l]) /\ h[e - j] = MerkleUp(node, h[l])
    BY <1>4, <2>6 DEF Tower
  <2>8. SameUpTo(g[k], h[l])
    BY <2>2, <2>4, <2>7, UpBinds
  <2>9. j + 1 <= e
    BY <2>2, <2>5
  <2> QED BY <2>3, <2>6, <2>8, <2>9
<1>7. \A j \in Nat : j \in S
  <2> HIDE DEF S
  <2> QED BY <1>5, <1>6, SetInduction
<1>8. d <= e /\ SameUpTo(s, h[e - d])
  <2>1. d \in S /\ d <= d /\ d - d = 0 /\ g[0] = s
    BY <1>2, <1>7 DEF Tower
  <2> QED BY <2>1
<1>9. d = e
  <2> SUFFICES ASSUME d # e PROVE FALSE
    OBVIOUS
  <2>1. PICK l \in 0..(e - 1) : l = e - (d + 1) /\ l + 1 = e - d
    <3>1. e - (d + 1) \in 0..(e - 1) /\ (e - (d + 1)) + 1 = e - d
      BY <1>8
    <3> QED BY <3>1
  <2>2. IsList(h[l]) /\ Len(h[l]) >= 2 /\ h[e - d] = MerkleUp(node, h[l])
    BY <1>4, <2>1 DEF Tower
  <2>3. SameUpTo(MerkleUp(node, h[l]), s)
    BY <1>8, <2>2 DEF SameUpTo
  <2> QED BY <2>2, <2>3, NodeIsNoLeaf
<1> QED
  <2>1. e - d = 0 /\ h[0] = t
    BY <1>4, <1>9 DEF Tower
  <2> QED BY <1>8, <2>1

\* The root over no leaves is no leaf's and no node's.
LEMMA NoLeaves ==
    ASSUME NEW node, NEW s, Leaves(s), s # <<>>
    PROVE  MerkleRoot(node, s) # MerkleRoot(node, <<>>)
<1>1. PICK d \in Nat : \E g : Tower(node, s, d, g) /\ MerkleRoot(node, s) = g[d][1]
  BY RootTower DEF Leaves
<1>2. PICK g : Tower(node, s, d, g) /\ MerkleRoot(node, s) = g[d][1]
  BY <1>1
<1>3. DOMAIN MerkleRoot(node, <<>>) = 1..1
  BY DEF MerkleRoot
<1>4. 2 \in DOMAIN g[d][1]
  <2>1. CASE d = 0
    <3>1. g[d] = s /\ Len(s) = 1
      BY <1>2, <2>1 DEF Tower
    <3>2. 1 \in DOMAIN s
      BY <3>1, ListFacts DEF Leaves
    <3>3. DOMAIN s[1] = 1..2
      BY <3>2 DEF Leaves
    <3> QED BY <3>1, <3>3
  <2>2. CASE d # 0
    <3>1. PICK k \in 0..(d - 1) : k + 1 = d
      <4>1. d - 1 \in 0..(d - 1) /\ (d - 1) + 1 = d
        BY <2>2
      <4> QED BY <4>1
    <3>2. g[d] = MerkleUp(node, g[k]) /\ IsList(g[k]) /\ Len(g[k]) >= 2 /\ IsList(g[d]) /\ Len(g[d]) = 1
      BY <1>2, <3>1 DEF Tower
    <3>3. 1 \in DOMAIN g[d]
      BY <3>2, ListFacts
    <3>4. PICK a, b : g[d][1] = <<node, a, b>>
      BY <3>2, <3>3 DEF MerkleUp
    <3> QED BY <3>4
  <2> QED BY <2>1, <2>2
<1>5. 2 \notin 1..1
  OBVIOUS
<1> QED BY <1>2, <1>3, <1>4, <1>5

(*********************** the order a list is hashed in *********************)
WithIds(list) == IsList(list) /\ \A i \in DOMAIN list : list[i].id \in Nat

Upto(list, i) == { j \in DOMAIN list :
                     list[j].id < list[i].id \/ (list[j].id = list[i].id /\ j <= i) }

Place(list, i) == Cardinality(Upto(list, i))

LEMMA UptoFinite ==
    ASSUME NEW list, WithIds(list), NEW i \in DOMAIN list
    PROVE  /\ Len(list) \in Nat /\ DOMAIN list = 1..Len(list) /\ i \in Upto(list, i)
           /\ IsFiniteSet(Upto(list, i)) /\ Place(list, i) \in 1..Len(list)
<1>1. Len(list) \in Nat /\ DOMAIN list = 1..Len(list)
  BY ListFacts DEF WithIds
<1>2. i \in Upto(list, i) /\ Upto(list, i) \in SUBSET (1..Len(list))
  BY <1>1 DEF Upto, WithIds
<1>3. IsFiniteSet(1..Len(list)) /\ Cardinality(1..Len(list)) = Len(list)
  <2>1. PICK n : n = Len(list)
    OBVIOUS
  <2>2. n \in Int /\ 1 \in Int /\ (IF 1 > n THEN 0 ELSE n - 1 + 1) = n
    BY <1>1, <2>1
  <2>3. IsFiniteSet(1..n) /\ Cardinality(1..n) = IF 1 > n THEN 0 ELSE n - 1 + 1
    BY <2>2, FS_Interval
  <2> QED BY <2>1, <2>2, <2>3
<1>4. IsFiniteSet(Upto(list, i)) /\ Cardinality(Upto(list, i)) <= Len(list)
  BY <1>2, <1>3, FS_Subset
<1>5. Cardinality(Upto(list, i)) \in Nat /\ Cardinality(Upto(list, i)) # 0
  BY <1>2, <1>4, FS_CardinalityType, FS_EmptySet
<1> QED BY <1>1, <1>2, <1>4, <1>5 DEF Place

\* An entry that comes before another one is placed before it.
LEMMA PlaceOrder ==
    ASSUME NEW list, WithIds(list), NEW i \in DOMAIN list, NEW j \in DOMAIN list, i \in Upto(list, j)
    PROVE  Place(list, i) <= Place(list, j) /\ (Place(list, i) = Place(list, j) => i = j)
<1>1. /\ DOMAIN list \subseteq Nat /\ IsFiniteSet(Upto(list, j)) /\ j \in Upto(list, j)
      /\ list[i].id \in Nat /\ list[j].id \in Nat
  <2>1. DOMAIN list \subseteq Nat
    BY UptoFinite
  <2> QED BY <2>1, UptoFinite DEF WithIds
<1>2. Upto(list, i) \subseteq Upto(list, j)
  <2> SUFFICES ASSUME NEW x \in Upto(list, i) PROVE x \in Upto(list, j)
    OBVIOUS
  <2>1. x \in DOMAIN list /\ list[x].id \in Nat /\ x \in Nat
    BY <1>1 DEF Upto, WithIds
  <2> QED BY <1>1, <2>1 DEF Upto
<1>3. Place(list, i) <= Place(list, j)
  BY <1>1, <1>2, FS_Subset DEF Place
<1>4. ASSUME Place(list, i) = Place(list, j)
      PROVE  i = j
  <2>1. Upto(list, j) = Upto(list, i)
    BY <1>1, <1>2, <1>4, FS_Subset DEF Place
  <2>2. j \in Upto(list, i)
    BY <1>1, <2>1
  <2>3. i \in Nat /\ j \in Nat
    BY <1>1
  <2> QED BY <1>1, <2>2, <2>3 DEF Upto
<1> QED BY <1>3, <1>4

\* Every place is taken, by one entry.
LEMMA PlaceOnce ==
    ASSUME NEW list, WithIds(list)
    PROVE  /\ \A i, j \in DOMAIN list : Place(list, i) = Place(list, j) => i = j
           /\ \A k \in DOMAIN list : \E i \in DOMAIN list : Place(list, i) = k
<1>1. ASSUME NEW i \in DOMAIN list, NEW j \in DOMAIN list, Place(list, i) = Place(list, j)
      PROVE  i = j
  <2>1. i \in Nat /\ j \in Nat /\ list[i].id \in Nat /\ list[j].id \in Nat
    <3>1. DOMAIN list \subseteq Nat
      BY UptoFinite
    <3> QED BY <3>1 DEF WithIds
  <2>2. i \in Upto(list, j) \/ j \in Upto(list, i)
    BY <2>1 DEF Upto
  <2>3. CASE i \in Upto(list, j)
    BY <1>1, <2>3, PlaceOrder
  <2>4. CASE j \in Upto(list, i)
    BY <1>1, <2>4, PlaceOrder
  <2> QED BY <2>2, <2>3, <2>4
<1> DEFINE D == DOMAIN list
           f == [i \in D |-> Place(list, i)]
<1>2. D = 1..Len(list) /\ Len(list) \in Nat
  BY ListFacts DEF WithIds
<1>3. f \in [D -> D]
  BY <1>2, UptoFinite
<1>4. \A i, j \in D : f[i] = f[j] => i = j
  BY <1>1
<1>5. IsFiniteSet(D)
  BY <1>2, FS_Interval
<1>6. \A k \in D : \E i \in D : f[i] = k
  <2> HIDE DEF f, D
  <2>1. f \in Injection(D, D)
    BY <1>3, <1>4 DEF Injection, IsInjective
  <2>2. f \in Surjection(D, D)
    BY <1>5, <2>1, FS_Injection
  <2> QED BY <2>2 DEF Surjection
<1> QED BY <1>1, <1>6

LEMMA SortedIs ==
    ASSUME NEW list, WithIds(list)
    PROVE  /\ IsList(SortedById(list)) /\ Len(SortedById(list)) = Len(list)
           /\ DOMAIN SortedById(list) = DOMAIN list
           /\ \A i \in DOMAIN list : SortedById(list)[Place(list, i)] = list[i]
<1> DEFINE n == Len(list)
           Nth(k) == list[CHOOSE i \in DOMAIN list : Place(list, i) = k]
           f == [k \in 1..n |-> Nth(k)]
<1>1. n \in Nat /\ DOMAIN list = 1..n
  BY ListFacts DEF WithIds
<1>2. SortedById(list) = f
  BY <1>1 DEF SortedById, Place, Upto
<1>3. IsList(f) /\ Len(f) = n /\ DOMAIN f = DOMAIN list
  <2>1. f = [k \in 1..n |-> f[k]] /\ DOMAIN f = DOMAIN list
    BY <1>1
  <2> HIDE DEF f
  <2> QED BY <1>1, <2>1, MakeList
<1>4. ASSUME NEW i \in DOMAIN list
      PROVE  f[Place(list, i)] = list[i]
  <2>1. Place(list, i) \in 1..n
    BY UptoFinite
  <2>2. (CHOOSE x \in DOMAIN list : Place(list, x) = Place(list, i)) = i
    BY PlaceOnce
  <2> QED BY <2>1, <2>2
<1> HIDE DEF f
<1> QED BY <1>2, <1>3, <1>4

LEMMA LeastIs ==
    ASSUME NEW T, T \subseteq Nat, T # {}
    PROVE  Min(T) \in T /\ \A y \in T : Min(T) <= y
<1>1. \E x \in T : \A y \in T : x <= y
  BY LeastNat
<1> QED BY <1>1 DEF Min

\* A lookup by id finds in the sorted list what it finds in the list: entries
\* of one id keep their order.
LEMMA SortedLookup ==
    ASSUME NEW list, WithIds(list), NEW id
    PROVE  /\ Has(SortedById(list), id) <=> Has(list, id)
           /\ Has(list, id) => Find(SortedById(list), id) = Find(list, id)
<1> DEFINE D == DOMAIN list
           s == SortedById(list)
           T == { i \in D : list[i].id = id }
           U == { k \in D : s[k].id = id }
<1>1. /\ DOMAIN s = D /\ D \subseteq Nat /\ (\A i \in D : s[Place(list, i)] = list[i])
      /\ \A i \in D : Place(list, i) \in D
  BY SortedIs, UptoFinite
<1>2. \A k \in D : \E i \in D : Place(list, i) = k /\ s[k] = list[i]
  <2> SUFFICES ASSUME NEW k \in D PROVE \E i \in D : Place(list, i) = k /\ s[k] = list[i]
    OBVIOUS
  <2>1. PICK i \in D : Place(list, i) = k
    BY PlaceOnce
  <2> QED BY <1>1, <2>1
<1>3. Has(s, id) <=> Has(list, id)
  <2> HIDE DEF s
  <2> QED BY <1>1, <1>2 DEF Has
<1>4. ASSUME Has(list, id)
      PROVE  Find(s, id) = Find(list, id)
  <2>1. T # {} /\ T \subseteq Nat /\ U # {} /\ U \subseteq Nat
    <3>1. \E i \in D : list[i].id = id
      BY <1>4 DEF Has
    <3> HIDE DEF s
    <3> QED BY <1>1, <3>1
  <2>2. /\ Min(T) \in T /\ (\A y \in T : Min(T) <= y)
        /\ Min(U) \in U /\ (\A y \in U : Min(U) <= y)
    <3> HIDE DEF T, U
    <3> QED BY <2>1, LeastIs
  <2>3. PICK i \in D : Place(list, i) = Min(U) /\ s[Min(U)] = list[i]
    BY <1>2, <2>2
  <2>4. i \in T /\ Min(T) \in D /\ Min(T) <= i /\ list[Min(T)].id = list[i].id
    BY <2>2, <2>3
  <2>5. Min(T) \in Upto(list, i)
    BY <2>4 DEF Upto
  <2>6. Place(list, Min(T)) <= Place(list, i)
    BY <2>4, <2>5, PlaceOrder
  <2>7. Place(list, Min(T)) \in U
    BY <1>1, <2>2, <2>4
  <2>8. Min(U) <= Place(list, Min(T))
    BY <2>2, <2>7
  <2>9. Place(list, Min(T)) = Place(list, i)
    <3>1. Place(list, Min(T)) \in Nat /\ Place(list, i) \in Nat
      BY <1>1, <2>4
    <3> QED BY <2>3, <2>6, <2>8, <3>1
  <2>10. Min(T) = i
    BY <2>4, <2>9, PlaceOnce
  <2>11. Find(s, id) = s[Min(U)] /\ Find(list, id) = list[Min(T)]
    BY <1>1 DEF Find
  <2> QED BY <2>3, <2>10, <2>11
<1> QED BY <1>3, <1>4

\* The leaves of a tree are tagged entries.
Tagged(leaf, s) == [i \in DOMAIN s |-> <<leaf, s[i]>>]

LEMMA LeavesBind ==
    ASSUME NEW node, NEW leaf, NEW s, NEW t, IsList(s), IsList(t),
           MerkleRoot(node, Tagged(leaf, s)) = MerkleRoot(node, Tagged(leaf, t))
    PROVE  SameUpTo(s, t)
<1> DEFINE a == Tagged(leaf, s)
           b == Tagged(leaf, t)
<1>1. /\ DOMAIN a = DOMAIN s /\ \A i \in DOMAIN s : a[i] = <<leaf, s[i]>>
      /\ DOMAIN b = DOMAIN t /\ \A i \in DOMAIN t : b[i] = <<leaf, t[i]>>
  BY DEF Tagged
<1>2. Leaves(a) /\ Leaves(b)
  <2>1. IsList(a) /\ IsList(b)
    BY ListFacts, MakeList DEF Tagged
  <2> HIDE DEF a, b
  <2> QED BY <1>1, <2>1 DEF Leaves
<1>3. MerkleRoot(node, a) = MerkleRoot(node, b)
  OBVIOUS
<1> HIDE DEF a, b
<1>4. CASE a # <<>> /\ b # <<>>
  <2>1. SameUpTo(a, b)
    BY <1>2, <1>3, <1>4, RootBinds
  <2>2. \A i \in DOMAIN s \cap DOMAIN t : s[i] = t[i]
    BY <1>1, <2>1 DEF SameUpTo
  <2>3. ASSUME NEW i \in DOMAIN s
        PROVE  s[i] \in Range(t)
    <3>1. PICK k \in DOMAIN b : b[k] = a[i]
      BY <1>1, <2>1 DEF SameUpTo, Range
    <3>2. t[k] = s[i]
      BY <1>1, <3>1
    <3> QED BY <1>1, <3>2 DEF Range
  <2>4. ASSUME NEW i \in DOMAIN t
        PROVE  t[i] \in Range(s)
    <3>1. PICK k \in DOMAIN a : a[k] = b[i]
      BY <1>1, <2>1 DEF SameUpTo, Range
    <3>2. s[k] = t[i]
      BY <1>1, <3>1
    <3> QED BY <1>1, <3>2 DEF Range
  <2> QED BY <2>2, <2>3, <2>4 DEF SameUpTo, Range
<1>5. CASE a = <<>> /\ b = <<>>
  BY <1>1, <1>5 DEF SameUpTo, Range
<1>6. CASE a = <<>> /\ b # <<>>
  BY <1>2, <1>3, <1>6, NoLeaves
<1>7. CASE a # <<>> /\ b = <<>>
  BY <1>2, <1>3, <1>7, NoLeaves
<1> QED BY <1>4, <1>5, <1>6, <1>7

\* Over as many leaves they are equal.
LEMMA LeavesInjective ==
    ASSUME NEW node, NEW leaf, NEW s, NEW t, IsList(s), IsList(t), Len(s) = Len(t),
           MerkleRoot(node, Tagged(leaf, s)) = MerkleRoot(node, Tagged(leaf, t))
    PROVE  s = t
<1>1. SameUpTo(s, t)
  BY LeavesBind
<1>2. DOMAIN s = 1..Len(s) /\ DOMAIN t = 1..Len(s)
  BY ListFacts
<1> QED BY <1>1, <1>2, SameList DEF SameUpTo

(********************* lists that answer lookups alike **********************)
\* Two lists that answer every lookup alike.
Alike(s, t) == \A id : (Has(s, id) <=> Has(t, id)) /\ (Has(s, id) => Find(s, id) = Find(t, id))

\* Lists that sort alike are alike.
LEMMA SortedAlike ==
    ASSUME NEW s, NEW t, WithIds(s), WithIds(t), SortedById(s) = SortedById(t)
    PROVE  Alike(s, t)
  BY SortedLookup DEF Alike

\* So are lists that agree as far as both go and have the same entries.
LEMMA SameUpToAlike ==
    ASSUME NEW s, NEW t, IsList(s), IsList(t), SameUpTo(s, t)
    PROVE  Alike(s, t)
<1> SUFFICES ASSUME NEW id
             PROVE  (Has(s, id) <=> Has(t, id)) /\ (Has(s, id) => Find(s, id) = Find(t, id))
  BY DEF Alike
<1> DEFINE A == { i \in DOMAIN s : s[i].id = id }
           B == { i \in DOMAIN t : t[i].id = id }
<1>1. Has(s, id) <=> Has(t, id)
  BY DEF Has, SameUpTo, Range
<1>2. ASSUME Has(s, id)
      PROVE  Find(s, id) = Find(t, id)
  <2>1. A # {} /\ B # {} /\ A \subseteq Nat /\ B \subseteq Nat
    <3>1. DOMAIN s \subseteq Nat /\ DOMAIN t \subseteq Nat
      BY ListFacts
    <3> QED BY <1>1, <1>2, <3>1 DEF Has
  <2>2. /\ Min(A) \in A /\ (\A y \in A : Min(A) <= y)
        /\ Min(B) \in B /\ (\A y \in B : Min(B) <= y)
    <3> HIDE DEF A, B
    <3> QED BY <2>1, LeastIs
  <2>3. PICK i \in A : i = Min(A) /\ \A y \in A : i <= y
    BY <2>2
  <2>4. PICK j \in B : j = Min(B) /\ \A y \in B : j <= y
    BY <2>2
  <2>5. PICK m, n : m = Len(s) /\ n = Len(t)
    OBVIOUS
  <2>6. m \in Nat /\ n \in Nat /\ DOMAIN s = 1..m /\ DOMAIN t = 1..n
    BY <2>5, ListFacts
  <2>7. \A x \in DOMAIN s \cap DOMAIN t : s[x] = t[x]
    BY DEF SameUpTo
  <2>8. i \in DOMAIN t /\ j \in DOMAIN s
    <3>1. CASE m <= n
      <4>1. PICK x \in DOMAIN s : s[x] = t[j]
        BY DEF SameUpTo, Range
      <4>2. x \in B /\ x \in 1..m /\ j \in 1..n
        BY <2>6, <2>7, <3>1, <4>1
      <4>3. j <= x
        BY <2>4, <4>2
      <4> QED BY <2>6, <3>1, <4>2, <4>3
    <3>2. CASE n <= m
      <4>1. PICK x \in DOMAIN t : t[x] = s[i]
        BY DEF SameUpTo, Range
      <4>2. x \in A /\ x \in 1..n /\ i \in 1..m
        BY <2>6, <2>7, <3>2, <4>1
      <4>3. i <= x
        BY <2>3, <4>2
      <4> QED BY <2>6, <3>2, <4>2, <4>3
    <3> QED BY <2>6, <3>1, <3>2
  <2>9. i \in B /\ j \in A
    BY <2>7, <2>8
  <2>10. i = j
    <3>1. i <= j /\ j <= i /\ i \in Nat /\ j \in Nat
      BY <2>3, <2>4, <2>6, <2>9
    <3> QED BY <3>1
  <2>11. Find(s, id) = s[i] /\ Find(t, id) = t[j]
    BY <2>3, <2>4 DEF Find
  <2> QED BY <2>7, <2>8, <2>10, <2>11
<1> QED BY <1>1, <1>2

\* Equal weight roots are over lists that answer every lookup alike.
LEMMA WeightsRootBinds ==
    ASSUME NEW s, NEW t, WithIds(s), WithIds(t), WeightsRoot(s) = WeightsRoot(t)
    PROVE  Alike(s, t)
<1>1. IsList(SortedById(s)) /\ IsList(SortedById(t))
  BY SortedIs
<1>2. SameUpTo(SortedById(s), SortedById(t))
  BY <1>1, LeavesBind DEF WeightsRoot, Tagged
<1>3. Alike(SortedById(s), SortedById(t))
  BY <1>1, <1>2, SameUpToAlike
<1> QED BY <1>3, SortedLookup DEF Alike

\* A dense layer reads the bindings by the lookup of its own ids.
LinearAlike(op, B, C) ==
    \A id \in {op.weight} \union Range(op.bias) :
        (Has(B.weights, id) <=> Has(C.weights, id))
          /\ (Has(B.weights, id) => Find(B.weights, id) = Find(C.weights, id))

LEMMA AlikeLinear ==
    ASSUME NEW op, op.bias \in Seq(Range(op.bias)), NEW B, NEW C, LinearAlike(op, B, C)
    PROVE  /\ BiasMissing(op, B) <=> BiasMissing(op, C)
           /\ Has(B.weights, op.weight) =>
                 /\ WeightOf(op, B) = WeightOf(op, C)
                 /\ ~BiasMissing(op, B) => Bias(op, B) = Bias(op, C)
           /\ \A x : LinearKernel(op, x, B) = LinearKernel(op, x, C)
<1>1. /\ Has(B.weights, op.weight) <=> Has(C.weights, op.weight)
      /\ Has(B.weights, op.weight) => Find(B.weights, op.weight) = Find(C.weights, op.weight)
  BY DEF LinearAlike
<1>2. op.bias # <<>> =>
        /\ Has(B.weights, op.bias[1]) <=> Has(C.weights, op.bias[1])
        /\ Has(B.weights, op.bias[1]) => Find(B.weights, op.bias[1]) = Find(C.weights, op.bias[1])
  <2> SUFFICES ASSUME op.bias # <<>> PROVE op.bias[1] \in Range(op.bias)
    BY DEF LinearAlike
  <2>1. 1 \in DOMAIN op.bias
    OBVIOUS
  <2> QED BY <2>1 DEF Range
<1>3. BiasMissing(op, B) <=> BiasMissing(op, C)
  BY <1>2 DEF BiasMissing
<1>4. Has(B.weights, op.weight) =>
         /\ WeightOf(op, B) = WeightOf(op, C)
         /\ ~BiasMissing(op, B) => Bias(op, B) = Bias(op, C)
  BY <1>1, <1>2 DEF BiasMissing, Bias, WeightOf
<1>5. ASSUME NEW x
      PROVE  LinearKernel(op, x, B) = LinearKernel(op, x, C)
  BY <1>1, <1>3, <1>4 DEF LinearKernel
<1> QED BY <1>3, <1>4, <1>5

\* The kernels read the bindings by lookup only.
LEMMA AlikeKernel ==
    ASSUME NEW op, op.kind \in Kinds, IsLinear(op) => op.bias \in Seq(Range(op.bias)),
           NEW b, NEW B, NEW C, IsLinear(op) => LinearAlike(op, B, C), Alike(B.tables, C.tables)
    PROVE  Kernel(op, b, B) = Kernel(op, b, C)
<1>1. IsLinear(op) => \A x : LinearKernel(op, x, B) = LinearKernel(op, x, C)
  BY AlikeLinear
<1>2. \A x : ActivationKernel(op, x, B) = ActivationKernel(op, x, C)
  BY DEF ActivationKernel, Alike
<1>3. \A x : LayerNormKernel(op, x, B) = LayerNormKernel(op, x, C)
  BY DEF LayerNormKernel, Alike
<1>4. \A x : SoftmaxKernel(op, x, B) = SoftmaxKernel(op, x, C)
  BY DEF SoftmaxKernel, Alike
<1>5. CASE \E i \in DOMAIN op.args : op.args[i] \notin DOMAIN b
  BY <1>5 DEF Kernel
<1>6. CASE ~(\E i \in DOMAIN op.args : op.args[i] \notin DOMAIN b)
  <2> DEFINE arg == [i \in DOMAIN op.args |-> b[op.args[i]]]
  <2>1. Kernel(op, b, B) =
            CASE IsLinear(op)           -> LinearKernel(op, arg[1], B)
              [] op.kind = "Requant"    -> RequantKernel(op, arg[1])
              [] op.kind = "Activation" -> ActivationKernel(op, arg[1], B)
              [] op.kind = "LayerNorm"  -> LayerNormKernel(op, arg[1], B)
              [] op.kind = "Modulate"   -> ModulateKernel(op, arg[1], arg[2], arg[3])
              [] op.kind = "Gate"       -> GateKernel(op, arg[1], arg[2])
              [] op.kind = "Add"        -> AddKernel(arg[1], arg[2])
              [] op.kind = "MatMul"     -> MatMulKernel(op, arg[1], arg[2])
              [] op.kind = "Softmax"    -> SoftmaxKernel(op, arg[1], B)
              [] op.kind = "Slice"      -> SliceKernel(op, arg[1])
              [] op.kind = "Concat"     -> Out(FlattenSeq(arg))
    BY <1>6 DEF Kernel
  <2>2. Kernel(op, b, C) =
            CASE IsLinear(op)           -> LinearKernel(op, arg[1], C)
              [] op.kind = "Requant"    -> RequantKernel(op, arg[1])
              [] op.kind = "Activation" -> ActivationKernel(op, arg[1], C)
              [] op.kind = "LayerNorm"  -> LayerNormKernel(op, arg[1], C)
              [] op.kind = "Modulate"   -> ModulateKernel(op, arg[1], arg[2], arg[3])
              [] op.kind = "Gate"       -> GateKernel(op, arg[1], arg[2])
              [] op.kind = "Add"        -> AddKernel(arg[1], arg[2])
              [] op.kind = "MatMul"     -> MatMulKernel(op, arg[1], arg[2])
              [] op.kind = "Softmax"    -> SoftmaxKernel(op, arg[1], C)
              [] op.kind = "Slice"      -> SliceKernel(op, arg[1])
              [] op.kind = "Concat"     -> Out(FlattenSeq(arg))
    BY <1>6 DEF Kernel
  <2> HIDE DEF arg
  <2>3. /\ IsLinear(op) => LinearKernel(op, arg[1], B) = LinearKernel(op, arg[1], C)
        /\ ActivationKernel(op, arg[1], B) = ActivationKernel(op, arg[1], C)
        /\ LayerNormKernel(op, arg[1], B) = LayerNormKernel(op, arg[1], C)
        /\ SoftmaxKernel(op, arg[1], B) = SoftmaxKernel(op, arg[1], C)
    BY <1>1, <1>2, <1>3, <1>4
  <2>4. CASE IsLinear(op)
    BY <2>1, <2>2, <2>3, <2>4 DEF IsLinear
  <2>5. CASE ~IsLinear(op)
    BY <2>1, <2>2, <2>3, <2>5 DEF IsLinear, Kinds
  <2> QED BY <2>4, <2>5
<1> QED BY <1>5, <1>6
=============================================================================
