---------------------------- MODULE ReedSolomon -----------------------------
(***************************************************************************)
(* The Reed-Solomon code of bee's redundancy                               *)
(* (src/src/erasure/reedsolomon.rs) over GF(2^8): tables, matrices, the    *)
(* systematic encoding matrix, encoding and reconstruction.  The code      *)
(* treats every byte position of the shards alike, so a shard is one byte  *)
(* here.  Rows, columns and shards count from 0, as in the source.         *)
(***************************************************************************)
EXTENDS Integers, Sequences, SequencesExt, FiniteSets, FiniteSetsExt, Bitwise

Doubled(x) == IF 2 * x > 255 THEN (2 * x) ^^ 285 ELSE 2 * x

\* x doubled k times.
Shifted[k \in 0..16] == [x \in 0..255 |-> IF k = 0 THEN x ELSE Doubled(Shifted[k - 1][x])]

\* The generator 2 to the 16 j.
Strides[j \in 0..15] == IF j = 0 THEN 1 ELSE Shifted[16][Strides[j - 1]]

\* exp[i + 1] is the generator 2 to the i; its inverse is log.
exp == [i \in 1..255 |-> Shifted[(i - 1) % 16][Strides[(i - 1) \div 16]]]
log(x) == (CHOOSE i \in 1..255 : exp[i] = x) - 1

gal_mul(a, b) == IF a = 0 \/ b = 0 THEN 0 ELSE exp[((log(a) + log(b)) % 255) + 1]
gal_exp(a, n) == IF n = 0 THEN 1 ELSE IF a = 0 THEN 0 ELSE exp[((log(a) * n) % 255) + 1]
gal_divide(a, b) == IF a = 0 THEN 0 ELSE exp[((255 + log(a) - log(b)) % 255) + 1]

\* The indices of n rows or columns.
Indices(n) == 0..(n - 1)

\* The sum of f[0] .. f[n - 1] in the field.
Sum(f, n) == FoldLeft(LAMBDA acc, i : acc ^^ f[i - 1], 0, [i \in 1..n |-> i])

identity(n) == [r \in Indices(n) |-> [c \in Indices(n) |-> IF r = c THEN 1 ELSE 0]]

vandermonde(rows, cols) == [r \in Indices(rows) |-> [c \in Indices(cols) |-> gal_exp(r, c)]]

multiply(a, b, rows, n, cols) ==
  [r \in Indices(rows) |-> [c \in Indices(cols) |->
     Sum([i \in Indices(n) |-> gal_mul(a[r][i], b[i][c])], n)]]

-----------------------------------------------------------------------------
\* Gauss-Jordan elimination on a matrix augmented with the identity.

augment(m, n) ==
  [r \in Indices(n) |-> [c \in Indices(2 * n) |->
     IF c < n THEN m[r][c] ELSE identity(n)[r][c - n]]]

\* Row d times `scale' is added to row r.
RowAdded(w, n, r, d, scale) ==
  [w EXCEPT ![r] = [c \in Indices(2 * n) |-> w[r][c] ^^ gal_mul(scale, w[d][c])]]

\* A zero on the diagonal is swapped with the first row below that has none.
Pivoted(w, n, r) ==
  LET below == {i \in (r + 1)..(n - 1) : w[i][r] # 0}
  IN  IF w[r][r] # 0 \/ below = {} THEN w
      ELSE [w EXCEPT ![r] = w[Min(below)], ![Min(below)] = w[r]]

Scaled(w, n, r) ==
  LET scale == gal_divide(1, w[r][r])
  IN  [w EXCEPT ![r] = [c \in Indices(2 * n) |-> gal_mul(w[r][c], scale)]]

ClearBelow(w, n, r) ==
  FoldLeft(LAMBDA v, i : RowAdded(v, n, r + i, r, v[r + i][r]), w, [i \in 1..(n - 1 - r) |-> i])

ClearAbove(w, n, d) ==
  FoldLeft(LAMBDA v, i : RowAdded(v, n, i - 1, d, v[i - 1][d]), w, [i \in 1..d |-> i])

\* The inverse, or <<>> for a singular matrix.
invert(m, n) ==
  LET down(w, r) == LET p == Pivoted(w, n, r)
                    IN  IF p[r][r] = 0 THEN <<>> ELSE ClearBelow(Scaled(p, n, r), n, r)
      upper == FoldLeft(LAMBDA w, i : IF w = <<>> THEN <<>> ELSE down(w, i - 1),
                        augment(m, n), [i \in 1..n |-> i])
      full == FoldLeft(LAMBDA w, i : ClearAbove(w, n, i - 1), upper, [i \in 1..n |-> i])
  IN  IF upper = <<>> THEN <<>>
      ELSE [r \in Indices(n) |-> [c \in Indices(n) |-> full[r][n + c]]]

-----------------------------------------------------------------------------
\* Mutant: a Vandermonde matrix that is not reduced to a systematic one.
build_matrixRaw(k, total) == vandermonde(total, k)

\* The systematic matrix: its top square is the identity.
build_matrix(k, total) == multiply(vandermonde(total, k), invert(vandermonde(k, k), k), total, k, k)

\* All shards of `data': the data itself, then the parities.
encode(data, k, m) ==
  LET matrix == build_matrix(k, k + m)
  IN  [i \in Indices(k + m) |->
         IF i < k THEN data[i]
         ELSE Sum([c \in Indices(k) |-> gal_mul(matrix[i][c], data[c])], k)]

\* The first k present shards.
Valid(present, k) == {i \in present : Cardinality({j \in present : j < i}) < k}

\* Missing data shards from the first k present ones, by the inverse of their
\* rows; `shard' maps the present slots to their bytes.  <<>> for a singular matrix.
reconstruct_data(shard, present, k, m) ==
  LET matrix == build_matrix(k, k + m)
      valid == SetToSortSeq(Valid(present, k), <)
      decode == invert([r \in Indices(k) |-> matrix[valid[r + 1]]], k)
  IN  IF decode = <<>> THEN <<>>
      ELSE [i \in Indices(k) |->
              IF i \in present THEN shard[i]
              ELSE Sum([c \in Indices(k) |-> gal_mul(decode[i][c], shard[valid[c + 1]])], k)]
=============================================================================
