------------------------------ MODULE ExportProofs ------------------------------
(***************************************************************************)
(* Proofs about Export, for any tables, windows, limits, widths and        *)
(* buffers: what is chosen of the rows that were read, and that the CSV    *)
(* file is in step with it.                                                *)
(***************************************************************************)
EXTENDS Export, ListingProofs, SequenceTheorems

-------------------------------------------------------------------------------
(* Arithmetic.  With n + 1 rows and m + 1 points, the index of point a lies   *)
(* within half a row of a * n / m.                                            *)

Close(a, x, n, m) == LET off == 2 * (a * n) - 2 * (x * m) IN -off <= m /\ off <= m

\* Multiplying by a number that is not negative keeps the order.
LEMMA TimesMonotone == \A m \in Nat : \A a, b \in Int : a <= b => a * m <= b * m
BY SMT

\* A point whose exact place is a row gets that row.
LEMMA CloseToRow ==
    ASSUME NEW m \in Nat \ {0}, NEW a \in Int, NEW q \in Int, NEW n \in Int, n = q * m,
           NEW x \in Int, Close(a, x, n, m)
    PROVE  x = a * q
<1> DEFINE d == a * q - x
<1>1. a * q \in Int /\ d \in Int
  OBVIOUS
<1>2. a * n = (a * q) * m
  BY SMT
<1>3. d * m = (a * q) * m - x * m
  BY <1>1, SMT
<1>4. d * m \in Int /\ a * n \in Int /\ x * m \in Int /\ (a * q) * m \in Int
  BY <1>1, SMT
<1>5. -(2 * (d * m)) <= m /\ 2 * (d * m) <= m
  <2> HIDE DEF d
  <2> QED
    BY <1>2, <1>3, <1>4 DEF Close
<1> HIDE DEF d
<1>6. ~ 1 <= d
  <2> SUFFICES ASSUME 1 <= d PROVE FALSE
    OBVIOUS
  <2>1. 1 * m <= d * m
    BY <1>1, TimesMonotone
  <2> QED
    BY <2>1, <1>4, <1>5
<1>7. ~ d <= -1
  <2> SUFFICES ASSUME d <= -1 PROVE FALSE
    OBVIOUS
  <2>1. d * m <= (-1) * m
    BY <1>1, TimesMonotone
  <2> QED
    BY <2>1, <1>4, <1>5
<1>8. d = 0
  BY <1>1, <1>6, <1>7
<1> QED
  BY <1>1, <1>8 DEF d

\* From one point to the next it is a step of n / m, give or take a row.
LEMMA GapBounds ==
    ASSUME NEW m \in Nat \ {0}, NEW n \in Nat, NEW a \in Int,
           NEW x \in Int, NEW y \in Int, Close(a, x, n, m), Close(a + 1, y, n, m)
    PROVE  (y - x) * m <= n + m /\ n <= (y - x) * m + m
<1>1. (a + 1) * n = a * n + n
  BY SMT
<1>2. (y - x) * m = y * m - x * m
  BY SMT
<1>3. /\ a * n \in Int /\ (a + 1) * n \in Int /\ x * m \in Int /\ y * m \in Int
      /\ (y - x) * m \in Int
  BY SMT
<1> QED
  BY <1>1, <1>2, <1>3 DEF Close

\* Two steps differ by at most one row.
LEMMA EvenGaps ==
    ASSUME NEW m \in Nat \ {0}, NEW n \in Nat, NEW f \in [1 .. m + 1 -> Int],
           \A i \in 1 .. m + 1 : Close(i - 1, f[i], n, m),
           NEW i \in 1 .. m, NEW j \in 1 .. m
    PROVE  f[i + 1] - f[i] <= f[j + 1] - f[j] + 1
<1> DEFINE g == f[i + 1] - f[i]
           h == f[j + 1] - f[j]
<1>1. \A k \in 1 .. m :
        /\ f[k] \in Int /\ f[k + 1] \in Int
        /\ Close(k - 1, f[k], n, m) /\ Close((k - 1) + 1, f[k + 1], n, m)
  <2>1. \A k \in 1 .. m : k \in 1 .. m + 1 /\ k + 1 \in 1 .. m + 1
    OBVIOUS
  <2>2. \A k \in 1 .. m : (k + 1) - 1 = (k - 1) + 1
    OBVIOUS
  <2> QED
    BY <2>1, <2>2
<1>2. g * m <= n + m /\ n <= g * m + m /\ g \in Int
  <2>1. /\ i - 1 \in Int /\ f[i] \in Int /\ f[i + 1] \in Int
        /\ Close(i - 1, f[i], n, m) /\ Close((i - 1) + 1, f[i + 1], n, m)
    BY <1>1
  <2>2. g * m <= n + m /\ n <= g * m + m
    BY <2>1, GapBounds
  <2> QED
    BY <2>1, <2>2
<1>3. h * m <= n + m /\ n <= h * m + m /\ h \in Int
  <2>1. /\ j - 1 \in Int /\ f[j] \in Int /\ f[j + 1] \in Int
        /\ Close(j - 1, f[j], n, m) /\ Close((j - 1) + 1, f[j + 1], n, m)
    BY <1>1
  <2>2. h * m <= n + m /\ n <= h * m + m
    BY <2>1, GapBounds
  <2> QED
    BY <2>1, <2>2
<1> SUFFICES ASSUME ~ g <= h + 1 PROVE FALSE
  OBVIOUS
<1> HIDE DEF g, h
<1>4. h + 2 <= g
  BY <1>2, <1>3
<1> DEFINE hm == h * m
           gm == g * m
<1>5. /\ hm \in Int /\ gm \in Int /\ (h + 1) * m = hm + m
      /\ hm + 2 * m <= gm
      /\ h + 3 <= g => hm + 3 * m <= gm
  <2>1. (h + 2) * m = hm + 2 * m /\ (h + 3) * m = hm + 3 * m /\ (h + 1) * m = hm + m
    BY <1>3, SMT
  <2>2. hm \in Int /\ gm \in Int
    BY <1>2, <1>3, SMT
  <2>3. (h + 2) * m <= gm
    BY <1>2, <1>3, <1>4, TimesMonotone
  <2>4. h + 3 <= g => (h + 3) * m <= gm
    BY <1>2, <1>3, TimesMonotone
  <2> HIDE DEF hm, gm
  <2> QED
    BY <2>1, <2>2, <2>3, <2>4
<1>6. hm <= n + m /\ n <= hm + m /\ gm <= n + m
  BY <1>2, <1>3
<1>7. n = (h + 1) * m /\ g = h + 2
  <2> HIDE DEF hm, gm
  <2>1. n = hm + m
    BY <1>5, <1>6
  <2>2. ~ h + 3 <= g
    BY <1>5, <1>6, <2>1
  <2> QED
    BY <1>2, <1>3, <1>4, <1>5, <2>1, <2>2
<1>8. \A k \in 1 .. m + 1 : f[k] = (k - 1) * (h + 1)
  <2> SUFFICES ASSUME NEW k \in 1 .. m + 1 PROVE f[k] = (k - 1) * (h + 1)
    OBVIOUS
  <2>1. k - 1 \in Int /\ h + 1 \in Int /\ n \in Int /\ f[k] \in Int
    BY <1>3
  <2> QED
    BY <1>7, <2>1, CloseToRow
<1>9. g = h + 1
  <2>1. f[i] = (i - 1) * (h + 1) /\ f[i + 1] = ((i + 1) - 1) * (h + 1)
    BY <1>8
  <2>2. ((i + 1) - 1) * (h + 1) = (i - 1) * (h + 1) + (h + 1) /\ (i - 1) * (h + 1) \in Int
    BY <1>3, SMT
  <2> QED
    BY <1>3, <2>1, <2>2 DEF g
<1> QED
  BY <1>2, <1>3, <1>7, <1>9

\* What Nearest says is that.
LEMMA NearestIsClose ==
    ASSUME NEW max \in Nat \ {0}, NEW len \in Nat \ {0}, NEW i \in 1 .. max,
           NEW k \in Nearest(i, max, len)
    PROVE  k \in 1 .. len /\ Close(i - 1, k - 1, len - 1, max - 1)
<1>1. /\ k \in 1 .. len
      /\ LET off == 2 * (i - 1) * (len - 1) - 2 * (k - 1) * (max - 1)
         IN  -off <= max - 1 /\ off <= max - 1
  BY DEF Nearest
<1>2. /\ 2 * (i - 1) * (len - 1) = 2 * ((i - 1) * (len - 1))
      /\ 2 * (k - 1) * (max - 1) = 2 * ((k - 1) * (max - 1))
  BY <1>1, SMT
<1> QED
  BY <1>1, <1>2 DEF Close

-------------------------------------------------------------------------------
(* Choosing rows. *)

Ascends(s) == \A i, j \in 1 .. Len(s) : i < j => s[i] < s[j]

\* The indices of rows that are left when there are too many.
Pick(f, len, max) ==
    /\ f \in [1 .. max -> 1 .. len]
    /\ \A i \in 1 .. max : Close(i - 1, f[i] - 1, len - 1, max - 1)

\* What downsampleSamples leaves of more rows than points.
LEMMA DownsampleCases ==
    ASSUME NEW s \in Seq(Int), NEW max \in Nat \ {0}, NEW r \in Downsample(s, max)
    PROVE  \/ Len(s) <= max /\ r = s
           \/ max = 1 /\ Len(s) > 1 /\ r = <<s[1]>>
           \/ /\ max > 1 /\ Len(s) > max
              /\ \E f : Pick(f, Len(s), max) /\ r = [i \in 1 .. max |-> s[f[i]]]
<1>1. Len(s) \in Nat
  BY LenProperties
<1>2. CASE Len(s) <= max
  BY <1>2 DEF Downsample
<1>3. CASE Len(s) > max /\ max = 1
  BY <1>1, <1>3 DEF Downsample
<1>4. CASE Len(s) > max /\ max # 1
  <2>1. PICK f \in [1 .. max -> 1 .. Len(s)] :
          /\ \A i \in 1 .. max : f[i] \in Nearest(i, max, Len(s))
          /\ r = [i \in 1 .. max |-> s[f[i]]]
    <3>1. ~ Len(s) <= max
      BY <1>1, <1>4
    <3>2. r \in {[i \in 1 .. max |-> s[pick[i]]] :
                   pick \in {f \in [1 .. max -> 1 .. Len(s)] :
                               \A i \in 1 .. max : f[i] \in Nearest(i, max, Len(s))}}
      BY <1>4, <3>1, Zenon DEF Downsample
    <3> QED
      BY <3>2, Zenon
  <2>2. Len(s) \in Nat \ {0}
    BY <1>1, <1>4
  <2>3. Pick(f, Len(s), max)
    BY <2>1, <2>2, NearestIsClose DEF Pick
  <2>4. max > 1
    BY <1>4
  <2>5. \E g : Pick(g, Len(s), max) /\ r = [i \in 1 .. max |-> s[g[i]]]
    BY <2>1, <2>3
  <2> QED
    BY <1>4, <2>4, <2>5
<1> QED
  BY <1>1, <1>2, <1>3, <1>4

\* The rows picked are rows read, the first and the last among them, and in
\* the order of their indices.
LEMMA PickedRows ==
    ASSUME NEW max \in Nat, max > 1, NEW len \in Nat, len > max, NEW f, Pick(f, len, max)
    PROVE  /\ f[1] = 1 /\ f[max] = len
           /\ \A i \in 1 .. max - 1 : f[i] < f[i + 1]
           /\ \A i, j \in 1 .. max - 1 : f[i + 1] - f[i] <= f[j + 1] - f[j] + 1
<1> DEFINE m == max - 1
           n == len - 1
           g == [i \in 1 .. m + 1 |-> f[i] - 1]
<1>1. /\ m \in Nat \ {0} /\ n \in Nat /\ n > m
      /\ f \in [1 .. m + 1 -> 1 .. len]
      /\ g \in [1 .. m + 1 -> Int]
      /\ \A i \in 1 .. m + 1 : f[i] = g[i] + 1 /\ f[i] \in Int /\ Close(i - 1, g[i], n, m)
  BY DEF Pick
<1>2. max = m + 1 /\ len = n + 1
  OBVIOUS
<1> HIDE DEF m, n, g
<1>3. g[1] = 0
  <2>1. 0 * n - g[1] * m = -(g[1] * m) /\ g[1] \in Int
    BY <1>1, SMT
  <2>2. Close(0, g[1], 0, m)
    BY <1>1, <2>1, SMT DEF Close
  <2>3. m \in Nat \ {0} /\ 0 \in Int /\ 0 = 0 * m
    BY <1>1
  <2>4. g[1] = 0 * 0
    BY <2>1, <2>2, <2>3, CloseToRow, Zenon
  <2> QED
    BY <2>4
<1>4. g[m + 1] = n
  <2>1. m + 1 \in 1 .. m + 1 /\ g[m + 1] \in Int /\ Close((m + 1) - 1, g[m + 1], n, m)
    BY <1>1
  <2> DEFINE k == n * m
  <2>2. ((m + 1) - 1) * n = 1 * k /\ k \in Int /\ 1 \in Int
    BY <1>1, SMT
  <2>3. k = n * m /\ m \in Nat \ {0} /\ n \in Int
    BY <1>1
  <2> HIDE DEF k
  <2>4. Close(1, g[m + 1], k, m)
    BY <2>1, <2>2 DEF Close
  <2>5. g[m + 1] = 1 * n
    BY <2>1, <2>2, <2>3, <2>4, CloseToRow, Zenon
  <2> QED
    BY <1>1, <2>5
<1>5. ASSUME NEW i \in 1 .. m
      PROVE  g[i] < g[i + 1]
  <2>1. /\ i \in 1 .. m + 1 /\ i + 1 \in 1 .. m + 1 /\ i - 1 \in Int
        /\ (i + 1) - 1 = (i - 1) + 1
    BY <1>1
  <2>2. /\ g[i] \in Int /\ g[i + 1] \in Int
        /\ Close(i - 1, g[i], n, m) /\ Close((i - 1) + 1, g[i + 1], n, m)
    BY <1>1, <2>1
  <2>3. n <= (g[i + 1] - g[i]) * m + m
    BY <1>1, <2>1, <2>2, GapBounds
  <2> DEFINE d == g[i + 1] - g[i]
  <2>4. d \in Int
    BY <2>2
  <2> SUFFICES ASSUME d <= 0 PROVE FALSE
    BY <2>2
  <2>5. n <= d * m + m
    BY <2>3
  <2> HIDE DEF d
  <2>6. m \in Nat /\ d * m <= 0 * m
    BY <1>1, <2>4, TimesMonotone
  <2>7. d * m \in Int
    BY <1>1, <2>4, SMT
  <2> QED
    BY <1>1, <2>5, <2>6, <2>7
<1>6. ASSUME NEW i \in 1 .. m, NEW j \in 1 .. m
      PROVE  g[i + 1] - g[i] <= g[j + 1] - g[j] + 1
  BY <1>1, EvenGaps
<1>7. /\ \A i \in 1 .. m : f[i] = g[i] + 1 /\ f[i + 1] = g[i + 1] + 1
      /\ \A i \in 1 .. m : g[i] \in Int /\ g[i + 1] \in Int
  <2>1. \A i \in 1 .. m : i \in 1 .. m + 1 /\ i + 1 \in 1 .. m + 1
    BY <1>1
  <2> QED
    BY <1>1, <2>1
<1>8. f[1] = 1 /\ f[m + 1] = n + 1
  BY <1>1, <1>3, <1>4
<1>9. \A i \in 1 .. m : f[i] < f[i + 1]
  BY <1>5, <1>7
<1>10. \A i, j \in 1 .. m : f[i + 1] - f[i] <= f[j + 1] - f[j] + 1
  BY <1>6, <1>7
<1> QED
  BY <1>2, <1>8, <1>9, <1>10 DEF m

\* Rows that were read, some if there were any, and no more than asked for.
LEMMA DownsampleType ==
    ASSUME NEW T \in SUBSET Int, NEW s \in Seq(T), NEW max \in Nat \ {0},
           NEW r \in Downsample(s, max)
    PROVE  /\ r \in Seq(T)
           /\ s # <<>> => r # <<>>
           /\ Len(r) <= max
           /\ \A i \in 1 .. Len(r) : \E k \in 1 .. Len(s) : r[i] = s[k]
<1>1. s \in Seq(Int) /\ Len(s) \in Nat /\ \A k \in 1 .. Len(s) : s[k] \in T
  BY SeqMonotonic, LenProperties, ElementOfSeq
<1>2. CASE Len(s) <= max /\ r = s
  BY <1>1, <1>2
<1>3. CASE max = 1 /\ Len(s) > 1 /\ r = <<s[1]>>
  <2>1. s[1] \in T /\ 1 \in 1 .. Len(s)
    BY <1>1, <1>3
  <2> QED
    BY <1>3, <2>1
<1>4. ASSUME max > 1, Len(s) > max,
             NEW f, Pick(f, Len(s), max), r = [i \in 1 .. max |-> s[f[i]]]
      PROVE  /\ r \in Seq(T) /\ r # <<>> /\ Len(r) = max
             /\ \A i \in 1 .. Len(r) : \E k \in 1 .. Len(s) : r[i] = s[k]
  <2>1. \A i \in 1 .. max : f[i] \in 1 .. Len(s) /\ s[f[i]] \in T
    BY <1>1, <1>4 DEF Pick
  <2>2. r \in Seq(T) /\ Len(r) = max
    BY <1>4, <2>1
  <2>3. r # <<>>
    BY <2>2
  <2>4. \A i \in 1 .. Len(r) : r[i] = s[f[i]] /\ f[i] \in 1 .. Len(s)
    BY <1>4, <2>1, <2>2
  <2> QED
    BY <2>2, <2>3, <2>4
<1> QED
  BY <1>1, <1>2, <1>3, <1>4, DownsampleCases

\* They keep their order, and reach from the first to the last.
LEMMA DownsampleSpans ==
    ASSUME NEW s \in Seq(Int), Ascends(s), NEW max \in Nat \ {0},
           NEW r \in Downsample(s, max)
    PROVE  /\ \A i \in 1 .. Len(r) : i > 1 => r[i - 1] < r[i]
           /\ Len(r) > 1 => r[1] = s[1] /\ Last(r) = Last(s)
<1>1. Len(s) \in Nat
  BY LenProperties
<1>2. CASE Len(s) <= max /\ r = s
  BY <1>1, <1>2 DEF Ascends
<1>3. CASE max = 1 /\ Len(s) > 1 /\ r = <<s[1]>>
  BY <1>3
<1>4. ASSUME max > 1, Len(s) > max,
             NEW f, Pick(f, Len(s), max), r = [i \in 1 .. max |-> s[f[i]]]
      PROVE  /\ \A i \in 1 .. Len(r) : i > 1 => r[i - 1] < r[i]
             /\ r[1] = s[1] /\ Last(r) = Last(s)
  <2>1. f[1] = 1 /\ f[max] = Len(s) /\ \A i \in 1 .. max - 1 : f[i] < f[i + 1]
    BY <1>1, <1>4, PickedRows
  <2>2. Len(r) = max /\ \A i \in 1 .. max : r[i] = s[f[i]] /\ f[i] \in 1 .. Len(s)
    <3>1. \A i \in 1 .. max : f[i] \in 1 .. Len(s)
      BY <1>4 DEF Pick
    <3>2. Len(r) = max /\ \A i \in 1 .. max : r[i] = s[f[i]]
      BY <1>4
    <3> QED
      BY <3>1, <3>2
  <2>3. r[1] = s[1] /\ Last(r) = Last(s)
    BY <1>4, <2>1, <2>2 DEF Last
  <2>4. ASSUME NEW i \in 1 .. max, i > 1
        PROVE  r[i - 1] < r[i]
    <3>1. i - 1 \in 1 .. max - 1 /\ i - 1 \in 1 .. max /\ (i - 1) + 1 = i
      BY <2>4
    <3>2. f[i - 1] < f[i]
      BY <2>1, <3>1
    <3> QED
      BY <2>2, <3>1, <3>2 DEF Ascends
  <2> QED
    BY <2>2, <2>3, <2>4
<1> QED
  BY <1>2, <1>3, <1>4, DownsampleCases

Skipped(s, r, i) == {j \in 1 .. Len(s) : r[i] < s[j] /\ s[j] < r[i + 1]}

\* Between two of them lie the rows with the indices between.
LEMMA SkippedRows ==
    ASSUME NEW s \in Seq(Int), Ascends(s), NEW r, NEW i,
           NEW a \in 1 .. Len(s), NEW b \in 1 .. Len(s), a < b, r[i] = s[a], r[i + 1] = s[b]
    PROVE  Cardinality(Skipped(s, r, i)) = b - a - 1
<1>1. Len(s) \in Nat /\ \A k \in 1 .. Len(s) : s[k] \in Int
  BY LenProperties, ElementOfSeq
<1>2. ASSUME NEW j \in 1 .. Len(s)
      PROVE  s[a] < s[j] /\ s[j] < s[b] <=> a < j /\ j < b
  <2>1. s[a] \in Int /\ s[b] \in Int /\ s[j] \in Int /\ a \in Int /\ b \in Int /\ j \in Int
    BY <1>1
  <2>2. a < j => s[a] < s[j]
    BY DEF Ascends
  <2>3. j < a => s[j] < s[a]
    BY DEF Ascends
  <2>4. j < b => s[j] < s[b]
    BY DEF Ascends
  <2>5. b < j => s[b] < s[j]
    BY DEF Ascends
  <2> QED
    BY <2>1, <2>2, <2>3, <2>4, <2>5
<1>3. Skipped(s, r, i) = (a + 1) .. (b - 1)
  <2>1. \A j : j \in (a + 1) .. (b - 1) <=> j \in 1 .. Len(s) /\ a < j /\ j < b
    BY <1>1
  <2> QED
    BY <1>2, <2>1 DEF Skipped
<1>4. a + 1 \in Int /\ b - 1 \in Int
  OBVIOUS
<1> QED
  BY <1>3, <1>4, FS_Interval

\* As many rows are left out in one place as in any other, give or take one.
LEMMA DownsampleEven ==
    ASSUME NEW s \in Seq(Int), Ascends(s), NEW max \in Nat \ {0},
           NEW r \in Downsample(s, max),
           NEW i \in 1 .. Len(r) - 1, NEW j \in 1 .. Len(r) - 1
    PROVE  Cardinality(Skipped(s, r, i)) <= Cardinality(Skipped(s, r, j)) + 1
<1>1. Len(s) \in Nat
  BY LenProperties
<1>2. CASE Len(s) <= max /\ r = s
  <2>1. \A k \in 1 .. Len(r) - 1 : k \in 1 .. Len(s) /\ k + 1 \in 1 .. Len(s) /\ k < k + 1
    BY <1>1, <1>2
  <2>2. ASSUME NEW k \in 1 .. Len(r) - 1
        PROVE  Cardinality(Skipped(s, r, k)) = 0
    <3>1. Cardinality(Skipped(s, r, k)) = (k + 1) - k - 1
      BY <1>2, <2>1, SkippedRows
    <3> QED
      BY <3>1
  <2> QED
    BY <2>2
<1>3. CASE max = 1 /\ Len(s) > 1 /\ r = <<s[1]>>
  BY <1>3
<1>4. ASSUME max > 1, Len(s) > max,
             NEW f, Pick(f, Len(s), max), r = [k \in 1 .. max |-> s[f[k]]]
      PROVE  Cardinality(Skipped(s, r, i)) <= Cardinality(Skipped(s, r, j)) + 1
  <2>1. /\ \A k \in 1 .. max - 1 : f[k] < f[k + 1]
        /\ \A k, l \in 1 .. max - 1 : f[k + 1] - f[k] <= f[l + 1] - f[l] + 1
    BY <1>1, <1>4, PickedRows
  <2>2. Len(r) = max /\ \A k \in 1 .. max : r[k] = s[f[k]] /\ f[k] \in 1 .. Len(s)
    <3>1. \A k \in 1 .. max : f[k] \in 1 .. Len(s)
      BY <1>4 DEF Pick
    <3>2. Len(r) = max /\ \A k \in 1 .. max : r[k] = s[f[k]]
      BY <1>4
    <3> QED
      BY <3>1, <3>2
  <2>3. \A k \in 1 .. max - 1 :
          /\ f[k] \in 1 .. Len(s) /\ f[k + 1] \in 1 .. Len(s) /\ f[k] < f[k + 1]
          /\ r[k] = s[f[k]] /\ r[k + 1] = s[f[k + 1]]
    <3>1. \A k \in 1 .. max - 1 : k \in 1 .. max /\ k + 1 \in 1 .. max
      BY <1>4
    <3> QED
      BY <2>1, <2>2, <3>1
  <2>4. ASSUME NEW k \in 1 .. max - 1
        PROVE  Cardinality(Skipped(s, r, k)) = f[k + 1] - f[k] - 1
    <3>1. /\ f[k] \in 1 .. Len(s) /\ f[k + 1] \in 1 .. Len(s) /\ f[k] < f[k + 1]
          /\ r[k] = s[f[k]] /\ r[k + 1] = s[f[k + 1]]
      BY <2>3
    <3>2. PICK a \in 1 .. Len(s), b \in 1 .. Len(s) : a = f[k] /\ b = f[k + 1]
      BY <3>1
    <3>3. a < b /\ r[k] = s[a] /\ r[k + 1] = s[b]
      BY <3>1, <3>2
    <3>4. Cardinality(Skipped(s, r, k)) = b - a - 1
      BY <3>3, SkippedRows
    <3> QED
      BY <3>2, <3>4
  <2>5. i \in 1 .. max - 1 /\ j \in 1 .. max - 1
    BY <2>2
  <2>6. f[i + 1] - f[i] <= f[j + 1] - f[j] + 1
    BY <2>1, <2>5
  <2>7. f[i] \in Int /\ f[j] \in Int /\ f[i + 1] \in Int /\ f[j + 1] \in Int
    <3>1. \A k \in 1 .. max - 1 : f[k] \in Int /\ f[k + 1] \in Int
      BY <1>1, <2>3
    <3> QED
      BY <2>5, <3>1
  <2>8. /\ Cardinality(Skipped(s, r, i)) = f[i + 1] - f[i] - 1
        /\ Cardinality(Skipped(s, r, j)) = f[j + 1] - f[j] - 1
    BY <2>4, <2>5
  <2> QED
    BY <2>6, <2>7, <2>8
<1> QED
  BY <1>2, <1>3, <1>4, DownsampleCases

-------------------------------------------------------------------------------
(* The window. *)

Half == 2 ^ (Width - 1)

\* A negated product that overflows becomes greater.
LEMMA WrapBound ==
    ASSUME NEW n \in Nat
    PROVE  Wrap(-n) \in Int /\ -n <= Wrap(-n)
<1>1. Half \in Nat \ {0}
  BY PowerAssumption DEF PowerAssumption, Half
<1>2. Wrap(-n) = ((-n + Half) % (2 * Half)) - Half
  BY DEF Wrap, Half
<1>3. CASE -n + Half < 0
  <2>1. (-n + Half) % (2 * Half) \in Nat
    BY <1>1, SMT
  <2> QED
    BY <1>1, <1>2, <1>3, <2>1
<1>4. CASE -n + Half >= 0
  <2>1. -n + Half \in 0 .. 2 * Half - 1
    BY <1>1, <1>4
  <2>2. (-n + Half) % (2 * Half) = -n + Half
    BY <1>1, <2>1, SMT
  <2> QED
    BY <1>1, <1>2, <2>2
<1> QED
  BY <1>1, <1>3, <1>4

\* At least one point is wanted.
LEMMA PointsType ==
    ASSUME NEW o \in ExportOptions
    PROVE  ResolveMaxPoints(o.maxPoints) \in Nat \ {0}
<1>1. o.maxPoints \in Int
  BY FlagsAssumption DEF ExportOptions, FlagsAssumption
<1> QED
  BY <1>1, ConfigAssumption DEF ResolveMaxPoints, ConfigAssumption

\* The length a default window is to have.
LEMMA SpanType ==
    ASSUME NEW o \in ExportOptions
    PROVE  /\ ResolveMaxPoints(o.maxPoints) * Interval \in Nat
           /\ Wrap(-(ResolveMaxPoints(o.maxPoints) * Interval)) \in Int
<1> DEFINE n == ResolveMaxPoints(o.maxPoints)
<1>1. n \in Nat \ {0} /\ Interval \in Nat
  BY PointsType, ConfigAssumption DEF ConfigAssumption
<1> HIDE DEF n
<1>2. n * Interval \in Nat
  BY <1>1, SMT
<1>3. Wrap(-(n * Interval)) \in Int
  BY <1>2, WrapBound
<1> QED
  BY <1>2, <1>3 DEF n

LEMMA WindowType ==
    ASSUME NEW o \in ExportOptions, NEW now \in Times
    PROVE  /\ Window(o, now) \in [from : Int, to : Int]
           /\ o.from = NotGiven
              => Window(o, now).from
                   = Window(o, now).to + Wrap(-(ResolveMaxPoints(o.maxPoints) * Interval))
<1> DEFINE to == IF o.to = NotGiven THEN now ELSE o.to
           span == Wrap(-(ResolveMaxPoints(o.maxPoints) * Interval))
<1>1. span \in Int
  BY SpanType
<1>2. to \in Int /\ (o.from # NotGiven => o.from \in Int)
  <2>1. o.to \in Times \cup {NotGiven} /\ o.from \in Times \cup {NotGiven}
    BY DEF ExportOptions
  <2>2. \A t \in Times : t \in Int
    BY FlagsAssumption DEF FlagsAssumption
  <2> QED
    BY <2>1, <2>2
<1>3. Window(o, now) = [from |-> IF o.from = NotGiven THEN to + span ELSE o.from, to |-> to]
  BY DEF Window
<1> HIDE DEF to, span
<1>4. Window(o, now) \in [from : Int, to : Int]
  BY <1>1, <1>2, <1>3
<1>5. o.from = NotGiven => Window(o, now).from = Window(o, now).to + span
  BY <1>3
<1> QED
  BY <1>4, <1>5 DEF span

\* A window of so many intervals holds no more aligned buckets than that.
LEMMA AlignedCount ==
    ASSUME \A b \in Buckets : b % Interval = 0,
           NEW s \in Seq(Buckets), Ascends(s),
           NEW from \in Int, NEW to \in Int, NEW max \in Nat, to <= from + max * Interval,
           \A i \in 1 .. Len(s) : from <= s[i] /\ s[i] < to
    PROVE  Len(s) <= max
<1> DEFINE first == -((-from) \div Interval)
           Places == first .. first + max - 1
           place == [i \in 1 .. Len(s) |-> s[i] \div Interval]
<1>1. Interval \in Nat \ {0} /\ Buckets \subseteq Int
  BY ConfigAssumption, BucketsAssumption DEF ConfigAssumption, BucketsAssumption
<1>2. Len(s) \in Nat /\ \A i \in 1 .. Len(s) : s[i] \in Buckets /\ s[i] \in Int
  BY <1>1, LenProperties, ElementOfSeq
<1>3. first \in Int /\ from <= first * Interval
  <2>1. /\ (-from) \div Interval \in Int
        /\ -from = Interval * ((-from) \div Interval) + ((-from) % Interval)
        /\ 0 <= (-from) % Interval /\ (-from) % Interval \in Int
    BY <1>1, SMT
  <2> DEFINE q == (-from) \div Interval
  <2>2. q \in Int /\ first = -q /\ Interval * q <= -from
    BY <1>1, <2>1, SMT
  <2> HIDE DEF q, first
  <2>3. (-q) * Interval = -(Interval * q) /\ Interval * q \in Int
    BY <1>1, <2>2, SMT
  <2> QED
    BY <2>2, <2>3
<1>4. (first - 1) * Interval < from
  <2>1. /\ (-from) \div Interval \in Int
        /\ -from = Interval * ((-from) \div Interval) + ((-from) % Interval)
        /\ (-from) % Interval < Interval /\ (-from) % Interval \in Int
    BY <1>1, SMT
  <2> DEFINE q == (-from) \div Interval
  <2>2. q \in Int /\ first = -q /\ -from < Interval * q + Interval
    BY <1>1, <2>1, SMT
  <2> HIDE DEF q, first
  <2>3. /\ ((-q) - 1) * Interval = -(Interval * q) - Interval
        /\ Interval * q \in Int
    BY <1>1, <2>2, SMT
  <2> QED
    BY <1>1, <2>2, <2>3
<1> HIDE DEF first
<1>5. \A i \in 1 .. Len(s) :
        /\ place[i] \in Int
        /\ s[i] = place[i] * Interval
  <2> SUFFICES ASSUME NEW i \in 1 .. Len(s)
               PROVE  place[i] \in Int /\ s[i] = place[i] * Interval
    OBVIOUS
  <2> DEFINE b == s[i]
  <2>1. b \in Int /\ b % Interval = 0 /\ place[i] = b \div Interval
    BY <1>2
  <2> HIDE DEF b, place
  <2> DEFINE k == b \div Interval
  <2>2. k \in Int /\ b = Interval * k + (b % Interval)
    BY <1>1, <2>1, SMT
  <2>3. place[i] = k
    BY <2>1
  <2> HIDE DEF k
  <2>4. b = k * Interval
    BY <1>1, <2>1, <2>2, SMT
  <2>5. b = s[i]
    BY DEF b
  <2> QED
    BY <2>2, <2>3, <2>4, <2>5
<1>6. \A i \in 1 .. Len(s) : place[i] \in Places
  <2> SUFFICES ASSUME NEW i \in 1 .. Len(s) PROVE place[i] \in Places
    OBVIOUS
  <2> DEFINE k == place[i]
  <2>1. /\ k \in Int
        /\ from <= k * Interval /\ k * Interval < from + max * Interval
    <3>1. k \in Int /\ s[i] = k * Interval /\ s[i] \in Int
      BY <1>2, <1>5
    <3>2. max * Interval \in Int
      BY <1>1, SMT
    <3> HIDE DEF k
    <3> QED
      BY <3>1, <3>2
  <2> HIDE DEF k, place
  <2>2. /\ k * Interval \in Int /\ max * Interval \in Int /\ (first - 1) * Interval \in Int
        /\ first * Interval \in Int
    BY <1>1, <1>3, <2>1, SMT
  <2>3. ~ k <= first - 1
    <3> SUFFICES ASSUME k <= first - 1 PROVE FALSE
      OBVIOUS
    <3>1. k * Interval <= (first - 1) * Interval
      BY <1>1, <1>3, <2>1, TimesMonotone
    <3> QED
      BY <1>4, <2>1, <2>2, <3>1
  <2>4. ~ first + max <= k
    <3> SUFFICES ASSUME first + max <= k PROVE FALSE
      OBVIOUS
    <3>1. (first + max) * Interval <= k * Interval
      BY <1>1, <1>3, <2>1, TimesMonotone
    <3>2. (first + max) * Interval = first * Interval + max * Interval
      BY <1>1, <1>3, SMT
    <3> QED
      BY <1>3, <2>1, <2>2, <3>1, <3>2
  <2> QED
    BY <1>3, <2>1, <2>3, <2>4 DEF k
<1>7. ASSUME NEW i \in 1 .. Len(s), NEW j \in 1 .. Len(s), place[i] = place[j]
      PROVE  i = j
  <2>1. s[i] = s[j] /\ s[i] \in Int
    BY <1>2, <1>5, <1>7
  <2>2. (i < j => s[i] < s[j]) /\ (j < i => s[j] < s[i])
    BY DEF Ascends
  <2> QED
    BY <1>2, <2>1, <2>2
<1>8. place \in Injection(1 .. Len(s), Places)
  <2>1. place \in [1 .. Len(s) -> Places]
    BY <1>6
  <2> QED
    BY <1>7, <2>1 DEF Injection, IsInjective
<1>9. IsFiniteSet(Places) /\ Cardinality(Places) = max
  <2>1. first + max - 1 \in Int
    BY <1>3
  <2>2. /\ IsFiniteSet(Places)
        /\ Cardinality(Places) = IF first > first + max - 1 THEN 0
                                 ELSE (first + max - 1) - first + 1
    BY <1>3, <2>1, FS_Interval
  <2> HIDE DEF Places
  <2> QED
    BY <1>3, <2>2
<1>10. Cardinality(1 .. Len(s)) <= Cardinality(Places)
  <2> HIDE DEF place, Places
  <2> QED
    BY <1>8, <1>9, FS_Injection
<1>11. Cardinality(1 .. Len(s)) = Len(s)
  <2>1. 1 \in Int /\ Len(s) \in Int
    BY <1>2
  <2>2. Cardinality(1 .. Len(s)) = IF 1 > Len(s) THEN 0 ELSE Len(s) - 1 + 1
    BY <2>1, FS_Interval
  <2> QED
    BY <1>2, <2>2
<1> QED
  BY <1>9, <1>10, <1>11

-------------------------------------------------------------------------------
(* Reading and writing. *)

\* What a query finds lies in the window, in order.
LEMMA FoundRows ==
    ASSUME NEW w \in [from : Int, to : Int]
    PROVE  /\ ListSamplesBetween(w) \in Seq(Buckets)
           /\ Ascends(ListSamplesBetween(w))
           /\ \A i \in 1 .. Len(ListSamplesBetween(w)) :
                w.from <= ListSamplesBetween(w)[i] /\ ListSamplesBetween(w)[i] < w.to
<1> DEFINE S == {b \in Buckets : SampleExists(b) /\ w.from <= b /\ b < w.to}
           s == Ascending(S)
<1>1. Buckets \subseteq Int /\ w.from \in Int /\ w.to \in Int
  BY BucketsAssumption DEF BucketsAssumption
<1>2. S \in SUBSET Int /\ S \subseteq w.from .. w.to
  <2>1. \A b \in S : b \in Int /\ w.from <= b /\ b <= w.to
    BY <1>1
  <2> HIDE DEF S
  <2> QED
    BY <1>1, <2>1
<1>3. IsFiniteSet(S)
  BY <1>1, <1>2, FS_Interval, FS_Subset
<1>4. s \in Seq(S) /\ \A i, j \in 1 .. Len(s) : i < j => s[i] < s[j]
  <2> HIDE DEF S
  <2> QED
    BY <1>2, <1>3, ListingIsSorted
<1>5. s \in Seq(Buckets) /\ \A i \in 1 .. Len(s) : s[i] \in S
  <2>1. S \subseteq Buckets
    OBVIOUS
  <2> HIDE DEF S, s
  <2> QED
    BY <1>4, <2>1, SeqMonotonic, ElementOfSeq
<1>6. ListSamplesBetween(w) = s
  BY DEF ListSamplesBetween
<1> HIDE DEF s
<1> QED
  BY <1>4, <1>5, <1>6 DEF Ascends

\* A sequence begins what it begins.
LEMMA PrefixOfConcat ==
    ASSUME NEW T, NEW s \in Seq(T), NEW t \in Seq(T)
    PROVE  IsPrefix(s, s \o t)
<1>1. /\ Len(s) \in Nat /\ Len(t) \in Nat /\ s \o t \in Seq(T)
      /\ Len(s \o t) = Len(s) + Len(t)
  BY LenProperties, ConcatProperties
<1>2. SubSeq(s \o t, 1, Len(s)) = SubSeq(s, 1, Len(s))
  <2>1. CASE Len(s) = 0
    BY <1>1, <2>1, SubSeqEmpty
  <2>2. CASE Len(s) # 0
    <3>1. 1 \in 1 .. Len(s) /\ Len(s) \in 1 .. Len(s)
      BY <1>1, <2>2
    <3> QED
      BY <3>1, SubSeqOfConcat1
  <2> QED
    BY <2>1, <2>2
<1> QED
  BY <1>1, <1>2 DEF IsPrefix

\* The library's ConcatAssociative, with the types that make it quick to use.
LEMMA Associative ==
    ASSUME NEW T, NEW s \in Seq(T), NEW t \in Seq(T), NEW u \in Seq(T)
    PROVE  (s \o t) \o u = s \o (t \o u)
<1>1. s \o t \in Seq(T) /\ t \o u \in Seq(T)
  BY ConcatProperties
<1>2. (s \o t) \o u \in Seq(T) /\ s \o (t \o u) \in Seq(T)
  BY <1>1, ConcatProperties
<1> QED
  BY <1>1, <1>2, ConcatAssociative

\* What is written first begins what is written.
LEMMA FrontWritten ==
    ASSUME NEW T, NEW d \in Seq(T), NEW r \in Seq(T), NEW p \in Seq(T)
    PROVE  IsPrefix(d, (d \o r) \o p)
<1>1. (d \o r) \o p = d \o (r \o p)
  BY Associative
<1>2. r \o p \in Seq(T)
  BY ConcatProperties
<1> QED
  BY <1>1, <1>2, PrefixOfConcat

\* A buffer written in two parts.
LEMMA BufferParts ==
    ASSUME NEW T, NEW c \in Seq(T), NEW b \in Seq(T), NEW n \in 0 .. Len(b)
    PROVE  /\ SubSeq(b, 1, n) \in Seq(T) /\ SubSeq(b, n + 1, Len(b)) \in Seq(T)
           /\ (c \o SubSeq(b, 1, n)) \o SubSeq(b, n + 1, Len(b)) = c \o b
<1> DEFINE front == SubSeq(b, 1, n)
           rest == SubSeq(b, n + 1, Len(b))
<1>1. Len(b) \in Nat /\ \A i \in 1 .. Len(b) : b[i] \in T
  BY LenProperties, ElementOfSeq
<1>2. front \in Seq(T) /\ rest \in Seq(T)
  <2>1. \A i \in 1 .. n : b[i] \in T
    BY <1>1
  <2>2. \A i \in n + 1 .. Len(b) : b[i] \in T
    BY <1>1
  <2> QED
    BY <1>1, <2>1, <2>2, SubSeqProperties
<1>3. front \o rest = b
  <2>1. 1 \in 1 .. Len(b) + 1 /\ n \in 1 - 1 .. Len(b) /\ Len(b) \in n .. Len(b)
    BY <1>1
  <2>2. front \o rest = SubSeq(b, 1, Len(b))
    BY <2>1, ConcatAdjacentSubSeq
  <2> QED
    BY <2>2, SubSeqFull
<1> HIDE DEF front, rest
<1>4. (c \o front) \o rest = c \o (front \o rest)
  BY <1>2, Associative, SMTT(30)
<1> QED
  BY <1>2, <1>3, <1>4 DEF front, rest

\* A part of the buffer, written behind what is in the file.
LEMMA PartWritten ==
    ASSUME NEW T, NEW c \in Seq(T), NEW b \in Seq(T), NEW p \in Seq(T),
           NEW n \in 0 .. Len(b)
    PROVE  /\ c \o SubSeq(b, 1, n) \in Seq(T)
           /\ IsPrefix(c \o SubSeq(b, 1, n), c \o b \o p)
<1> DEFINE d == c \o SubSeq(b, 1, n)
           rest == SubSeq(b, n + 1, Len(b))
<1>1. /\ SubSeq(b, 1, n) \in Seq(T) /\ rest \in Seq(T)
      /\ d \o rest = c \o b
  BY BufferParts
<1>2. d \in Seq(T)
  BY <1>1, ConcatProperties
<1> HIDE DEF d, rest
<1>3. IsPrefix(d, (d \o rest) \o p)
  BY <1>1, <1>2, FrontWritten
<1> QED
  BY <1>1, <1>2, <1>3 DEF d

\* All of it.
LEMMA BufferWritten ==
    ASSUME NEW T, NEW c \in Seq(T), NEW b \in Seq(T), NEW p \in Seq(T)
    PROVE  c \o b \in Seq(T) /\ IsPrefix(c \o b, c \o b \o p)
<1>1. Len(b) \in 0 .. Len(b) /\ SubSeq(b, 1, Len(b)) = b
  BY LenProperties, SubSeqFull
<1> QED
  BY <1>1, PartWritten

\* The first row to be written, p's, goes into the buffer b, or behind it.
Moved(T, c, b, p) ==
    /\ <<Head(p)>> \in Seq(T) /\ Append(b, Head(p)) \in Seq(T) /\ Tail(p) \in Seq(T)
    /\ (c \o b) \o <<Head(p)>> \o Tail(p) = c \o b \o p
    /\ c \o Append(b, Head(p)) \o Tail(p) = c \o b \o p

\* The next row goes into the buffer, which may have been written before.
LEMMA RowMoves ==
    ASSUME NEW T, NEW c \in Seq(T), NEW b \in Seq(T), NEW p \in Seq(T), p # <<>>
    PROVE  Moved(T, c, b, p)
<1>1. Head(p) \in T /\ Tail(p) \in Seq(T) /\ <<Head(p)>> \in Seq(T)
  BY HeadTailProperties
<1>2. p = <<Head(p)>> \o Tail(p)
  BY <1>1
<1>3. Append(b, Head(p)) \in Seq(T) /\ Append(b, Head(p)) = b \o <<Head(p)>>
  BY <1>1, AppendProperties, AppendIsConcat
<1> DEFINE d == c \o b
           one == <<Head(p)>>
<1>4. d \in Seq(T) /\ one \in Seq(T) /\ Tail(p) \in Seq(T)
  BY <1>1, ConcatProperties
<1>5. d \o one = c \o (b \o one)
  BY <1>1, Associative
<1> HIDE DEF d, one
<1>6. (d \o one) \o Tail(p) = d \o (one \o Tail(p))
  BY <1>4, Associative, SMTT(30)
<1>7. p = one \o Tail(p)
  BY <1>2 DEF one
<1> QED
  BY <1>1, <1>3, <1>5, <1>6, <1>7 DEF d, one, Moved

\* Rounding and recording keep to integers.
LEMMA SampleRowType == \A d \in Deviations : SampleRow(d, 0) \in SampleRows
<1>1. ASSUME NEW n \in Int PROVE Units(n) \in Int
  BY ColumnAssumption DEF Units, ColumnAssumption
<1>2. ASSUME NEW d \in Int PROVE Rounded(d) \in Int
  <2>1. Units(d) \in Int /\ Units(-d) \in Int
    BY <1>1
  <2> QED
    BY <2>1, ColumnAssumption DEF Rounded, ColumnAssumption
<1> QED
  BY <1>2, DeviationsAssumption DEF DeviationsAssumption, SampleRow, SampleRows

-------------------------------------------------------------------------------
(* The inductive invariant. *)

Points == ResolveMaxPoints(opts.maxPoints)

\* The window has been computed.
Windowed == pc \in {"query", "downsample"} \/ Thinned

TypeInv == TypeOK /\ opts \in ExportOptions

\* A default window is as long as the wrapped product.
WindowInv ==
    Windowed /\ opts.from = NotGiven => window.from = window.to + Wrap(-(Points * Interval))

\* What was read lies in the window, in order.
ReadInv ==
    /\ pc \in {"start", "query"} => read = <<>>
    /\ pc = "downsample" \/ Thinned => read # <<>>
    /\ Ascends(read)
    /\ \A i \in 1 .. Len(read) : window.from <= read[i] /\ read[i] < window.to

\* What was chosen is one of the results of downsampleSamples.
RowsInv ==
    /\ pc \in {"start", "query", "downsample"} => rows = <<>>
    /\ Thinned => rows \in Downsample(read, Points)

\* The buffer is filled only when the file is there; what is on the disk is in
\* step with the rows chosen, and files are touched only when there are some.
FileInv ==
    /\ pc \in {"start", "query", "downsample", "create"} => buffer = <<>>
    /\ CSVIsPrefix
    /\ OldFilesKept

IInv == TypeInv /\ WindowInv /\ ReadInv /\ RowsInv /\ FileInv

-------------------------------------------------------------------------------
(* Every step keeps the invariant. *)

LEMMA InitInv == Init => IInv
<1> SUFFICES ASSUME Init PROVE IInv
  OBVIOUS
<1>1. TablesTypeOK
  BY SampleRowType DEF Init, TablesTypeOK
<1>2. TypeInv
  <2>1. {read, rows, pending, buffer, csv} \subseteq Seq(Buckets)
    BY EmptySeq DEF Init
  <2>2. Len(buffer) <= BufferRows
    BY WidthAssumption DEF Init, WidthAssumption
  <2>3. inserts \in 0 .. MaxInserts
    BY BoundAssumption DEF Init, BoundAssumption
  <2>4. opts \in ExportOptions /\ window \in [from : Int, to : Int]
    BY DEF Init
  <2>5. /\ pc = "start" /\ csvTouched = FALSE /\ png = "old" /\ result = "none"
    BY DEF Init
  <2> QED
    BY <1>1, <2>1, <2>2, <2>3, <2>4, <2>5 DEF TypeInv, TypeOK
<1>3. WindowInv /\ ReadInv /\ RowsInv
  BY DEF Init, WindowInv, Windowed, Thinned, ReadInv, Ascends, RowsInv
<1>4. FileInv
  BY DEF Init, FileInv, CSVIsPrefix, OldFilesKept
<1> QED
  BY <1>2, <1>3, <1>4 DEF IInv

\* A return changes nothing else.
LEMMA ReturnKeeps ==
    ASSUME IInv, pc' = "done", result' \in {"ok", "error", "panic"},
           UNCHANGED <<tables, opts, window, read, rows, csvWriter, files, inserts>>
    PROVE  IInv'
<1>1. TypeInv'
  BY DEF IInv, TypeInv, TypeOK, TablesTypeOK, tables, csvWriter, files
<1>2. WindowInv' /\ ReadInv' /\ RowsInv'
  BY DEF IInv, WindowInv, Windowed, Thinned, ReadInv, Ascends, RowsInv
<1>3. FileInv'
  BY DEF IInv, FileInv, CSVIsPrefix, OldFilesKept, csvWriter, files
<1> QED
  BY <1>1, <1>2, <1>3 DEF IInv

\* Somebody else's sample changes only the table.
LEMMA StoreKeeps ==
    ASSUME IInv, StoreSample
    PROVE  IInv'
<1>1. TablesTypeOK'
  <2>1. PICK b \in Buckets, d \in Deviations : UpsertRateSample(b, d, 0)
    BY DEF StoreSample
  <2>2. samples' = [samples EXCEPT ![b] = SampleRow(d, 0)] /\ alerts' = alerts
    BY <2>1 DEF UpsertRateSample
  <2> QED
    BY <2>2, SampleRowType DEF IInv, TypeInv, TypeOK, TablesTypeOK
<1>2. inserts' \in 0 .. MaxInserts
  BY BoundAssumption DEF StoreSample, IInv, TypeInv, TypeOK, BoundAssumption
<1>3. UNCHANGED <<pc, opts, window, read, rows, csvWriter, files, result>>
  BY DEF StoreSample
<1>4. TypeInv'
  BY <1>1, <1>2, <1>3 DEF IInv, TypeInv, TypeOK, csvWriter, files
<1>5. WindowInv' /\ ReadInv' /\ RowsInv'
  BY <1>3 DEF IInv, WindowInv, Windowed, Thinned, Points, ReadInv, Ascends, RowsInv
<1>6. FileInv'
  BY <1>3 DEF IInv, FileInv, CSVIsPrefix, OldFilesKept, csvWriter, files
<1> QED
  BY <1>4, <1>5, <1>6 DEF IInv

\* What IInv says of the steps before anything is written.
LEMMA ChoosingKeeps ==
    ASSUME IInv, ComputeWindow \/ Query \/ Thin
    PROVE  IInv'
<1> USE DEF Return, Continue
<1>1. CASE ComputeWindow
  <2>1. /\ pc = "start" /\ pc' \in {"query", "done"}
        /\ result' \in {"error", result}
        /\ UNCHANGED <<tables, opts, read, rows, csvWriter, files, inserts>>
    BY <1>1 DEF ComputeWindow
  <2>2. PICK now \in Times : window' = Window(opts, now)
    BY <1>1 DEF ComputeWindow
  <2>3. /\ window' \in [from : Int, to : Int]
        /\ opts.from = NotGiven => window'.from = window'.to + Wrap(-(Points * Interval))
    BY <2>2, WindowType DEF IInv, TypeInv, Points
  <2>4. TypeInv'
    BY <2>1, <2>3 DEF IInv, TypeInv, TypeOK, TablesTypeOK, tables, csvWriter, files
  <2>5. WindowInv'
    BY <2>1, <2>3 DEF WindowInv, Points
  <2>6. read = <<>> /\ rows = <<>> /\ buffer = <<>>
    BY <2>1 DEF IInv, ReadInv, RowsInv, FileInv
  <2>7. ReadInv' /\ RowsInv'
    BY <2>1, <2>6 DEF ReadInv, Ascends, RowsInv, Thinned
  <2>8. FileInv'
    BY <2>1, <2>6 DEF IInv, FileInv, CSVIsPrefix, OldFilesKept, csvWriter, files
  <2> QED
    BY <2>4, <2>5, <2>7, <2>8 DEF IInv
<1>2. CASE Query
  <2> DEFINE found == ListSamplesBetween(window)
  <2>1. /\ pc = "query" /\ read' = found
        /\ \/ pc' = "done" /\ result' = "ok"
           \/ pc' = "downsample" /\ result' = result /\ found # <<>>
        /\ UNCHANGED <<tables, opts, window, rows, csvWriter, files, inserts>>
    BY <1>2 DEF Query, Empty
  <2>2. /\ found \in Seq(Buckets) /\ Ascends(found)
        /\ \A i \in 1 .. Len(found) : window.from <= found[i] /\ found[i] < window.to
    BY FoundRows DEF IInv, TypeInv, TypeOK
  <2> HIDE DEF found
  <2>3. TypeInv'
    BY <2>1, <2>2 DEF IInv, TypeInv, TypeOK, TablesTypeOK, tables, csvWriter, files
  <2>4. WindowInv'
    BY <2>1 DEF IInv, WindowInv, Windowed, Thinned, Points
  <2>5. ReadInv'
    BY <2>1, <2>2 DEF ReadInv, Ascends, Thinned
  <2>6. RowsInv' /\ FileInv'
    BY <2>1 DEF IInv, RowsInv, Thinned, FileInv, CSVIsPrefix, OldFilesKept, csvWriter, files
  <2> QED
    BY <2>3, <2>4, <2>5, <2>6 DEF IInv
<1>3. CASE Thin
  <2>1. /\ pc = "downsample" /\ pc' \in {"create", "chart"} /\ result' = result
        /\ rows' \in Downsample(read, Points)
        /\ UNCHANGED <<tables, opts, window, read, csvWriter, files, inserts>>
    BY <1>3 DEF Thin, Points
  <2>2. /\ Points \in Nat \ {0} /\ read \in Seq(Buckets) /\ read # <<>>
        /\ Buckets \in SUBSET Int
    BY <2>1, PointsType, BucketsAssumption
    DEF IInv, TypeInv, TypeOK, ReadInv, Points, BucketsAssumption
  <2>3. rows' \in Seq(Buckets) /\ rows' # <<>>
    BY <2>1, <2>2, DownsampleType
  <2>4. TypeInv'
    BY <2>1, <2>3 DEF IInv, TypeInv, TypeOK, TablesTypeOK, tables, csvWriter, files
  <2>5. WindowInv' /\ ReadInv'
    BY <2>1 DEF IInv, WindowInv, Windowed, Thinned, Points, ReadInv, Ascends
  <2>6. RowsInv'
    BY <2>1 DEF RowsInv, Thinned, Points
  <2>7. rows = <<>> /\ ~csvTouched /\ buffer = <<>>
    BY <2>1 DEF IInv, RowsInv, FileInv, OldFilesKept
  <2>8. FileInv'
    BY <2>1, <2>3, <2>7 DEF FileInv, CSVIsPrefix, OldFilesKept, csvWriter, files
  <2> QED
    BY <2>4, <2>5, <2>6, <2>8 DEF IInv
<1> QED
  BY <1>1, <1>2, <1>3

\* What is on the disk and in the buffer stays in step with the rows chosen.
LEMMA WritingKeeps ==
    ASSUME IInv, Create \/ WriteRow \/ FinishCSV \/ Chart \/ WriteRowFails
    PROVE  IInv'
<1> USE DEF Return, Continue
<1>1. /\ {rows, pending, buffer, csv} \subseteq Seq(Buckets)
      /\ pc = "write" => csv \o buffer \o pending = rows
      /\ csvTouched => IsPrefix(csv, rows)
  BY DEF IInv, TypeInv, TypeOK, FileInv, CSVIsPrefix
<1>2. UNCHANGED <<tables, opts, window, read, rows, inserts>>
  BY DEF Create, WriteRow, FinishCSV, Chart, WriteRowFails
<1>3. /\ Thinned /\ pc' \in {"create", "write", "chart", "done"}
      /\ result' \in {"ok", "error", result}
      /\ pc' = "create" => FALSE
  BY DEF Create, WriteRow, FinishCSV, Chart, WriteRowFails, Thinned
<1>4. WindowInv' /\ ReadInv' /\ RowsInv'
  BY <1>2, <1>3 DEF IInv, WindowInv, Windowed, Thinned, Points, ReadInv, Ascends, RowsInv
<1>5. rows # <<>>
  <2>1. rows \in Downsample(read, Points) /\ read # <<>>
    BY <1>3 DEF IInv, RowsInv, ReadInv
  <2>2. Points \in Nat \ {0} /\ read \in Seq(Buckets) /\ Buckets \in SUBSET Int
    BY PointsType, BucketsAssumption
    DEF IInv, TypeInv, TypeOK, Points, BucketsAssumption
  <2> QED
    BY <2>1, <2>2, DownsampleType
<1>6. SUFFICES /\ {pending', buffer', csv'} \subseteq Seq(Buckets)
               /\ Len(buffer') <= BufferRows
               /\ csvTouched' \in BOOLEAN /\ png' \in {"old", "partial", "complete"}
               /\ pc' = "write" => csv' \o buffer' \o pending' = rows
               /\ csvTouched' => IsPrefix(csv', rows)
  <2>1. TypeInv'
    BY <1>2, <1>3, <1>6 DEF IInv, TypeInv, TypeOK, TablesTypeOK, tables
  <2>2. FileInv'
    BY <1>2, <1>3, <1>5, <1>6 DEF FileInv, CSVIsPrefix, OldFilesKept
  <2> QED
    BY <1>4, <2>1, <2>2 DEF IInv
<1>7. Len(buffer) <= BufferRows /\ csvTouched \in BOOLEAN /\ png \in {"old", "partial", "complete"}
  BY DEF IInv, TypeInv, TypeOK
<1>8. BufferRows \in Nat \ {0} /\ Len(buffer) \in Nat /\ Len(<<>>) = 0
  BY <1>1, WidthAssumption, LenProperties DEF WidthAssumption
<1>9. /\ <<>> \in Seq(Buckets)
      /\ \A s \in Seq(Buckets) : <<>> \o s = s /\ s \o <<>> = s
  BY EmptySeq, ConcatEmptySeq
<1>10. CASE Create
  <2>1. /\ csv' = <<>> /\ csvTouched' = TRUE /\ pending' = rows /\ buffer' = buffer
        /\ png' = png /\ pc = "create"
    BY <1>10 DEF Create
  <2>2. buffer = <<>>
    BY <2>1 DEF IInv, FileInv
  <2>3. csv' \o buffer' \o pending' = rows
    BY <1>1, <1>9, <2>1, <2>2
  <2>4. IsPrefix(csv', rows)
    <3>1. IsPrefix(<<>>, <<>> \o rows)
      BY <1>1, <1>9, PrefixOfConcat
    <3> QED
      BY <1>1, <1>9, <2>1, <3>1
  <2> QED
    BY <1>1, <1>7, <1>8, <1>9, <2>1, <2>2, <2>3, <2>4
<1>11. CASE WriteRow
  <2>1. /\ pc = "write" /\ pending # <<>> /\ pending' = Tail(pending)
        /\ csvTouched' = csvTouched /\ png' = png
    BY <1>11 DEF WriteRow
  <2>2. /\ <<Head(pending)>> \in Seq(Buckets) /\ Append(buffer, Head(pending)) \in Seq(Buckets)
        /\ Tail(pending) \in Seq(Buckets) /\ Head(pending) \in Buckets
        /\ (csv \o buffer) \o <<Head(pending)>> \o Tail(pending) = rows
        /\ csv \o Append(buffer, Head(pending)) \o Tail(pending) = rows
    <3>1. /\ pending \in Seq(Buckets) /\ buffer \in Seq(Buckets) /\ csv \in Seq(Buckets)
          /\ csv \o buffer \o pending = rows
      BY <1>1, <2>1
    <3>2. Head(pending) \in Buckets
      BY <2>1, <3>1, HeadTailProperties
    <3>3. Moved(Buckets, csv, buffer, pending)
      BY <2>1, <3>1, RowMoves
    <3> QED
      BY <3>1, <3>2, <3>3 DEF Moved
  <2>3. csv \o buffer \in Seq(Buckets) /\ IsPrefix(csv \o buffer, rows)
    BY <1>1, <2>1, BufferWritten
  <2>4. CASE BufferFull
    <3>1. buffer' = <<Head(pending)>> /\ csv' = csv \o buffer
      BY <1>11, <2>4 DEF WriteRow, FlushOk
    <3>2. Len(buffer') = 1
      BY <3>1
    <3> QED
      BY <1>7, <1>8, <2>1, <2>2, <2>3, <3>1, <3>2
  <2>5. CASE ~BufferFull
    <3>1. buffer' = Append(buffer, Head(pending)) /\ csv' = csv
      BY <1>11, <2>5 DEF WriteRow
    <3>2. Len(buffer') = Len(buffer) + 1 /\ Len(buffer) < BufferRows
      <4>1. Len(buffer') = Len(buffer) + 1
        BY <1>1, <2>2, <3>1, AppendProperties
      <4> QED
        BY <1>8, <2>5, <4>1 DEF BufferFull
    <3>3. Len(buffer') <= BufferRows
      BY <1>8, <3>2
    <3> QED
      BY <1>1, <1>7, <2>1, <2>2, <3>1, <3>3
  <2> QED
    BY <2>4, <2>5
<1>12. ASSUME pc = "write", FlushOk \/ FlushFails
       PROVE  csv' \in Seq(Buckets) /\ IsPrefix(csv', rows)
  <2>1. CASE FlushOk
    BY <1>1, <1>12, <2>1, BufferWritten DEF FlushOk
  <2>2. CASE FlushFails
    <3>1. PICK n \in 0 .. Len(buffer) - 1 : csv' = csv \o SubSeq(buffer, 1, n)
      BY <2>2 DEF FlushFails
    <3>2. n \in 0 .. Len(buffer)
      BY <1>8
    <3> QED
      BY <1>1, <1>12, <3>1, <3>2, PartWritten
  <2> QED
    BY <1>12, <2>1, <2>2
<1>13. CASE FinishCSV
  <2>1. /\ pc = "write" /\ pc' # "write" /\ (FlushOk \/ FlushFails)
        /\ buffer' = <<>> /\ UNCHANGED <<pending, csvTouched, png>>
    BY <1>13 DEF FinishCSV
  <2> QED
    BY <1>1, <1>7, <1>8, <1>9, <1>12, <2>1
<1>14. CASE WriteRowFails
  <2>1. /\ pc = "write" /\ pc' # "write" /\ FlushFails
        /\ UNCHANGED <<pending, buffer, csvTouched, png>>
    BY <1>14 DEF WriteRowFails, csvWriter
  <2> QED
    BY <1>1, <1>7, <1>12, <2>1
<1>15. CASE Chart
  <2>1. /\ pc' # "write" /\ UNCHANGED <<pending, buffer, csv, csvTouched>>
        /\ png' \in {"complete", "partial"}
    BY <1>15 DEF Chart, csvWriter
  <2> QED
    BY <1>1, <1>7, <2>1
<1> QED
  BY <1>10, <1>11, <1>13, <1>14, <1>15

LEMMA InvStep == IInv /\ [Next]_vars => IInv'
<1> SUFFICES ASSUME IInv, [Next]_vars PROVE IInv'
  OBVIOUS
<1>1. CASE Reject \/ QueryFails \/ ThinPanics \/ CreateFails \/ ChartNotCreated
  BY <1>1, ReturnKeeps DEF Reject, QueryFails, ThinPanics, CreateFails, ChartNotCreated, Return
<1>2. CASE ComputeWindow \/ Query \/ Thin
  BY <1>2, ChoosingKeeps
<1>3. CASE Create \/ WriteRow \/ FinishCSV \/ Chart \/ WriteRowFails
  BY <1>3, WritingKeeps
<1>4. CASE StoreSample
  BY <1>4, StoreKeeps
<1>5. CASE UNCHANGED vars
  <2>1. TypeInv'
    BY <1>5 DEF vars, IInv, TypeInv, TypeOK, TablesTypeOK, tables, csvWriter, files
  <2>2. WindowInv' /\ ReadInv' /\ RowsInv'
    BY <1>5 DEF vars, IInv, WindowInv, Windowed, Thinned, Points, ReadInv, Ascends, RowsInv
  <2>3. FileInv'
    BY <1>5 DEF vars, IInv, FileInv, CSVIsPrefix, OldFilesKept, csvWriter, files
  <2> QED
    BY <2>1, <2>2, <2>3 DEF IInv
<1> QED
  BY <1>1, <1>2, <1>3, <1>4, <1>5 DEF Next

LEMMA Invariance == Spec => []IInv
BY InitInv, InvStep, PTL DEF Spec

-------------------------------------------------------------------------------
(* Theorems. *)

\* The export keeps to its types; in particular the CSV writer's buffer never
\* holds more than it is made for.
THEOREM ExportTyping == Spec => []TypeOK
<1>1. IInv => TypeOK
  BY DEF IInv, TypeInv
<1> QED
  BY <1>1, Invariance, PTL

\* What is in the CSV file is a prefix of the rows chosen, at any time and
\* whichever write fails.
THEOREM FileInOrder == Spec => []CSVIsPrefix
<1>1. IInv => CSVIsPrefix
  BY DEF IInv, FileInv
<1> QED
  BY <1>1, Invariance, PTL

\* The files of an earlier export are left alone until there is a row to
\* write.
THEOREM EarlierFilesKept == Spec => []OldFilesKept
<1>1. IInv => OldFilesKept
  BY DEF IInv, FileInv
<1> QED
  BY <1>1, Invariance, PTL

\* What is known of what was read and asked for.
LEMMA Choosing ==
    ASSUME IInv, Thinned
    PROVE  /\ read \in Seq(Buckets) /\ read \in Seq(Int) /\ Ascends(read)
           /\ \A i \in 1 .. Len(read) : window.from <= read[i] /\ read[i] < window.to
           /\ Points \in Nat \ {0} /\ rows \in Downsample(read, Points)
           /\ Buckets \in SUBSET Int
<1>1. read \in Seq(Buckets) /\ Buckets \in SUBSET Int
  BY BucketsAssumption DEF IInv, TypeInv, TypeOK, BucketsAssumption
<1>2. read \in Seq(Int)
  BY <1>1, SeqMonotonic
<1>3. Points \in Nat \ {0}
  BY PointsType DEF IInv, TypeInv, Points
<1> QED
  BY <1>1, <1>2, <1>3 DEF IInv, ReadInv, RowsInv

\* However many rows there are and however many points are wanted, the rows
\* exported are in the window and in order, and span it.
THEOREM WindowIsSpanned == Spec => []ExportSpansWindow
<1>1. IInv => ExportSpansWindow
  <2> SUFFICES ASSUME IInv, Thinned PROVE ExportSpansWindow
    BY DEF ExportSpansWindow
  <2>1. /\ Len(rows) <= Points
        /\ \A i \in 1 .. Len(rows) : \E k \in 1 .. Len(read) : rows[i] = read[k]
    BY Choosing, DownsampleType
  <2>2. /\ \A i \in 1 .. Len(rows) : i > 1 => rows[i - 1] < rows[i]
        /\ Len(rows) > 1 => rows[1] = read[1] /\ Last(rows) = Last(read)
    BY Choosing, DownsampleSpans
  <2>3. \A i \in 1 .. Len(rows) : window.from <= rows[i] /\ rows[i] < window.to
    BY <2>1, Choosing
  <2> QED
    BY <2>1, <2>2, <2>3 DEF ExportSpansWindow, Points
<1> QED
  BY <1>1, Invariance, PTL

\* And they are as evenly spread as whole rows can be.
THEOREM RowsAreEven == Spec => []ExportIsEven
<1>1. IInv => ExportIsEven
  <2> SUFFICES ASSUME IInv, Thinned,
                      NEW i \in 1 .. Len(rows) - 1, NEW j \in 1 .. Len(rows) - 1
               PROVE  Cardinality(Skipped(read, rows, i))
                        <= Cardinality(Skipped(read, rows, j)) + 1
    BY DEF ExportIsEven, Skipped
  <2> QED
    BY Choosing, DownsampleEven
<1> QED
  BY <1>1, Invariance, PTL

\* If every sample's bucket is a multiple of the interval, as it is while
\* scheduler.align_to_bucket is set and the interval is not changed, nothing is
\* thinned out of a default window.
THEOREM DefaultIsWhole ==
    ASSUME \A b \in Buckets : b % Interval = 0
    PROVE  Spec => []DefaultWindowIsWhole
<1>1. IInv => DefaultWindowIsWhole
  <2> SUFFICES ASSUME IInv, Thinned, opts.from = NotGiven PROVE rows = read
    BY DEF DefaultWindowIsWhole
  <2>1. window.from = window.to + Wrap(-(Points * Interval))
    BY DEF IInv, WindowInv, Windowed
  <2>2. Points * Interval \in Nat /\ window.from \in Int /\ window.to \in Int
    BY SpanType DEF IInv, TypeInv, TypeOK, Points
  <2>3. /\ -(Points * Interval) <= Wrap(-(Points * Interval))
        /\ Wrap(-(Points * Interval)) \in Int
    BY <2>2, WrapBound
  <2>4. window.to <= window.from + Points * Interval
    BY <2>1, <2>2, <2>3
  <2>5. Len(read) <= Points
    <3> DEFINE from == window.from
               to == window.to
               n == Points
    <3>1. /\ from \in Int /\ to \in Int /\ n \in Nat /\ to <= from + n * Interval
          /\ read \in Seq(Buckets) /\ Ascends(read)
          /\ \A i \in 1 .. Len(read) : from <= read[i] /\ read[i] < to
      BY <2>2, <2>4, Choosing
    <3>2. Len(read) <= n
      <4> HIDE DEF from, to, n
      <4> QED
        BY <3>1, AlignedCount
    <3> QED
      BY <3>2
  <2> QED
    BY <2>5, Choosing DEF Downsample
<1> QED
  BY <1>1, Invariance, PTL
===============================================================================
