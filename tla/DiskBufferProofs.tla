-------------------------- MODULE DiskBufferProofs --------------------------
(***************************************************************************)
(* Proofs about DiskBuffer for every set of payloads and sizes, every      *)
(* sequence of limits and every place a statement can fail.                *)
(***************************************************************************)
EXTENDS DiskBuffer, SequenceTheorems, WellFoundedInduction, TLAPS

(* The inductive invariant. A process without a handle has no counters to  *)
(* be wrong about; when Trim has work to do, the counters cover the table. *)
BufferTypes ==
    /\ schema \in BOOLEAN /\ alive \in BOOLEAN /\ db \in BOOLEAN
    /\ exact \in BOOLEAN
    /\ table \in Seq(Batch) /\ Len(table) <= MaxRows
    /\ synced \in Seq(Batch) /\ Len(synced) <= MaxRows
    /\ rows \in Nat /\ bytes \in 0 .. (Wrap - 1)
    /\ maxBytes \in Limits

HandleInv == ~alive => ~db

ExactInv == exact => rows = Len(table) /\ bytes = TotalBytes(table)

CoveredInv ==
    bytes > maxBytes => rows = Len(table) /\ TotalBytes(table) <= bytes

BufferInv == BufferTypes /\ HandleInv /\ ExactInv /\ CoveredInv

-----------------------------------------------------------------------------
(* The sum of the sizes of a sequence of payloads.                         *)

LEMMA LeastExists ==
    ASSUME NEW T, T \subseteq Nat, T # {} PROVE \E x \in T : \A y \in T : x <= y
<1> DEFINE R == OpToRel(<, Nat)
<1>1. IsWellFoundedOn(R, Nat)
  BY NatLessThanWellFounded
<1>2. \A x, y \in Nat : x < y => <<x, y>> \in R
  BY DEF OpToRel
<1> HIDE DEF R
<1>3. PICK x \in T : \A y \in T : ~(<<y, x>> \in R)
  BY <1>1, WFMin
<1>4. \A y \in T : ~(y < x)
  BY <1>2, <1>3
<1> QED BY <1>4

(* f holds the sums of the sizes of the first i payloads of t.             *)
Sums(f, t) ==
    f = [i \in 0 .. Len(t) |-> IF i = 0 THEN 0 ELSE f[i - 1] + BatchSize[t[i]]]

SumOf(t) == CHOOSE f : Sums(f, t)

LEMMA TotalIsSum == \A t : TotalBytes(t) = SumOf(t)[Len(t)]
BY DEF TotalBytes, SumOf, Sums

LEMMA SizeNat == \A b \in Batch : BatchSize[b] \in Nat
BY DiskBufferAssumption

(* Such an f exists: a shortest sequence without one would have one, that  *)
(* of the sequence without its last payload with one more sum.             *)
LEMMA SumsExist ==
    ASSUME NEW t \in Seq(Batch)
    PROVE  \E f : f \in [0 .. Len(t) -> Nat] /\ Sums(f, t)
<1> DEFINE Has(s) == \E f : f \in [0 .. Len(s) -> Nat] /\ Sums(f, s)
           Without == {n \in Nat : \E s \in Seq(Batch) : Len(s) = n /\ ~Has(s)}
<1> SUFFICES ASSUME ~Has(t) PROVE FALSE
  OBVIOUS
<1>1. Len(t) \in Without
  BY LenProperties
<1>2. PICK n \in Without : \A m \in Without : n <= m
  <2> HIDE DEF Without
  <2>1. Without \subseteq Nat
    BY DEF Without
  <2> QED BY <1>1, <2>1, LeastExists
<1>3. PICK s \in Seq(Batch) : Len(s) = n /\ ~Has(s)
  OBVIOUS
<1>4. n \in Nat
  OBVIOUS
<1>5. n # 0
  <2> SUFFICES ASSUME n = 0 PROVE FALSE
    OBVIOUS
  <2> DEFINE f == [i \in 0 .. 0 |-> 0]
  <2>1. f \in [0 .. Len(s) -> Nat] /\ Sums(f, s)
    BY <1>3 DEF Sums
  <2> QED BY <1>3, <2>1
<1> DEFINE u == SubSeq(s, 1, n - 1)
<1>6. /\ u \in Seq(Batch) /\ Len(u) = n - 1
      /\ \A i \in 1 .. n - 1 : u[i] = s[i]
  <2>1. \A i \in 1 .. n - 1 : s[i] \in Batch
    BY <1>3, <1>4, ElementOfSeq
  <2> QED BY <1>3, <1>4, <1>5, <2>1, SubSeqProperties
<1> HIDE DEF u
<1>7. Has(u)
  <2>1. n - 1 \in Nat /\ ~(n <= n - 1)
    BY <1>4, <1>5
  <2> QED BY <1>2, <1>6, <2>1
<1>8. PICK g : g \in [0 .. n - 1 -> Nat] /\ Sums(g, u)
  BY <1>6, <1>7
<1>9. BatchSize[s[n]] \in Nat
  BY <1>3, <1>4, <1>5, SizeNat, ElementOfSeq
<1>10. \A i \in 0 .. n - 1 : g[i] = IF i = 0 THEN 0 ELSE g[i - 1] + BatchSize[u[i]]
  BY <1>6, <1>8 DEF Sums
<1> DEFINE f == [i \in 0 .. n |-> IF i = n THEN g[n - 1] + BatchSize[s[n]] ELSE g[i]]
<1>11. f \in [0 .. n -> Nat]
  BY <1>4, <1>5, <1>8, <1>9
<1>12. ASSUME NEW i \in 0 .. n
       PROVE  f[i] = IF i = 0 THEN 0 ELSE f[i - 1] + BatchSize[s[i]]
  <2>1. CASE i = n
    <3>1. f[n] = g[n - 1] + BatchSize[s[n]] /\ f[n - 1] = g[n - 1]
      BY <1>4, <1>5
    <3> QED BY <1>5, <2>1, <3>1
  <2>2. CASE i # n /\ i # 0
    <3>1. i \in 1 .. n - 1 /\ i - 1 \in 0 .. n - 1 /\ i - 1 # n
      BY <1>4, <2>2
    <3>2. f[i] = g[i] /\ f[i - 1] = g[i - 1] /\ u[i] = s[i]
      BY <1>4, <1>6, <2>2, <3>1
    <3> QED BY <1>10, <2>2, <3>1, <3>2
  <2>3. CASE i # n /\ i = 0
    BY <1>4, <1>5, <1>10, <2>3
  <2> QED BY <2>1, <2>2, <2>3
<1>13. Sums(f, s)
  BY <1>3, <1>11, <1>12 DEF Sums
<1> QED BY <1>3, <1>11, <1>13

(* The sums of the model's definition.                                     *)
LEMMA SumFacts ==
    ASSUME NEW t \in Seq(Batch)
    PROVE  /\ SumOf(t) \in [0 .. Len(t) -> Nat]
           /\ SumOf(t)[0] = 0
           /\ \A i \in 1 .. Len(t) : SumOf(t)[i] = SumOf(t)[i - 1] + BatchSize[t[i]]
           /\ TotalBytes(t) = SumOf(t)[Len(t)] /\ TotalBytes(t) \in Nat
<1> DEFINE f == SumOf(t)
<1>1. Sums(f, t)
  BY SumsExist DEF SumOf
<1>2. Len(t) \in Nat
  BY LenProperties
<1> HIDE DEF f
<1>3. /\ f[0] = 0
      /\ \A i \in 1 .. Len(t) : f[i] = f[i - 1] + BatchSize[t[i]]
      /\ DOMAIN f = 0 .. Len(t)
  BY <1>1, <1>2 DEF Sums
<1>4. \A i \in 0 .. Len(t) : f[i] \in Nat
  <2> DEFINE Bad == {i \in 0 .. Len(t) : f[i] \notin Nat}
  <2> SUFFICES ASSUME Bad # {} PROVE FALSE
    OBVIOUS
  <2>1. PICK i \in Bad : \A j \in Bad : i <= j
    <3>1. Bad \subseteq Nat
      BY <1>2
    <3> HIDE DEF Bad
    <3> QED BY <3>1, LeastExists
  <2>2. i \in 1 .. Len(t) /\ i - 1 \in 0 .. Len(t) /\ ~(i <= i - 1)
    BY <1>2, <1>3
  <2>3. f[i - 1] \in Nat
    BY <2>1, <2>2
  <2>4. t[i] \in Batch
    BY <2>2, ElementOfSeq
  <2> QED BY <1>3, <2>2, <2>3, <2>4, SizeNat
<1>5. f \in [0 .. Len(t) -> Nat]
  BY <1>1, <1>3, <1>4 DEF Sums
<1> QED BY <1>2, <1>3, <1>5, TotalIsSum DEF f

(* Two sequences with a common stretch: the sums run in parallel along it. *)
LEMMA SumParallel ==
    ASSUME NEW s \in Seq(Batch), NEW t \in Seq(Batch), NEW n \in Nat, NEW k \in Nat,
           n + k <= Len(t), k <= Len(s),
           \A i \in 1 .. k : t[n + i] = s[i]
    PROVE  \A i \in 0 .. k : SumOf(t)[n + i] = SumOf(t)[n] + SumOf(s)[i]
<1> DEFINE f == SumOf(t)
           g == SumOf(s)
           Bad == {i \in 0 .. k : f[n + i] # f[n] + g[i]}
<1>1. Len(s) \in Nat /\ Len(t) \in Nat
  BY LenProperties
<1>2. /\ f \in [0 .. Len(t) -> Nat]
      /\ \A i \in 1 .. Len(t) : f[i] = f[i - 1] + BatchSize[t[i]]
  BY SumFacts
<1>3. /\ g \in [0 .. Len(s) -> Nat] /\ g[0] = 0
      /\ \A i \in 1 .. Len(s) : g[i] = g[i - 1] + BatchSize[s[i]]
  BY SumFacts
<1> HIDE DEF f, g
<1> SUFFICES ASSUME Bad # {} PROVE FALSE
  BY DEF f, g
<1>4. PICK i \in Bad : \A j \in Bad : i <= j
  <2>1. Bad \subseteq Nat
    OBVIOUS
  <2> HIDE DEF Bad
  <2> QED BY <2>1, LeastExists
<1>5. i \in 1 .. k
  <2>1. ASSUME i = 0 PROVE FALSE
    <3>1. n \in 0 .. Len(t) /\ n + i = n
      BY <1>1, <2>1
    <3>2. f[n] \in Nat /\ g[i] = 0
      BY <1>2, <1>3, <2>1, <3>1
    <3>3. f[n] = f[n] + g[i]
      BY <3>2
    <3> QED BY <1>4, <3>1, <3>3
  <2> QED BY <1>4, <2>1
<1>6. i - 1 \in 0 .. k /\ ~(i <= i - 1)
  BY <1>5
<1>7. f[n + (i - 1)] = f[n] + g[i - 1]
  BY <1>4, <1>6
<1>8. /\ n + i \in 1 .. Len(t) /\ i \in 1 .. Len(s) /\ (n + i) - 1 = n + (i - 1)
      /\ n \in 0 .. Len(t) /\ i - 1 \in 0 .. Len(s)
  BY <1>1, <1>5
<1>9. BatchSize[s[i]] \in Nat
  BY <1>8, SizeNat, ElementOfSeq
<1>10. f[n + i] = f[n + (i - 1)] + BatchSize[s[i]] /\ g[i] = g[i - 1] + BatchSize[s[i]]
  BY <1>2, <1>3, <1>5, <1>8
<1>11. f[n] \in Nat /\ g[i - 1] \in Nat
  BY <1>2, <1>3, <1>8
<1> QED BY <1>4, <1>7, <1>9, <1>10, <1>11

-----------------------------------------------------------------------------
(* What INSERT and the scans do to the sum.                                *)

LEMMA SuffixFacts ==
    ASSUME NEW t \in Seq(Batch), NEW n \in 0 .. Len(t)
    PROVE  /\ WithoutOldest(t, n) \in Seq(Batch)
           /\ Len(WithoutOldest(t, n)) = Len(t) - n
           /\ \A i \in 1 .. Len(t) - n : WithoutOldest(t, n)[i] = t[i + n]
<1>1. n + 1 \in 1 .. Len(t) + 1 /\ Len(t) \in n .. Len(t) /\ Len(t) \in Nat
  BY LenProperties
<1>2. \A i \in n + 1 .. Len(t) : t[i] \in Batch
  BY <1>1, ElementOfSeq
<1> QED BY <1>1, <1>2, SubSeqProperties DEF WithoutOldest

LEMMA PrefixFacts ==
    ASSUME NEW t \in Seq(Batch), NEW n \in 0 .. Len(t)
    PROVE  /\ Oldest(t, n) \in Seq(Batch)
           /\ Len(Oldest(t, n)) = n
           /\ \A i \in 1 .. n : Oldest(t, n)[i] = t[i]
<1>1. Len(t) \in Nat
  BY LenProperties
<1>2. \A i \in 1 .. n : t[i] \in Batch
  BY <1>1, ElementOfSeq
<1> QED BY <1>1, <1>2, SubSeqProperties DEF Oldest

(* Splitting the table splits the sum.                                     *)
LEMMA TotalSplit ==
    ASSUME NEW t \in Seq(Batch), NEW n \in 0 .. Len(t)
    PROVE  /\ TotalBytes(Oldest(t, n)) \in Nat
           /\ TotalBytes(WithoutOldest(t, n)) \in Nat
           /\ TotalBytes(t) = TotalBytes(Oldest(t, n)) + TotalBytes(WithoutOldest(t, n))
<1> DEFINE old == Oldest(t, n)
           new == WithoutOldest(t, n)
           k == Len(t) - n
<1>1. /\ old \in Seq(Batch) /\ Len(old) = n /\ \A i \in 1 .. n : old[i] = t[i]
  BY PrefixFacts
<1>2. /\ new \in Seq(Batch) /\ Len(new) = k /\ \A i \in 1 .. k : new[i] = t[i + n]
  BY SuffixFacts
<1>3. Len(t) \in Nat /\ k \in Nat /\ n \in Nat /\ n + k = Len(t)
  BY LenProperties
<1> HIDE DEF old, new, k
<1>4. TotalBytes(old) = SumOf(old)[n] /\ TotalBytes(old) \in Nat
  BY <1>1, SumFacts
<1>5. TotalBytes(new) = SumOf(new)[k] /\ TotalBytes(new) \in Nat
  BY <1>2, SumFacts
<1>6. TotalBytes(t) = SumOf(t)[Len(t)] /\ SumOf(t)[0] = 0
      /\ SumOf(t) \in [0 .. Len(t) -> Nat]
  BY SumFacts
<1>7. SumOf(t)[n] = SumOf(old)[n]
  <2>1. \A i \in 1 .. n : t[0 + i] = old[i]
    BY <1>1
  <2>2. 0 \in Nat /\ 0 + n <= Len(t) /\ n <= Len(old)
    BY <1>1, <1>3
  <2>3. \A i \in 0 .. n : SumOf(t)[0 + i] = SumOf(t)[0] + SumOf(old)[i]
    BY ONLY <1>1, <1>3, <2>1, <2>2, SumParallel
  <2>4. SumOf(t)[0 + n] = SumOf(t)[0] + SumOf(old)[n] /\ 0 + n = n
    BY <1>3, <2>3
  <2> QED BY <1>4, <1>6, <2>4
<1>8. SumOf(t)[n + k] = SumOf(t)[n] + SumOf(new)[k]
  <2>1. \A i \in 1 .. k : t[n + i] = new[i]
    BY <1>2, <1>3
  <2>2. n + k <= Len(t) /\ k <= Len(new)
    BY <1>2, <1>3
  <2>3. \A i \in 0 .. k : SumOf(t)[n + i] = SumOf(t)[n] + SumOf(new)[i]
    BY ONLY <1>2, <1>3, <2>1, <2>2, SumParallel
  <2> QED BY <1>3, <2>3
<1>9. TotalBytes(t) = TotalBytes(old) + TotalBytes(new)
  BY <1>3, <1>4, <1>5, <1>6, <1>7, <1>8
<1> QED BY <1>4, <1>5, <1>9 DEF old, new

LEMMA TotalEmpty == TotalBytes(<< >>) = 0
<1>1. << >> \in Seq(Batch) /\ Len(<< >>) = 0
  BY EmptySeq
<1> QED BY <1>1, SumFacts

LEMMA TotalAppend ==
    ASSUME NEW t \in Seq(Batch), NEW b \in Batch
    PROVE  TotalBytes(Append(t, b)) = TotalBytes(t) + BatchSize[b]
<1> DEFINE s == Append(t, b)
           k == Len(t)
<1>1. /\ s \in Seq(Batch) /\ Len(s) = k + 1 /\ s[k + 1] = b
      /\ \A i \in 1 .. k : s[i] = t[i]
  BY AppendProperties
<1>2. k \in Nat
  BY LenProperties
<1>3. /\ SumOf(s) \in [0 .. Len(s) -> Nat] /\ SumOf(s)[0] = 0
      /\ \A i \in 1 .. Len(s) : SumOf(s)[i] = SumOf(s)[i - 1] + BatchSize[s[i]]
      /\ TotalBytes(s) = SumOf(s)[Len(s)]
  BY <1>1, SumFacts
<1>4. TotalBytes(t) = SumOf(t)[k] /\ TotalBytes(t) \in Nat
  BY SumFacts
<1> HIDE DEF s
<1>5. TotalBytes(s) = SumOf(s)[k] + BatchSize[b]
  <2>1. k + 1 \in 1 .. Len(s) /\ (k + 1) - 1 = k
    BY <1>1, <1>2
  <2> QED BY <1>1, <1>3, <2>1
<1>6. SumOf(s)[k] = SumOf(t)[k]
  <2>1. \A i \in 1 .. k : s[0 + i] = t[i]
    BY <1>1
  <2>2. 0 \in Nat /\ 0 + k <= Len(s) /\ k <= Len(t)
    BY <1>1, <1>2
  <2> HIDE DEF k
  <2>3. \A i \in 0 .. k : SumOf(s)[0 + i] = SumOf(s)[0] + SumOf(t)[i]
    BY ONLY <1>1, <1>2, <2>1, <2>2, SumParallel, t \in Seq(Batch)
  <2>4. SumOf(s)[0 + k] = SumOf(s)[0] + SumOf(t)[k] /\ 0 + k = k
    BY <1>2, <2>3
  <2> QED BY <1>3, <1>4, <2>4
<1> QED BY <1>4, <1>5, <1>6 DEF s

(* A table within its bound holds fewer than Wrap bytes.                   *)
LEMMA TotalBound ==
    ASSUME NEW t \in Seq(Batch), Len(t) <= MaxRows
    PROVE  TotalBytes(t) \in 0 .. (Wrap - 1)
<1>1. Len(t) \in 0 .. MaxRows
  BY LenProperties, DiskBufferAssumption
<1>2. t \in [1 .. Len(t) -> Batch]
  BY LenProperties, ElementOfSeq
<1>3. TotalBytes(t) < Wrap
  BY <1>1, <1>2, DiskBufferAssumption
<1>4. TotalBytes(t) \in Nat /\ Wrap \in Nat
  BY SumFacts, DiskBufferAssumption
<1> QED BY <1>3, <1>4

-----------------------------------------------------------------------------
(* Trim. Without wrap-around the unsigned subtraction is the difference.   *)
LEMMA WrappedFacts ==
    ASSUME NEW a \in 0 .. (Wrap - 1), NEW b \in 0 .. a
    PROVE  Wrapped(a, b) = a - b
<1>1. Wrap \in Nat /\ Wrap > 0 /\ a - b \in 0 .. (Wrap - 1)
  BY DiskBufferAssumption
<1>2. \A x \in 0 .. (Wrap - 1) : (x + Wrap) % Wrap = x
  BY <1>1, Z3
<1> QED BY <1>1, <1>2 DEF Wrapped

LEMMA ScanFacts ==
    ASSUME BufferTypes
    PROVE  /\ ScanLength \in 0 .. Len(table)
           /\ bytes <= maxBytes => ScanLength = 0
<1>1. Len(table) \in Nat
  BY LenProperties DEF BufferTypes
<1>2. CASE bytes <= maxBytes
  BY <1>1, <1>2 DEF ScanLength
<1>3. CASE ~(bytes <= maxBytes)
  <2> DEFINE Ends == {n \in 0 .. Len(table) : n = Len(table) \/ Kept(n) <= maxBytes}
  <2>1. Len(table) \in Ends /\ Ends \subseteq Nat
    BY <1>1
  <2>2. PICK n \in Ends : \A m \in Ends : n <= m
    <3> HIDE DEF Ends
    <3> QED BY <2>1, LeastExists
  <2>3. ASSUME NEW m \in 0 .. n - 1 PROVE Kept(m) > maxBytes
    <3>1. m \in 0 .. Len(table) /\ m # Len(table) /\ ~(n <= m)
      BY <1>1
    <3>2. ~(Kept(m) <= maxBytes)
      BY <2>2, <3>1
    <3>3. Kept(m) \in Int /\ maxBytes \in Int
      <4>1. Kept(m) = (bytes - TotalBytes(Oldest(table, m)) + Wrap) % Wrap
        BY DEF Kept, Wrapped
      <4>2. bytes - TotalBytes(Oldest(table, m)) + Wrap \in Int
        <5>1. TotalBytes(Oldest(table, m)) \in Nat
          BY <3>1, TotalSplit DEF BufferTypes
        <5>2. bytes \in Nat /\ Wrap \in Nat
          BY DiskBufferAssumption DEF BufferTypes
        <5> QED BY <5>1, <5>2
      <4> QED BY <4>1, <4>2, DiskBufferAssumption DEF BufferTypes
    <3> QED BY <3>2, <3>3
  <2>4. ScanStops(n)
    BY <2>3 DEF ScanStops
  <2> QED BY <1>3, <2>4 DEF ScanLength
<1> QED BY <1>2, <1>3

(* What is left after Trim: a suffix of the table, an exact or covering    *)
(* count, and rows are only removed from an overfull table.                *)
LEMMA TrimFacts ==
    ASSUME BufferInv, NEW t \in TrimOutcomes
    PROVE  \E n \in 0 .. Len(table) :
             /\ t.table = WithoutOldest(table, n)
             /\ t.table \in Seq(Batch) /\ Len(t.table) = Len(table) - n
             /\ n > 0 => bytes > maxBytes
             /\ t.rows \in Nat /\ t.bytes \in 0 .. bytes
             /\ exact => t.rows = Len(t.table) /\ t.bytes = TotalBytes(t.table)
             /\ t.bytes > maxBytes =>
                  t.rows = Len(t.table) /\ TotalBytes(t.table) <= t.bytes
<1>1. /\ table \in Seq(Batch) /\ Len(table) \in Nat
      /\ rows \in Nat /\ bytes \in Nat /\ bytes \in 0 .. (Wrap - 1)
      /\ maxBytes \in Nat
  BY LenProperties, DiskBufferAssumption DEF BufferInv, BufferTypes
<1>2. /\ ScanLength \in 0 .. Len(table)
      /\ bytes <= maxBytes => ScanLength = 0
  BY ScanFacts DEF BufferInv
<1>3. PICK n \in 0 .. ScanLength : t = AfterTrim(n)
  BY DEF TrimOutcomes
<1>4. n \in 0 .. Len(table) /\ (n > 0 => bytes > maxBytes)
  BY <1>1, <1>2
<1>5. n <= rows
  BY <1>1, <1>4 DEF BufferInv, CoveredInv
<1> DEFINE old == TotalBytes(Oldest(table, n))
           new == TotalBytes(WithoutOldest(table, n))
<1>6. old \in Nat /\ new \in Nat /\ TotalBytes(table) = old + new
  BY <1>1, <1>4, TotalSplit
<1>7. /\ WithoutOldest(table, n) \in Seq(Batch)
      /\ Len(WithoutOldest(table, n)) = Len(table) - n
  BY <1>1, <1>4, SuffixFacts
<1>8. old <= bytes
  <2>1. CASE n = 0
    <3>1. Oldest(table, 0) \in Seq(Batch) /\ Len(Oldest(table, 0)) = 0
      BY <1>1, <1>4, <2>1, PrefixFacts
    <3>2. TotalBytes(Oldest(table, 0)) = 0
      BY <3>1, SumFacts
    <3> QED BY <1>1, <2>1, <3>2
  <2>2. CASE n > 0
    <3>1. TotalBytes(table) <= bytes
      BY <1>4, <2>2 DEF BufferInv, CoveredInv
    <3> HIDE DEF old, new
    <3> QED BY <1>1, <1>6, <3>1
  <2> QED BY <1>4, <2>1, <2>2
<1>9. Kept(n) = bytes - old
  <2>1. old \in 0 .. bytes
    BY <1>1, <1>6, <1>8
  <2> QED BY <1>1, <2>1, WrappedFacts DEF Kept
<1>10. Saturated(rows, n) = rows - n
  BY <1>1, <1>4, <1>5 DEF Saturated
<1>11. /\ t.table = WithoutOldest(table, n) /\ t.rows = rows - n
       /\ t.bytes = bytes - old
  <2>1. (IF n > rows THEN rows ELSE n) = n
    BY <1>1, <1>4, <1>5
  <2> QED BY <1>3, <1>9, <1>10, <2>1 DEF AfterTrim
<1> HIDE DEF old, new
<1>12. t.rows \in Nat /\ t.bytes \in 0 .. bytes
  BY <1>1, <1>4, <1>5, <1>6, <1>8, <1>11
<1>13. TotalBytes(t.table) = new /\ Len(t.table) = Len(table) - n
  BY <1>7, <1>11 DEF new
<1>14. exact => t.rows = Len(t.table) /\ t.bytes = TotalBytes(t.table)
  <2> SUFFICES ASSUME exact PROVE t.rows = Len(t.table) /\ t.bytes = new
    BY <1>13
  <2>1. rows = Len(table) /\ bytes = TotalBytes(table)
    BY DEF BufferInv, ExactInv
  <2> QED BY <1>1, <1>6, <1>11, <1>13, <2>1
<1>15. ASSUME t.bytes > maxBytes
       PROVE  t.rows = Len(t.table) /\ TotalBytes(t.table) <= t.bytes
  <2>1. bytes > maxBytes
    BY <1>1, <1>12, <1>15
  <2>2. rows = Len(table) /\ TotalBytes(table) <= bytes
    BY <2>1 DEF BufferInv, CoveredInv
  <2> QED BY <1>1, <1>6, <1>11, <1>13, <2>2
<1> QED BY <1>4, <1>7, <1>11, <1>12, <1>14, <1>15

-----------------------------------------------------------------------------
(* Pop. The bytes of a longer prefix are no fewer.                         *)
LEMMA TotalMonotone ==
    ASSUME NEW t \in Seq(Batch), NEW n \in 0 .. Len(t), NEW m \in 0 .. n
    PROVE  TotalBytes(WithoutOldest(t, n)) <= TotalBytes(WithoutOldest(t, m))
<1> DEFINE s == WithoutOldest(t, m)
           k == n - m
<1>1. Len(t) \in Nat /\ m \in 0 .. Len(t) /\ k \in Nat
  BY LenProperties
<1>2. s \in Seq(Batch) /\ Len(s) = Len(t) - m
  BY <1>1, SuffixFacts
<1>3. k \in 0 .. Len(s)
  BY <1>1, <1>2
<1>4. WithoutOldest(s, k) = WithoutOldest(t, n)
  <2> DEFINE w == WithoutOldest(s, k)
             v == WithoutOldest(t, n)
  <2>1. /\ w \in Seq(Batch) /\ Len(w) = Len(s) - k
        /\ \A i \in 1 .. Len(s) - k : w[i] = s[i + k]
    BY <1>2, <1>3, SuffixFacts
  <2>2. /\ v \in Seq(Batch) /\ Len(v) = Len(t) - n
        /\ \A i \in 1 .. Len(t) - n : v[i] = t[i + n]
    BY SuffixFacts
  <2>3. \A i \in 1 .. Len(t) - m : s[i] = t[i + m]
    BY <1>1, SuffixFacts
  <2> HIDE DEF w, v, s
  <2>4. Len(w) = Len(v)
    BY <1>1, <1>2, <2>1, <2>2
  <2>5. ASSUME NEW i \in 1 .. Len(w) PROVE w[i] = v[i]
    <3>1. /\ i \in 1 .. Len(s) - k /\ i \in 1 .. Len(t) - n
          /\ i + k \in 1 .. Len(t) - m /\ (i + k) + m = i + n
      BY <1>1, <1>2, <2>1
    <3> QED BY <2>1, <2>2, <2>3, <3>1
  <2>6. w = v
    BY <2>1, <2>2, <2>4, <2>5, SeqEqual
  <2> QED BY <2>6 DEF w, v
<1>5. /\ TotalBytes(Oldest(s, k)) \in Nat /\ TotalBytes(WithoutOldest(s, k)) \in Nat
      /\ TotalBytes(s) = TotalBytes(Oldest(s, k)) + TotalBytes(WithoutOldest(s, k))
  BY <1>2, <1>3, TotalSplit
<1> QED BY <1>4, <1>5

LEMMA PopFacts ==
    ASSUME BufferInv, NEW count \in Nat \ {0}, Pop(count)
    PROVE  \E n \in 0 .. Len(table) :
             /\ table' = WithoutOldest(table, n)
             /\ table' \in Seq(Batch) /\ Len(table') = Len(table) - n
             /\ n = 0 => Len(table) = 0 /\ bytes' = bytes
             /\ rows' \in Nat /\ bytes' \in 0 .. bytes
             /\ exact' \in BOOLEAN
             /\ exact' => rows' = Len(table') /\ bytes' = TotalBytes(table')
             /\ bytes' > maxBytes =>
                  rows' = Len(table') /\ TotalBytes(table') <= bytes'
<1>1. /\ table \in Seq(Batch) /\ Len(table) \in Nat
      /\ rows \in Nat /\ bytes \in Nat /\ maxBytes \in Nat /\ exact \in BOOLEAN
  BY LenProperties, DiskBufferAssumption DEF BufferInv, BufferTypes
<1>2. PICK n \in 0 .. Len(table) : n = IF count > Len(table) THEN Len(table) ELSE count
  BY <1>1
<1>3. PICK k \in 0 .. count :
         /\ k <= Len(table)
         /\ table' = WithoutOldest(table, count)
         /\ rows' = Saturated(rows, count)
         /\ bytes' = Saturated(bytes, TotalBytes(Oldest(table, k)))
         /\ exact' = (exact /\ (k = count \/ k = Len(table)))
  BY DEF Pop
<1>4. k \in 0 .. n
  BY <1>1, <1>2, <1>3
<1>5. /\ WithoutOldest(table, n) \in Seq(Batch)
      /\ Len(WithoutOldest(table, n)) = Len(table) - n
  BY <1>1, SuffixFacts
<1>6. table' = WithoutOldest(table, n)
  <2>1. CASE count > Len(table)
    <3>1. SubSeq(table, count + 1, Len(table)) = << >>
      BY <1>1, <2>1, SubSeqEmpty
    <3>2. SubSeq(table, n + 1, Len(table)) = << >>
      BY <1>1, <1>2, <2>1, SubSeqEmpty
    <3> QED BY <1>3, <3>1, <3>2 DEF WithoutOldest
  <2>2. CASE ~(count > Len(table))
    BY <1>2, <1>3, <2>2
  <2> QED BY <2>1, <2>2
<1> DEFINE scan == TotalBytes(Oldest(table, k))
           after == TotalBytes(WithoutOldest(table, k))
           left == TotalBytes(WithoutOldest(table, n))
<1>7. scan \in Nat /\ after \in Nat /\ TotalBytes(table) = scan + after
  BY <1>1, <1>4, TotalSplit
<1>8. left \in Nat /\ left <= after
  BY <1>1, <1>4, TotalSplit, TotalMonotone
<1>9. bytes' = Saturated(bytes, scan) /\ Len(table') = Len(table) - n
      /\ table' \in Seq(Batch) /\ TotalBytes(table') = left
  BY <1>3, <1>5, <1>6
<1> HIDE DEF scan, after, left
<1>10. rows' \in Nat /\ bytes' \in 0 .. bytes
  BY <1>1, <1>3, <1>7, <1>9 DEF Saturated
<1>11. ASSUME rows = Len(table) PROVE rows' = Len(table')
  <2>1. rows' = IF rows > count THEN rows - count ELSE 0
    BY <1>3 DEF Saturated
  <2>2. count \in Nat /\ n \in Nat
    OBVIOUS
  <2>3. rows' = Len(table) - n
    <3>1. CASE count > Len(table)
      BY <1>1, <1>2, <1>11, <2>1, <2>2, <3>1
    <3>2. CASE rows > count
      BY <1>1, <1>2, <1>11, <2>1, <2>2, <3>2
    <3>3. CASE count = Len(table)
      BY <1>1, <1>2, <1>11, <2>1, <2>2, <3>3
    <3> QED BY <1>1, <1>11, <2>2, <3>1, <3>2, <3>3
  <2> QED BY <1>9, <2>3
<1>12. ASSUME n = 0 PROVE Len(table) = 0 /\ bytes' = bytes
  <2>1. k = 0 /\ Len(table) = 0
    BY <1>1, <1>2, <1>4, <1>12
  <2>2. Oldest(table, k) \in Seq(Batch) /\ Len(Oldest(table, k)) = 0
    <3>1. k \in 0 .. Len(table)
      BY <1>1, <2>1
    <3> QED BY <1>1, <2>1, <3>1, PrefixFacts
  <2>3. scan = 0
    BY <2>2, SumFacts DEF scan
  <2> QED BY <1>1, <1>9, <2>1, <2>3 DEF Saturated
<1>13. ASSUME exact' PROVE rows' = Len(table') /\ bytes' = TotalBytes(table')
  <2>1. exact /\ k = n
    <3>1. exact /\ (k = count \/ k = Len(table))
      BY <1>3, <1>13, Zenon
    <3> QED BY <1>1, <1>2, <1>3, <3>1
  <2>2. rows = Len(table) /\ bytes = TotalBytes(table) /\ after = left
    BY <2>1 DEF BufferInv, ExactInv, after, left
  <2>3. bytes' = left
    BY <1>1, <1>7, <1>8, <1>9, <2>2 DEF Saturated
  <2> QED BY <1>9, <1>11, <2>2, <2>3
<1>14. ASSUME bytes' > maxBytes
       PROVE  rows' = Len(table') /\ TotalBytes(table') <= bytes'
  <2>1. bytes > maxBytes
    BY <1>1, <1>10, <1>14
  <2>2. rows = Len(table) /\ TotalBytes(table) <= bytes
    BY <2>1 DEF BufferInv, CoveredInv
  <2>3. left <= bytes'
    BY <1>1, <1>7, <1>8, <1>9, <2>2 DEF Saturated
  <2> QED BY <1>9, <1>11, <2>2, <2>3
<1>15. exact' \in BOOLEAN
  BY <1>3, Zenon
<1> QED BY <1>6, <1>9, <1>10, <1>12, <1>13, <1>14, <1>15

-----------------------------------------------------------------------------
LEMMA LimitFacts == \A l \in Limits : l \in Nat /\ l > 0 /\ l < Wrap
BY DiskBufferAssumption

LEMMA InitBuffer == Init => BufferInv
<1> SUFFICES ASSUME Init PROVE BufferInv
  OBVIOUS
<1>1. /\ schema \in BOOLEAN /\ alive \in BOOLEAN /\ db \in BOOLEAN
      /\ exact \in BOOLEAN /\ ~exact /\ ~db
  BY Zenon DEF Init
<1>2. table \in Seq(Batch) /\ synced \in Seq(Batch) /\ Len(table) = 0 /\ Len(synced) = 0
  BY EmptySeq DEF Init
<1>3. rows = 0 /\ bytes = 0 /\ maxBytes \in Limits /\ MaxRows \in Nat /\ Wrap \in Nat
      /\ maxBytes \in Nat /\ Wrap > 0
  BY DiskBufferAssumption DEF Init
<1>4. ~(bytes > maxBytes) /\ bytes \in 0 .. (Wrap - 1)
  BY <1>3
<1> QED BY <1>1, <1>2, <1>3, <1>4
        DEF BufferInv, BufferTypes, HandleInv, ExactInv, CoveredInv

(* A step that ends with counters that cover the table, or may be off but  *)
(* are within the limit.                                                   *)
LEMMA KeepsBuffer ==
    ASSUME BufferInv,
           schema' \in BOOLEAN, alive' \in BOOLEAN, db' \in BOOLEAN, exact' \in BOOLEAN,
           table' \in Seq(Batch), Len(table') <= MaxRows,
           synced' \in Seq(Batch), Len(synced') <= MaxRows,
           rows' \in Nat, bytes' \in 0 .. (Wrap - 1), maxBytes' \in Limits,
           ~alive' => ~db',
           exact' => rows' = Len(table') /\ bytes' = TotalBytes(table'),
           bytes' > maxBytes' => rows' = Len(table') /\ TotalBytes(table') <= bytes'
    PROVE  BufferInv'
BY Zenon DEF BufferInv, BufferTypes, HandleInv, ExactInv, CoveredInv

(* The way a process starts.                                               *)
LEMMA OpenBuffer ==
    ASSUME BufferInv, NEW limit \in Limits, Open(limit)
    PROVE  BufferInv'
<1>1. /\ table' = table /\ synced' = synced /\ alive' = TRUE /\ maxBytes' = limit
      /\ schema' \in {schema, TRUE} /\ db' \in BOOLEAN /\ exact' \in BOOLEAN
      /\ \/ rows' = 0 /\ bytes' = 0 /\ ~exact'
         \/ rows' = Len(table) /\ bytes' = TotalBytes(table)
  BY Zenon DEF Open, OpenNoHandle, OpenNoSchema, OpenNoCount, OpenCounted, Start
<1>2. /\ table \in Seq(Batch) /\ Len(table) <= MaxRows /\ Len(table) \in Nat
      /\ synced \in Seq(Batch) /\ Len(synced) <= MaxRows
      /\ limit \in Nat /\ limit > 0 /\ Wrap \in Nat /\ Wrap > 0
      /\ TotalBytes(table) \in 0 .. (Wrap - 1)
  BY TotalBound, LenProperties, LimitFacts, DiskBufferAssumption
  DEF BufferInv, BufferTypes
<1>3. schema' \in BOOLEAN /\ alive' \in BOOLEAN
  BY <1>1, Zenon DEF BufferInv, BufferTypes
<1>4. rows' \in Nat /\ bytes' \in 0 .. (Wrap - 1)
  BY <1>1, <1>2
<1>5. bytes' > maxBytes' => rows' = Len(table') /\ TotalBytes(table') <= bytes'
  BY <1>1, <1>2
<1>6. exact' => rows' = Len(table') /\ bytes' = TotalBytes(table')
  BY <1>1
<1> QED BY <1>1, <1>2, <1>3, <1>4, <1>5, <1>6, KeepsBuffer

LEMMA PushBuffer ==
    ASSUME BufferInv, NEW b \in Batch, PushStored(b) \/ PushRefused(b)
    PROVE  BufferInv'
<1>1. /\ UNCHANGED <<schema, synced, alive, db, maxBytes, exact>>
  BY DEF PushStored, PushRefused
<1>2. /\ table \in Seq(Batch) /\ Len(table) <= MaxRows /\ Len(table) \in Nat
      /\ maxBytes \in Nat /\ maxBytes < Wrap /\ Wrap \in Nat /\ MaxRows \in Nat
      /\ bytes \in 0 .. (Wrap - 1)
  BY LenProperties, LimitFacts, DiskBufferAssumption DEF BufferInv, BufferTypes
<1>3. PICK t \in TrimOutcomes :
        \/ /\ table' = t.table /\ rows' = t.rows /\ bytes' = t.bytes
        \/ /\ table' = Append(t.table, b) /\ rows' = t.rows + 1
           /\ bytes' = t.bytes + BatchSize[b]
           /\ Fits(t, b) /\ Len(table) < MaxRows
  BY DEF PushStored, PushRefused
<1>4. PICK n \in 0 .. Len(table) :
         /\ t.table \in Seq(Batch) /\ Len(t.table) = Len(table) - n
         /\ t.rows \in Nat /\ t.bytes \in 0 .. bytes
         /\ exact => t.rows = Len(t.table) /\ t.bytes = TotalBytes(t.table)
         /\ t.bytes > maxBytes =>
              t.rows = Len(t.table) /\ TotalBytes(t.table) <= t.bytes
  BY TrimFacts
<1> DEFINE Goal == /\ table' \in Seq(Batch) /\ Len(table') <= MaxRows
                   /\ rows' \in Nat /\ bytes' \in 0 .. (Wrap - 1)
                   /\ exact => rows' = Len(table') /\ bytes' = TotalBytes(table')
                   /\ bytes' > maxBytes =>
                        rows' = Len(table') /\ TotalBytes(table') <= bytes'
<1>5. ASSUME table' = t.table, rows' = t.rows, bytes' = t.bytes PROVE Goal
  <2>1. Len(table') <= MaxRows /\ bytes' \in 0 .. (Wrap - 1)
    BY <1>2, <1>4, <1>5
  <2> QED BY <1>4, <1>5, <2>1
<1>6. ASSUME table' = Append(t.table, b), rows' = t.rows + 1,
             bytes' = t.bytes + BatchSize[b], Fits(t, b), Len(table) < MaxRows
      PROVE  Goal
  <2> DEFINE s == t.table
  <2>1. s \in Seq(Batch) /\ table' = Append(s, b) /\ Len(s) = Len(table) - n
    BY <1>4, <1>6
  <2> HIDE DEF s
  <2>2. /\ table' \in Seq(Batch) /\ Len(table') = Len(s) + 1
        /\ TotalBytes(table') = TotalBytes(s) + BatchSize[b]
    BY <2>1, TotalAppend, AppendProperties
  <2>3. BatchSize[b] \in Nat
    BY SizeNat
  <2>4. bytes' <= maxBytes
    BY <1>6 DEF Fits
  <2>5. Len(table') <= MaxRows
    BY <1>2, <1>6, <2>1, <2>2
  <2>6. t.bytes \in Nat /\ t.rows \in Nat
    BY <1>2, <1>4
  <2>7. bytes' \in 0 .. (Wrap - 1) /\ rows' \in Nat
    BY <1>2, <1>6, <2>3, <2>4, <2>6
  <2>8. ~(bytes' > maxBytes)
    BY <1>2, <2>4, <2>7
  <2>9. exact => rows' = Len(table') /\ bytes' = TotalBytes(table')
    BY <1>4, <1>6, <2>2 DEF s
  <2> QED BY <2>2, <2>5, <2>7, <2>8, <2>9
<1>7. Goal
  BY <1>3, <1>5, <1>6
<1>8. /\ schema \in BOOLEAN /\ alive \in BOOLEAN /\ db \in BOOLEAN /\ exact \in BOOLEAN
      /\ synced \in Seq(Batch) /\ Len(synced) <= MaxRows /\ maxBytes \in Limits
      /\ ~alive => ~db
  BY Zenon DEF BufferInv, BufferTypes, HandleInv
<1> QED BY <1>1, <1>7, <1>8, KeepsBuffer

LEMMA NextBuffer == BufferInv /\ [Next]_vars => BufferInv'
<1> SUFFICES ASSUME BufferInv, [Next]_vars PROVE BufferInv'
  OBVIOUS
<1>1. /\ table \in Seq(Batch) /\ Len(table) <= MaxRows /\ Len(table) \in Nat
      /\ synced \in Seq(Batch) /\ Len(synced) <= MaxRows
      /\ maxBytes \in Nat /\ maxBytes > 0 /\ Wrap \in Nat /\ MaxRows \in Nat
      /\ Wrap > 0 /\ maxBytes \in Limits /\ rows \in Nat
      /\ bytes \in 0 .. (Wrap - 1)
  BY LenProperties, LimitFacts, DiskBufferAssumption DEF BufferInv, BufferTypes
<1>2. /\ schema \in BOOLEAN /\ alive \in BOOLEAN /\ db \in BOOLEAN /\ exact \in BOOLEAN
      /\ ~alive => ~db
  BY Zenon DEF BufferInv, BufferTypes, HandleInv
<1>3. ASSUME NEW count \in 1 .. MaxPop, Pop(count) PROVE BufferInv'
  <2>1. count \in Nat \ {0}
    BY DiskBufferAssumption
  <2>2. /\ table' \in Seq(Batch) /\ Len(table') <= MaxRows
        /\ rows' \in Nat /\ bytes' \in 0 .. (Wrap - 1) /\ exact' \in BOOLEAN
        /\ exact' => rows' = Len(table') /\ bytes' = TotalBytes(table')
        /\ bytes' > maxBytes =>
             rows' = Len(table') /\ TotalBytes(table') <= bytes'
    <3>1. PICK n \in 0 .. Len(table) :
             /\ table' \in Seq(Batch) /\ Len(table') = Len(table) - n
             /\ rows' \in Nat /\ bytes' \in 0 .. bytes
             /\ exact' \in BOOLEAN
             /\ exact' => rows' = Len(table') /\ bytes' = TotalBytes(table')
             /\ bytes' > maxBytes =>
                  rows' = Len(table') /\ TotalBytes(table') <= bytes'
      BY <1>3, <2>1, PopFacts
    <3>2. Len(table') <= MaxRows /\ bytes' \in 0 .. (Wrap - 1)
      BY <1>1, <3>1
    <3> QED BY <3>1, <3>2
  <2>3. UNCHANGED <<schema, synced, alive, db, maxBytes>>
    BY <1>3 DEF Pop
  <2> QED BY <1>1, <1>2, <2>2, <2>3, KeepsBuffer
<1>4. ASSUME Sync PROVE BufferInv'
  <2>1. /\ UNCHANGED <<schema, table, alive, db, rows, bytes, maxBytes, exact>>
        /\ synced' = table
    BY <1>4 DEF Sync
  <2> QED BY <1>1, <1>2, <2>1, KeepsBuffer DEF BufferInv, ExactInv, CoveredInv
<1>5. ASSUME Exit \/ PowerLoss PROVE BufferInv'
  <2>1. /\ table' \in {table, synced} /\ synced' = synced /\ maxBytes' = maxBytes
        /\ alive' = FALSE /\ db' = FALSE /\ exact' = FALSE
        /\ rows' = 0 /\ bytes' = 0
    BY <1>5 DEF Exit, PowerLoss, Down
  <2>2. schema' \in BOOLEAN
    BY <1>2, <1>5, Zenon DEF Exit, PowerLoss
  <2>3. table' \in Seq(Batch) /\ Len(table') <= MaxRows
    BY <1>1, <2>1
  <2>4. rows' \in Nat /\ bytes' \in 0 .. (Wrap - 1) /\ ~(bytes' > maxBytes')
    BY <1>1, <2>1
  <2>5. alive' \in BOOLEAN /\ db' \in BOOLEAN /\ exact' \in BOOLEAN /\ ~db' /\ ~exact'
    BY <2>1, Zenon
  <2> QED BY <1>1, <2>1, <2>2, <2>3, <2>4, <2>5, KeepsBuffer
<1>6. ASSUME UNCHANGED vars PROVE BufferInv'
  BY <1>6 DEF vars, BufferInv, BufferTypes, HandleInv, ExactInv, CoveredInv
<1> QED BY <1>3, <1>4, <1>5, <1>6, OpenBuffer, PushBuffer DEF Next

(* The inductive invariant holds in every reachable state.                 *)
THEOREM BufferInvariant == Spec => []BufferInv
BY InitBuffer, NextBuffer, PTL DEF Spec

-----------------------------------------------------------------------------
(* The counters of the process never drift from the table, through any     *)
(* sequence of pushes, trims, pops, crashes, power losses and reopenings,  *)
(* and the unsigned subtraction of Trim never wraps.                       *)
THEOREM CountersHold == Spec => []CountersExact
<1>1. ASSUME BufferInv PROVE CountersExact
  <2>1. table \in Seq(Batch) /\ bytes \in Nat
    BY <1>1, DiskBufferAssumption DEF BufferInv, BufferTypes
  <2>2. ASSUME bytes > maxBytes, NEW n \in 0 .. Len(table)
        PROVE  TotalBytes(Oldest(table, n)) <= bytes
    <3>1. TotalBytes(table) <= bytes
      BY <1>1, <2>2 DEF BufferInv, CoveredInv
    <3>2. /\ TotalBytes(Oldest(table, n)) \in Nat
          /\ TotalBytes(WithoutOldest(table, n)) \in Nat
          /\ TotalBytes(table) = TotalBytes(Oldest(table, n))
                                   + TotalBytes(WithoutOldest(table, n))
      BY <2>1, TotalSplit
    <3> QED BY <2>1, <3>1, <3>2
  <2> QED BY <1>1, <2>2 DEF BufferInv, ExactInv, CountersExact
<1> QED BY <1>1, BufferInvariant, PTL

(* A row is stored only when the table then fits the limit.                *)
THEOREM GrowthLimited == Spec => GrowthWithinLimit
<1> DEFINE Grows == \A n \in 0 .. Len(table) : table' # WithoutOldest(table, n)
           Step == exact /\ exact' /\ Grows => TotalBytes(table') <= maxBytes
<1>1. ASSUME BufferInv, BufferInv', [Next]_vars PROVE [Step]_vars
  <2> SUFFICES ASSUME exact, exact', Grows PROVE TotalBytes(table') <= maxBytes
    OBVIOUS
  <2>1. table \in Seq(Batch) /\ Len(table) \in Nat
    BY <1>1, LenProperties DEF BufferInv, BufferTypes
  <2>2. table' # table
    <3>1. WithoutOldest(table, 0) = table
      BY <2>1, SubSeqFull DEF WithoutOldest
    <3> QED BY <2>1, <3>1
  <2>3. ASSUME NEW count \in 1 .. MaxPop, Pop(count) PROVE FALSE
    <3>1. count \in Nat \ {0}
      BY DiskBufferAssumption
    <3> QED BY <1>1, <2>3, <3>1, PopFacts
  <2>4. ASSUME NEW b \in Batch, PushRefused(b) PROVE FALSE
    BY <1>1, <2>4, TrimFacts DEF PushRefused
  <2>5. ASSUME NEW b \in Batch, PushStored(b)
        PROVE  TotalBytes(table') <= maxBytes
    <3>1. bytes' <= maxBytes
      BY <2>5 DEF PushStored, Fits
    <3>2. bytes' = TotalBytes(table')
      BY <1>1 DEF BufferInv, ExactInv
    <3> QED BY <3>1, <3>2
  <2>6. ~(Exit \/ PowerLoss)
    BY DEF Exit, PowerLoss, Down
  <2>7. \A limit \in Limits : ~Open(limit)
    BY <2>2 DEF Open, OpenNoHandle, OpenNoSchema, OpenNoCount, OpenCounted, Start
  <2>8. ~Sync /\ ~UNCHANGED vars
    BY <2>2 DEF Sync, vars
  <2> QED BY <1>1, <2>3, <2>4, <2>5, <2>6, <2>7, <2>8 DEF Next
<1> HIDE DEF Step
<1>2. Spec => [][Step]_vars
  BY <1>1, BufferInvariant, PTL DEF Spec
<1> QED BY <1>2 DEF GrowthWithinLimit, Step

-----------------------------------------------------------------------------
(* The table implements the queue the main loop of the agent relies on.    *)

(* Fewer bytes do not make the table overfull.                             *)
LEMMA OverfullFacts ==
    ASSUME NEW a \in Nat, NEW limit \in Nat, NEW b \in 0 .. a
    PROVE  (b > limit) \in {a > limit, FALSE}
<1>1. CASE b > limit
  <2>1. a > limit
    BY <1>1
  <2>2. (a > limit) = TRUE /\ (b > limit) = TRUE
    BY <1>1, <2>1, Zenon
  <2> QED BY <2>2, Zenon
<1>2. CASE ~(b > limit)
  <2>1. (b > limit) = FALSE
    BY <1>2, SMT
  <2> QED BY <2>1, Zenon
<1> QED BY <1>1, <1>2

LEMMA InitQueue == Init => Queue!SpillInit
<1> SUFFICES ASSUME Init PROVE Queue!SpillInit
  OBVIOUS
<1>1. ~(bytes > maxBytes)
  BY LimitFacts DEF Init
<1>2. (bytes > maxBytes) = FALSE
  BY <1>1
<1> QED BY <1>2 DEF Init, Queue!SpillInit

(* Trimming and storing is the push of the abstract queue, trimming alone  *)
(* its refusal.                                                            *)
LEMMA PushQueue ==
    ASSUME BufferInv, NEW b \in Batch, PushStored(b) \/ PushRefused(b)
    PROVE  Queue!SpillNext
<1>1. bytes \in Nat /\ maxBytes \in Nat
  BY LimitFacts, DiskBufferAssumption DEF BufferInv, BufferTypes
<1>2. ASSUME PushStored(b) PROVE Queue!SpillNext
  <2>1. PICK t \in TrimOutcomes :
          /\ Fits(t, b) /\ table' = Append(t.table, b)
          /\ bytes' = t.bytes + BatchSize[b]
    BY <1>2 DEF PushStored
  <2>2. PICK n \in 0 .. Len(table) :
          /\ t.table = WithoutOldest(table, n)
          /\ n > 0 => bytes > maxBytes
          /\ t.bytes \in 0 .. bytes
    BY TrimFacts
  <2>3. bytes' <= maxBytes /\ bytes' \in Nat
    BY <1>1, <2>1, <2>2, SizeNat DEF Fits
  <2>4. (bytes' > maxBytes') = FALSE
    BY <1>1, <1>2, <2>3 DEF PushStored
  <2>5. table' = Append(Queue!Behead(table, n), b)
    BY <2>1, <2>2 DEF WithoutOldest, Queue!Behead
  <2>6. Queue!SpillPush(b, n)
    BY <1>2, <2>2, <2>4, <2>5 DEF Queue!SpillPush, PushStored
  <2> QED BY <2>6 DEF Queue!SpillNext
<1>3. ASSUME PushRefused(b) PROVE Queue!SpillNext
  <2>1. PICK t \in TrimOutcomes : table' = t.table /\ bytes' = t.bytes
    BY <1>3 DEF PushRefused
  <2>2. PICK n \in 0 .. Len(table) :
          /\ t.table = WithoutOldest(table, n)
          /\ n > 0 => bytes > maxBytes
          /\ t.bytes \in 0 .. bytes
    BY TrimFacts
  <2>3. maxBytes' = maxBytes /\ bytes' \in 0 .. bytes
    BY <1>3, <2>1, <2>2 DEF PushRefused
  <2>4. (bytes' > maxBytes') \in {bytes > maxBytes, FALSE}
    BY <1>1, <2>3, OverfullFacts
  <2>5. table' = Queue!Behead(table, n)
    BY <2>1, <2>2 DEF WithoutOldest, Queue!Behead
  <2>6. Queue!SpillRefuse(n)
    BY <1>3, <2>2, <2>4, <2>5 DEF Queue!SpillRefuse, PushRefused
  <2> QED BY <2>6 DEF Queue!SpillNext
<1> QED BY <1>2, <1>3

LEMMA NextQueue ==
    BufferInv /\ [Next]_vars => [Queue!SpillNext]_(Queue!spillVars)
<1> SUFFICES ASSUME BufferInv, [Next]_vars
             PROVE  [Queue!SpillNext]_(Queue!spillVars)
  OBVIOUS
<1> DEFINE Goal == [Queue!SpillNext]_(Queue!spillVars)
<1>1. bytes \in Nat /\ maxBytes \in Nat /\ maxBytes > 0
  BY LimitFacts, DiskBufferAssumption DEF BufferInv, BufferTypes
<1>2. ASSUME NEW limit \in Limits, Open(limit) PROVE Goal
  <2>1. /\ ~alive /\ table' = table /\ synced' = synced /\ db' \in BOOLEAN
        /\ maxBytes' = limit
    BY <1>2, Zenon DEF Open, OpenNoHandle, OpenNoSchema, OpenNoCount, OpenCounted, Start
  <2>2. ~db
    BY <2>1 DEF BufferInv, HandleInv
  <2>3. (bytes' > maxBytes') \in BOOLEAN
    OBVIOUS
  <2>4. ASSUME bytes' > maxBytes' PROVE db'
    <3>1. CASE bytes' = 0
      BY <2>1, <2>4, <3>1, LimitFacts
    <3>2. CASE db'
      BY <3>2
    <3> QED BY <1>2, <3>1, <3>2
            DEF Open, OpenNoHandle, OpenNoSchema, OpenNoCount, OpenCounted
  <2>5. Queue!SpillOpen
    BY <2>1, <2>2, <2>3, <2>4 DEF Queue!SpillOpen
  <2> QED BY <2>5 DEF Queue!SpillNext
<1>3. ASSUME NEW b \in Batch, PushStored(b) \/ PushRefused(b) PROVE Goal
  BY <1>3, PushQueue
<1>4. ASSUME NEW count \in 1 .. MaxPop, Pop(count) PROVE Goal
  <2>1. count \in Nat \ {0}
    BY DiskBufferAssumption
  <2>2. PICK n \in 0 .. Len(table) :
          /\ table' = WithoutOldest(table, n)
          /\ n = 0 => Len(table) = 0 /\ bytes' = bytes
          /\ bytes' \in 0 .. bytes
    BY <1>4, <2>1, PopFacts
  <2>3. db /\ db' = db /\ synced' = synced /\ maxBytes' = maxBytes
    BY <1>4 DEF Pop
  <2>4. CASE n = 0
    <3>1. table' = table
      <4>1. table \in Seq(Batch)
        BY DEF BufferInv, BufferTypes
      <4> QED BY <2>2, <2>4, <4>1, SubSeqFull DEF WithoutOldest
    <3> QED BY <2>2, <2>3, <2>4, <3>1 DEF Queue!spillVars
  <2>5. CASE n # 0
    <3>1. (bytes' > maxBytes') \in {bytes > maxBytes, FALSE}
      BY <1>1, <2>2, <2>3, OverfullFacts
    <3>2. table' = Queue!Behead(table, n)
      BY <2>2 DEF WithoutOldest, Queue!Behead
    <3>3. Queue!SpillPop(n)
      BY <2>3, <3>1, <3>2 DEF Queue!SpillPop
    <3>4. n \in 1 .. Len(table)
      BY <2>5
    <3> QED BY <3>3, <3>4 DEF Queue!SpillNext
  <2> QED BY <2>4, <2>5
<1>5. ASSUME Sync PROVE Goal
  <2>1. Queue!SpillSync
    BY <1>5 DEF Sync, Queue!SpillSync
  <2> QED BY <2>1 DEF Queue!SpillNext
<1>6. ASSUME Exit \/ PowerLoss PROVE Goal
  <2>1. db' = FALSE /\ synced' = synced /\ bytes' = 0 /\ maxBytes' = maxBytes
    BY <1>6 DEF Exit, PowerLoss, Down
  <2>2. (bytes' > maxBytes') = FALSE
    BY <1>1, <2>1
  <2>3. CASE Exit
    <3>1. Queue!SpillClose
      BY <2>1, <2>2, <2>3 DEF Exit, Queue!SpillClose
    <3> QED BY <3>1 DEF Queue!SpillNext
  <2>4. CASE PowerLoss
    <3>1. Queue!SpillPowerLoss
      BY <2>1, <2>2, <2>4 DEF PowerLoss, Queue!SpillPowerLoss
    <3> QED BY <3>1 DEF Queue!SpillNext
  <2> QED BY <1>6, <2>3, <2>4
<1>7. ASSUME UNCHANGED vars PROVE Goal
  BY <1>7 DEF vars, Queue!spillVars
<1> QED BY <1>2, <1>3, <1>4, <1>5, <1>6, <1>7 DEF Next

(* DiskBuffer implements the spill queue that AgentDelivery composes: rows *)
(* leave at the old end only, a push trims only an overfull table, and a   *)
(* power loss falls back to what was synced.                               *)
THEOREM ImplementsQueue == Spec => QueueSpec
BY InitQueue, NextQueue, BufferInvariant, PTL
DEF Spec, QueueSpec, Queue!SpillSpec
=============================================================================
