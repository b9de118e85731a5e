-------------------------- MODULE BulpBufferProofs --------------------------
(***************************************************************************)
(* Proofs about BulpBuffer, for every number of buffers and fragments and  *)
(* every size of a fragment: lemmas about the operators the model is built *)
(* from, the inductive invariant IInv, what happens to one list and to the *)
(* places of the fragments, that every call preserves IInv, and what       *)
(* follows from it for every run; and that the scans of a buffer answer as *)
(* if its bytes lay in one piece.                                          *)
(***************************************************************************)
EXTENDS BufferScans, SequenceFacts

LEMMA CapNat == Cap \in Nat \ {0}
  BY SizeAssumption DEF Cap

-----------------------------------------------------------------------------
(* Offsets.                                                                *)

Lists == Seq(Frag)
Fields == [Frag -> Seq(Byte)]

(* g runs through the partial sums of the lengths of c's fragments.        *)
Sums(g, c, d, n) ==
  /\ g[0] = 0
  /\ \A i \in 1 .. n : g[i] = g[i - 1] + Len(d[c[i]])

LEMMA LenOfFragment ==
  ASSUME NEW c \in Lists, NEW d \in Fields, NEW i \in 1 .. Len(c)
  PROVE  c[i] \in Frag /\ Len(d[c[i]]) \in Nat
<1>1. c[i] \in Frag
  BY ElementOfSeq DEF Lists
<1>2. d[c[i]] \in Seq(Byte)
  BY <1>1 DEF Fields
<1> QED BY <1>1, <1>2, LenProperties

(* The partial sums exist for a list of any length.                        *)
LEMMA SumsExist ==
  ASSUME NEW c \in Lists, NEW d \in Fields
  PROVE  \E g \in [0 .. Len(c) -> Nat] : Sums(g, c, d, Len(c))
<1>0. Len(c) \in Nat
  BY LenProperties DEF Lists
<1> DEFINE P(n) == \E g \in [0 .. n -> Nat] : Sums(g, c, d, n)
<1>1. P(0)
  <2>1. [i \in 0 .. 0 |-> 0] \in [0 .. 0 -> Nat]
    OBVIOUS
  <2>2. Sums([i \in 0 .. 0 |-> 0], c, d, 0)
    BY DEF Sums
  <2> QED BY <2>1, <2>2
<1>2. ASSUME NEW n \in 1 .. Len(c), P(n - 1)
      PROVE  P(n)
  <2>1. PICK g \in [0 .. n - 1 -> Nat] : Sums(g, c, d, n - 1)
    BY <1>2
  <2> DEFINE h == [i \in 0 .. n |-> IF i = n THEN g[n - 1] + Len(d[c[n]]) ELSE g[i]]
  <2>2. Len(d[c[n]]) \in Nat
    BY LenOfFragment
  <2>3. h \in [0 .. n -> Nat]
    BY <2>2, <1>0
  <2>4. Sums(h, c, d, n)
    <3>1. h[0] = 0
      BY <2>1, <1>0 DEF Sums
    <3>2. ASSUME NEW i \in 1 .. n PROVE h[i] = h[i - 1] + Len(d[c[i]])
      <4>1. CASE i = n
        BY <4>1, <1>0
      <4>2. CASE i # n
        BY <4>2, <2>1, <1>0 DEF Sums
      <4> QED BY <4>1, <4>2
    <3> QED BY <3>1, <3>2 DEF Sums
  <2> QED BY <2>3, <2>4
<1>3. 0 .. Len(c) \subseteq {n \in 0 .. Len(c) : P(n)}
  <2> HIDE DEF P
  <2> DEFINE T == {n \in 0 .. Len(c) : P(n)}
  <2>1. 0 \in T
    BY <1>0, <1>1
  <2>2. \A n \in 1 .. Len(c) : n - 1 \in T => n \in T
    BY <1>0, <1>2
  <2> HIDE DEF T
  <2>3. 0 .. Len(c) \subseteq T
    BY <1>0, <2>1, <2>2, IndexInduction
  <2> QED BY <2>3 DEF T
<1>4. P(Len(c))
  BY <1>3, <1>0
<1> QED BY <1>4

(* What the recursive function Offsets(c, d) is.                           *)
LEMMA OffsetsDef ==
  ASSUME NEW c \in Lists, NEW d \in Fields
  PROVE  /\ Offsets(c, d) \in [0 .. Len(c) -> Nat]
         /\ Sums(Offsets(c, d), c, d, Len(c))
<1>0. Len(c) \in Nat
  BY LenProperties DEF Lists
<1> DEFINE Step(f) == [i \in 0 .. Len(c) |-> IF i = 0 THEN 0 ELSE f[i - 1] + Len(d[c[i]])]
<1>1. PICK g \in [0 .. Len(c) -> Nat] : Sums(g, c, d, Len(c))
  BY SumsExist
<1>2. g = Step(g)
  <2>1. \A i \in 0 .. Len(c) : g[i] = Step(g)[i]
    BY <1>0, <1>1 DEF Sums
  <2> QED BY <2>1
<1>3. Offsets(c, d) = CHOOSE f : f = Step(f)
  BY DEF Offsets
<1>4. Offsets(c, d) = Step(Offsets(c, d))
  <2> HIDE DEF Step
  <2> QED BY <1>2, <1>3
<1> DEFINE f == Offsets(c, d)
<1>5. f = Step(f)
  BY <1>4
<1> HIDE DEF f
<1>6. Sums(f, c, d, Len(c)) /\ DOMAIN f = 0 .. Len(c)
  BY <1>0, <1>5 DEF Sums
<1>7. \A i \in 0 .. Len(c) : f[i] \in Nat
  <2> DEFINE T == {n \in 0 .. Len(c) : f[n] \in Nat}
  <2>1. 0 \in T
    BY <1>0, <1>6 DEF Sums
  <2>2. ASSUME NEW n \in 1 .. Len(c), n - 1 \in T PROVE n \in T
    BY <1>0, <1>6, <2>2, LenOfFragment DEF Sums
  <2>3. 0 .. Len(c) \subseteq T
    <3> HIDE DEF T
    <3> QED BY <1>0, <2>1, <2>2, IndexInduction
  <2> QED BY <2>3
<1> QED BY <1>5, <1>6, <1>7 DEF f

(* Partial sums are unique.                                                *)
LEMMA SumsUnique ==
  ASSUME NEW c \in Lists, NEW d \in Fields, NEW n \in 0 .. Len(c),
         NEW g, Sums(g, c, d, n)
  PROVE  \A i \in 0 .. n : Offsets(c, d)[i] = g[i]
<1>0. Len(c) \in Nat
  BY LenProperties DEF Lists
<1> DEFINE f == Offsets(c, d)
<1>1. Sums(f, c, d, Len(c))
  BY OffsetsDef
<1> HIDE DEF f
<1> DEFINE T == {i \in 0 .. n : f[i] = g[i]}
<1>2. 0 \in T
  BY <1>0, <1>1 DEF Sums
<1>3. ASSUME NEW i \in 1 .. n, i - 1 \in T PROVE i \in T
  BY <1>0, <1>1, <1>3 DEF Sums
<1>4. 0 .. n \subseteq T
  <2> HIDE DEF T
  <2>1. n \in Nat
    BY <1>0
  <2>2. \A i \in 1 .. n : i - 1 \in T => i \in T
    BY <1>3
  <2> QED BY ONLY <1>2, <2>1, <2>2, IndexInduction
<1> QED BY <1>4 DEF f

(* Offsets never decrease along a list.                                    *)
LEMMA OffsetsMonotone ==
  ASSUME NEW c \in Lists, NEW d \in Fields, NEW i \in 0 .. Len(c), NEW j \in i .. Len(c)
  PROVE  Offsets(c, d)[i] <= Offsets(c, d)[j]
<1>0. Len(c) \in Nat
  BY LenProperties DEF Lists
<1> DEFINE f == Offsets(c, d)
<1>1. Sums(f, c, d, Len(c)) /\ f \in [0 .. Len(c) -> Nat]
  BY OffsetsDef
<1> HIDE DEF f
<1> DEFINE m == j - i
           T == {n \in 0 .. m : f[i] <= f[i + n]}
<1>m. m \in Nat
  OBVIOUS
<1>2. 0 \in T
  BY <1>0, <1>1
<1>3. ASSUME NEW n \in 1 .. m, n - 1 \in T PROVE n \in T
  <2>1. i + n \in 1 .. Len(c) /\ i + (n - 1) = i + n - 1
    BY <1>0
  <2>2. f[i + n] = f[i + n - 1] + Len(d[c[i + n]]) /\ Len(d[c[i + n]]) \in Nat
    BY <1>1, <2>1, LenOfFragment DEF Sums
  <2>3. f[i] \in Nat /\ f[i + n - 1] \in Nat /\ f[i] <= f[i + n - 1]
    BY <1>0, <1>1, <1>3, <2>1
  <2> QED BY <2>2, <2>3
<1>4. 0 .. m \subseteq T
  <2> HIDE DEF m, T
  <2> QED BY <1>m, <1>2, <1>3, IndexInduction
<1>5. m \in T
  <2> HIDE DEF m, T
  <2>1. m \in 0 .. m
    BY <1>m
  <2> QED BY <1>4, <2>1
<1>6. i + m = j
  BY <1>0
<1>7. f[i] <= f[i + m]
  BY <1>5
<1> QED BY <1>6, <1>7 DEF f

-----------------------------------------------------------------------------
(* Allocation.                                                             *)

LEMMA NeededBounds ==
  ASSUME NEW n \in Nat, NEW room \in Nat
  PROVE  /\ Needed(n, room) \in Nat
         /\ n <= room => Needed(n, room) = 0
         /\ n > room => /\ Needed(n, room) >= 1
                        /\ room + (Needed(n, room) - 1) * Cap < n
                        /\ n <= room + Needed(n, room) * Cap
<1>1. CASE n <= room
  BY <1>1 DEF Needed
<1>2. CASE n > room
  <2> DEFINE m == n - room + Cap - 1
             k == m \div Cap
  <2>1. Cap \in Nat \ {0}
    BY CapNat
  <2>2. m \in Nat /\ m >= Cap
    BY <1>2, <2>1
  <2>3. k \in Nat /\ k * Cap <= m /\ m < k * Cap + Cap
    <3> HIDE DEF m
    <3> QED BY <2>1, <2>2, Z3
  <2>4. (k - 1) * Cap = k * Cap - Cap
    BY <2>1, <2>3
  <2>5. k >= 1
    <3> HIDE DEF m
    <3> QED BY <2>1, <2>2, <2>3
  <2> QED BY <1>2, <2>1, <2>3, <2>4, <2>5 DEF Needed
<1> QED BY <1>1, <1>2

-----------------------------------------------------------------------------
(* Lists of fragments.                                                     *)

Inj(c) == \A i, j \in 1 .. Len(c) : c[i] = c[j] => i = j

Total(c, d) == Offsets(c, d)[Len(c)]

LEMMA PlacedConcat ==
  ASSUME NEW c \in Lists, NEW e \in Lists
  PROVE  /\ c \o e \in Lists
         /\ Placed(c \o e) = Placed(c) \cup Placed(e)
         /\ Placed(c) \subseteq Frag
<1>1. /\ c \o e \in Lists /\ Len(c \o e) = Len(c) + Len(e)
      /\ Len(c) \in Nat /\ Len(e) \in Nat
      /\ \A i \in 1 .. Len(c) + Len(e) :
           (c \o e)[i] = IF i <= Len(c) THEN c[i] ELSE e[i - Len(c)]
  BY ConcatProperties, LenProperties DEF Lists
<1>2. Placed(c \o e) \subseteq Placed(c) \cup Placed(e)
  <2> SUFFICES ASSUME NEW i \in 1 .. Len(c) + Len(e)
               PROVE  (c \o e)[i] \in Placed(c) \cup Placed(e)
    BY <1>1 DEF Placed
  <2>1. CASE i <= Len(c)
    BY <1>1, <2>1 DEF Placed
  <2>2. CASE i > Len(c)
    <3>1. i - Len(c) \in 1 .. Len(e)
      BY <1>1, <2>2
    <3> QED BY <1>1, <2>2, <3>1 DEF Placed
  <2> QED BY <1>1, <2>1, <2>2
<1>3. Placed(c) \subseteq Placed(c \o e)
  BY <1>1 DEF Placed
<1>4. Placed(e) \subseteq Placed(c \o e)
  <2> SUFFICES ASSUME NEW i \in 1 .. Len(e) PROVE e[i] \in Placed(c \o e)
    BY DEF Placed
  <2>1. Len(c) + i \in 1 .. Len(c) + Len(e) /\ (c \o e)[Len(c) + i] = e[i]
    BY <1>1
  <2> QED BY <1>1, <2>1 DEF Placed
<1>5. Placed(c) \subseteq Frag
  BY ElementOfSeq DEF Placed, Lists
<1> QED BY <1>1, <1>2, <1>3, <1>4, <1>5

LEMMA InjConcat ==
  ASSUME NEW c \in Lists, NEW e \in Lists, Inj(c), Inj(e),
         Placed(c) \cap Placed(e) = {}
  PROVE  Inj(c \o e)
<1>1. /\ Len(c \o e) = Len(c) + Len(e)
      /\ Len(c) \in Nat /\ Len(e) \in Nat
      /\ \A i \in 1 .. Len(c) + Len(e) :
           (c \o e)[i] = IF i <= Len(c) THEN c[i] ELSE e[i - Len(c)]
  BY ConcatProperties, LenProperties DEF Lists
<1>2. \A i \in 1 .. Len(c), j \in 1 .. Len(e) : c[i] # e[j]
  BY DEF Placed
<1> SUFFICES ASSUME NEW i \in 1 .. Len(c) + Len(e), NEW j \in 1 .. Len(c) + Len(e),
                    (c \o e)[i] = (c \o e)[j]
             PROVE  i = j
  BY <1>1 DEF Inj
<1>3. \A k \in 1 .. Len(c) + Len(e) : k > Len(c) => k - Len(c) \in 1 .. Len(e)
  BY <1>1
<1>4. CASE i <= Len(c) /\ j <= Len(c)
  BY <1>1, <1>4 DEF Inj
<1>5. CASE i > Len(c) /\ j > Len(c)
  <2>1. e[i - Len(c)] = e[j - Len(c)]
    BY <1>1, <1>5
  <2>2. i - Len(c) = j - Len(c)
    BY <2>1, <1>3, <1>5 DEF Inj
  <2> QED BY <1>1, <2>2
<1>6. CASE i <= Len(c) /\ j > Len(c)
  BY <1>1, <1>2, <1>3, <1>6
<1>7. CASE i > Len(c) /\ j <= Len(c)
  BY <1>1, <1>2, <1>3, <1>7
<1> QED BY <1>1, <1>4, <1>5, <1>6, <1>7

(* A list cut in two after its first k fragments.                          *)
LEMMA Cut ==
  ASSUME NEW c \in Lists, NEW k \in 0 .. Len(c)
  PROVE  /\ SubSeq(c, 1, k) \in Lists /\ SubSeq(c, k + 1, Len(c)) \in Lists
         /\ Len(SubSeq(c, 1, k)) = k /\ Len(SubSeq(c, k + 1, Len(c))) = Len(c) - k
         /\ \A i \in 1 .. k : SubSeq(c, 1, k)[i] = c[i]
         /\ \A i \in 1 .. Len(c) - k : SubSeq(c, k + 1, Len(c))[i] = c[k + i]
         /\ Placed(SubSeq(c, 1, k)) = {c[i] : i \in 1 .. k}
         /\ Placed(SubSeq(c, k + 1, Len(c))) = {c[i] : i \in k + 1 .. Len(c)}
         /\ Placed(c) = Placed(SubSeq(c, 1, k)) \cup Placed(SubSeq(c, k + 1, Len(c)))
<1>0. Len(c) \in Nat /\ \A i \in 1 .. Len(c) : c[i] \in Frag
  BY LenProperties, ElementOfSeq DEF Lists
<1> DEFINE a == SubSeq(c, 1, k)
           z == SubSeq(c, k + 1, Len(c))
<1>1. a \in Lists /\ Len(a) = k /\ \A i \in 1 .. k : a[i] = c[i]
  <2>1. \A i \in 1 .. k : c[i] \in Frag
    BY <1>0
  <2>2. /\ a \in Seq(Frag) /\ Len(a) = IF 1 <= k THEN k - 1 + 1 ELSE 0
        /\ \A i \in 1 .. k - 1 + 1 : a[i] = c[1 + i - 1]
    BY <1>0, <2>1, SubSeqProperties, 1 \in Int, k \in Int
  <2> QED BY <1>0, <2>2 DEF Lists
<1>2. z \in Lists /\ Len(z) = Len(c) - k /\ \A i \in 1 .. Len(c) - k : z[i] = c[k + i]
  <2>1. \A i \in k + 1 .. Len(c) : c[i] \in Frag
    BY <1>0
  <2>2. k + 1 \in Int /\ Len(c) \in Int
    BY <1>0
  <2>3. /\ z \in Seq(Frag)
        /\ Len(z) = IF k + 1 <= Len(c) THEN Len(c) - (k + 1) + 1 ELSE 0
        /\ \A i \in 1 .. Len(c) - (k + 1) + 1 : z[i] = c[(k + 1) + i - 1]
    BY <2>1, <2>2, SubSeqProperties
  <2>4. Len(c) - (k + 1) + 1 = Len(c) - k /\ \A i \in Nat : (k + 1) + i - 1 = k + i
    BY <1>0
  <2>5. Len(z) = Len(c) - k
    <3> HIDE DEF z
    <3>1. CASE k = Len(c)
      BY <1>0, <2>3, <3>1
    <3>2. CASE k < Len(c)
      <4>1. k + 1 <= Len(c)
        BY <1>0, <3>2
      <4>2. Len(z) = Len(c) - (k + 1) + 1
        BY <2>3, <4>1
      <4> QED BY <2>4, <4>2
    <3> QED BY <1>0, <3>1, <3>2
  <2>6. ASSUME NEW i \in 1 .. Len(c) - k PROVE z[i] = c[k + i]
    <3>1. i \in 1 .. Len(c) - (k + 1) + 1
      BY <2>4
    <3>2. (k + 1) + i - 1 = k + i
      OBVIOUS
    <3> HIDE DEF z
    <3> QED BY <2>3, <3>1, <3>2
  <2> QED BY <2>3, <2>5, <2>6 DEF Lists
<1>3. Placed(a) = {c[i] : i \in 1 .. k}
  BY <1>1 DEF Placed
<1>4. Placed(z) = {c[i] : i \in k + 1 .. Len(c)}
  <2>1. \A i \in 1 .. Len(c) - k : z[i] = c[k + i] /\ k + i \in k + 1 .. Len(c)
    BY <1>0, <1>2
  <2>2. \A i \in k + 1 .. Len(c) : i - k \in 1 .. Len(c) - k /\ k + (i - k) = i
    BY <1>0
  <2>3. \A i \in k + 1 .. Len(c) : c[i] = z[i - k]
    BY <2>1, <2>2
  <2> HIDE DEF z
  <2>4. Placed(z) = {z[i] : i \in 1 .. Len(c) - k}
    BY <1>2 DEF Placed
  <2>5. Placed(z) \subseteq {c[i] : i \in k + 1 .. Len(c)}
    BY <2>1, <2>4
  <2>6. {c[i] : i \in k + 1 .. Len(c)} \subseteq Placed(z)
    BY <2>2, <2>3, <2>4
  <2> QED BY <2>5, <2>6
<1>5. Placed(c) = Placed(a) \cup Placed(z)
  <2>1. 1 .. Len(c) = (1 .. k) \cup (k + 1 .. Len(c))
    BY <1>0
  <2>2. Placed(c) = {c[i] : i \in (1 .. k) \cup (k + 1 .. Len(c))}
    BY <2>1 DEF Placed
  <2> QED BY <1>3, <1>4, <2>2
<1> HIDE DEF a, z
<1> QED BY <1>1, <1>2, <1>3, <1>4, <1>5 DEF a, z

LEMMA InjCut ==
  ASSUME NEW c \in Lists, Inj(c), NEW k \in 0 .. Len(c)
  PROVE  /\ Inj(SubSeq(c, 1, k)) /\ Inj(SubSeq(c, k + 1, Len(c)))
         /\ Placed(SubSeq(c, 1, k)) \cap Placed(SubSeq(c, k + 1, Len(c))) = {}
<1>0. Len(c) \in Nat
  BY LenProperties DEF Lists
<1>1. Inj(SubSeq(c, 1, k))
  BY <1>0, Cut DEF Inj
<1>2. Inj(SubSeq(c, k + 1, Len(c)))
  <2> DEFINE z == SubSeq(c, k + 1, Len(c))
  <2>1. Len(z) = Len(c) - k /\ \A i \in 1 .. Len(c) - k : z[i] = c[k + i]
    BY Cut
  <2> HIDE DEF z
  <2> SUFFICES ASSUME NEW i \in 1 .. Len(c) - k, NEW j \in 1 .. Len(c) - k, z[i] = z[j]
               PROVE  i = j
    BY <2>1 DEF Inj, z
  <2>2. k + i \in 1 .. Len(c) /\ k + j \in 1 .. Len(c) /\ c[k + i] = c[k + j]
    BY <1>0, <2>1
  <2>3. k + i = k + j
    BY <2>2 DEF Inj
  <2> QED BY <2>3
<1>3. \A i \in 1 .. k, j \in k + 1 .. Len(c) : c[i] # c[j]
  BY <1>0 DEF Inj
<1> QED BY <1>1, <1>2, <1>3, Cut

-----------------------------------------------------------------------------
(* The bytes in a list.                                                    *)

LEMMA TotalType ==
  ASSUME NEW c \in Lists, NEW d \in Fields
  PROVE  /\ Total(c, d) \in Nat
         /\ Len(c) \in Nat
         /\ Total(<<>>, d) = 0
         /\ Offsets(c, d)[0] = 0
         /\ \A i \in 0 .. Len(c) : Offsets(c, d)[i] \in Nat /\ Offsets(c, d)[i] <= Total(c, d)
<1>0. Len(c) \in Nat /\ <<>> \in Lists /\ Len(<<>>) = 0
  BY LenProperties DEF Lists
<1>1. Offsets(c, d) \in [0 .. Len(c) -> Nat] /\ Offsets(c, d)[0] = 0
  BY OffsetsDef DEF Sums
<1>2. Total(<<>>, d) = 0
  BY <1>0, OffsetsDef DEF Sums, Total
<1>3. \A i \in 0 .. Len(c) : Offsets(c, d)[i] <= Total(c, d)
  BY <1>0, OffsetsMonotone DEF Total
<1> QED BY <1>0, <1>1, <1>2, <1>3 DEF Total

(* What a list holds depends on the lengths of its own fragments only.     *)
LEMMA OffsetsSame ==
  ASSUME NEW c \in Lists, NEW d \in Fields, NEW x \in Fields,
         \A f \in Placed(c) : Len(d[f]) = Len(x[f])
  PROVE  /\ \A i \in 0 .. Len(c) : Offsets(c, d)[i] = Offsets(c, x)[i]
         /\ Total(c, d) = Total(c, x)
<1>0. Len(c) \in Nat
  BY LenProperties DEF Lists
<1>1. Sums(Offsets(c, x), c, x, Len(c))
  BY OffsetsDef
<1>2. Sums(Offsets(c, x), c, d, Len(c))
  BY <1>1 DEF Sums, Placed
<1>3. \A i \in 0 .. Len(c) : Offsets(c, d)[i] = Offsets(c, x)[i]
  BY <1>0, <1>2, SumsUnique
<1> QED BY <1>0, <1>3 DEF Total

LEMMA TotalConcat ==
  ASSUME NEW c \in Lists, NEW e \in Lists, NEW d \in Fields
  PROVE  /\ Total(c \o e, d) = Total(c, d) + Total(e, d)
         /\ \A i \in 0 .. Len(c) : Offsets(c \o e, d)[i] = Offsets(c, d)[i]
<1> DEFINE z == c \o e
<1>1. /\ z \in Lists /\ Len(z) = Len(c) + Len(e)
      /\ Len(c) \in Nat /\ Len(e) \in Nat
      /\ \A i \in 1 .. Len(c) + Len(e) : z[i] = IF i <= Len(c) THEN c[i] ELSE e[i - Len(c)]
  BY ConcatProperties, LenProperties DEF Lists
<1> HIDE DEF z
<1> DEFINE f == Offsets(c, d)
           h == Offsets(e, d)
           g == [i \in 0 .. Len(z) |-> IF i <= Len(c) THEN f[i] ELSE f[Len(c)] + h[i - Len(c)]]
<1>2. Sums(f, c, d, Len(c)) /\ f \in [0 .. Len(c) -> Nat]
  BY OffsetsDef
<1>3. Sums(h, e, d, Len(e)) /\ h \in [0 .. Len(e) -> Nat]
  BY OffsetsDef
<1> HIDE DEF f, h
<1>4. Sums(g, z, d, Len(z))
  <2>1. g[0] = 0
    BY <1>1, <1>2 DEF Sums
  <2>2. ASSUME NEW i \in 1 .. Len(z) PROVE g[i] = g[i - 1] + Len(d[z[i]])
    <3>1. CASE i <= Len(c)
      <4>1. g[i] = f[i] /\ g[i - 1] = f[i - 1] /\ z[i] = c[i] /\ i \in 1 .. Len(c)
        BY <1>1, <3>1
      <4> QED BY <1>2, <4>1 DEF Sums
    <3>2. CASE i > Len(c)
      <4> DEFINE j == i - Len(c)
      <4>1. j \in 1 .. Len(e) /\ g[i] = f[Len(c)] + h[j] /\ z[i] = e[j]
        BY <1>1, <3>2
      <4>2. g[i - 1] = f[Len(c)] + h[j - 1]
        <5>1. CASE i - 1 = Len(c)
          <6>1. g[i - 1] = f[Len(c)] /\ j - 1 = 0
            BY <1>1, <5>1
          <6> QED BY <1>1, <1>2, <1>3, <6>1 DEF Sums
        <5>2. CASE i - 1 > Len(c)
          <6>1. (i - 1) - Len(c) = j - 1
            BY <1>1
          <6> QED BY <1>1, <5>2, <6>1
        <5> QED BY <1>1, <3>2, <5>1, <5>2
      <4> HIDE DEF g, j
      <4>3. h[j] = h[j - 1] + Len(d[e[j]]) /\ Len(d[e[j]]) \in Nat
        BY <1>3, <4>1, LenOfFragment DEF Sums
      <4>4. h[j - 1] \in Nat /\ f[Len(c)] \in Nat
        <5>1. j - 1 \in 0 .. Len(e) /\ Len(c) \in 0 .. Len(c)
          BY <1>1, <4>1
        <5> QED BY <1>2, <1>3, <5>1
      <4> QED BY <4>1, <4>2, <4>3, <4>4
    <3> QED BY <1>1, <3>1, <3>2
  <2> HIDE DEF g
  <2> QED BY <2>1, <2>2 DEF Sums
<1>5. \A i \in 0 .. Len(z) : Offsets(z, d)[i] = g[i]
  <2> HIDE DEF g
  <2> QED BY <1>1, <1>4, SumsUnique
<1>6. ASSUME NEW i \in 0 .. Len(c) PROVE Offsets(z, d)[i] = f[i]
  BY <1>1, <1>5
<1>7. Total(z, d) = f[Len(c)] + h[Len(e)]
  <2>1. CASE Len(e) = 0
    <3>1. h[Len(e)] = 0 /\ Len(z) = Len(c) /\ f[Len(c)] \in Nat
      BY <1>1, <1>2, <1>3, <2>1 DEF Sums
    <3>2. Total(z, d) = f[Len(c)]
      BY <1>1, <1>6, <3>1 DEF Total
    <3> QED BY <3>1, <3>2
  <2>2. CASE Len(e) > 0
    BY <1>1, <1>5, <2>2 DEF Total
  <2> QED BY <1>1, <2>1, <2>2
<1> QED BY <1>6, <1>7 DEF z, f, h, Total

LEMMA TotalCut ==
  ASSUME NEW c \in Lists, NEW d \in Fields, NEW k \in 0 .. Len(c)
  PROVE  /\ Total(SubSeq(c, 1, k), d) = Offsets(c, d)[k]
         /\ Total(SubSeq(c, k + 1, Len(c)), d) = Total(c, d) - Offsets(c, d)[k]
<1> DEFINE a == SubSeq(c, 1, k)
           z == SubSeq(c, k + 1, Len(c))
<1>0. Len(c) \in Nat
  BY LenProperties DEF Lists
<1>1. a \in Lists /\ z \in Lists /\ Len(a) = k
  BY Cut
<1>2. a \o z = c
  <2>1. 1 \in 1 .. Len(c) + 1 /\ k \in 1 - 1 .. Len(c) /\ Len(c) \in k .. Len(c)
    BY <1>0
  <2>2. a \o z = SubSeq(c, 1, Len(c))
    BY <2>1, ConcatAdjacentSubSeq DEF Lists
  <2> QED BY <2>2, SubSeqFull DEF Lists
<1> HIDE DEF a, z
<1>3. Total(c, d) = Total(a, d) + Total(z, d) /\ Offsets(c, d)[k] = Offsets(a, d)[k]
  <2>1. /\ Total(a \o z, d) = Total(a, d) + Total(z, d)
        /\ \A i \in 0 .. Len(a) : Offsets(a \o z, d)[i] = Offsets(a, d)[i]
    BY <1>1, TotalConcat
  <2> QED BY <1>1, <1>2, <2>1
<1>4. Total(a, d) = Offsets(c, d)[k]
  BY <1>1, <1>3 DEF Total
<1>5. Total(a, d) \in Nat /\ Total(z, d) \in Nat
  BY <1>1, TotalType
<1> QED BY <1>3, <1>4, <1>5 DEF a, z

(* One fragment of the list is m bytes longer in x than in d.              *)
LEMMA TotalOneChanged ==
  ASSUME NEW c \in Lists, NEW d \in Fields, NEW x \in Fields, NEW m \in Int,
         NEW k \in 1 .. Len(c), Len(x[c[k]]) = Len(d[c[k]]) + m,
         \A i \in 1 .. Len(c) : i # k => Len(x[c[i]]) = Len(d[c[i]])
  PROVE  Total(c, x) = Total(c, d) + m
<1>0. Len(c) \in Nat
  BY LenProperties DEF Lists
<1> DEFINE f == Offsets(c, d)
           g == [i \in 0 .. Len(c) |-> IF i < k THEN f[i] ELSE f[i] + m]
<1>1. /\ Sums(f, c, d, Len(c)) /\ f \in [0 .. Len(c) -> Nat]
  BY OffsetsDef
<1> HIDE DEF f
<1>2. Sums(g, c, x, Len(c))
  <2>1. g[0] = 0
    BY <1>0, <1>1 DEF Sums
  <2>2. ASSUME NEW i \in 1 .. Len(c) PROVE g[i] = g[i - 1] + Len(x[c[i]])
    <3>1. /\ f[i] = f[i - 1] + Len(d[c[i]]) /\ f[i] \in Nat /\ f[i - 1] \in Nat
          /\ Len(d[c[i]]) \in Nat
      <4>1. i - 1 \in 0 .. Len(c) /\ i \in 0 .. Len(c)
        BY <1>0
      <4> QED BY <1>1, <4>1, LenOfFragment DEF Sums
    <3>2. CASE i < k
      <4>1. g[i] = f[i] /\ g[i - 1] = f[i - 1] /\ Len(x[c[i]]) = Len(d[c[i]])
        BY <1>0, <3>2
      <4> QED BY <3>1, <4>1
    <3>3. CASE i = k
      <4>1. g[i] = f[i] + m /\ g[i - 1] = f[i - 1] /\ Len(x[c[i]]) = Len(d[c[i]]) + m
        BY <1>0, <3>3
      <4> DEFINE u == f[i - 1]
                 v == Len(d[c[i]])
      <4>2. /\ g[i] = (u + v) + m /\ g[i - 1] = u /\ Len(x[c[i]]) = v + m
            /\ u \in Nat /\ v \in Nat
        BY <3>1, <4>1
      <4> HIDE DEF g, u, v
      <4> QED BY <4>2
    <3>4. CASE i > k
      <4>1. g[i] = f[i] + m /\ g[i - 1] = f[i - 1] + m /\ Len(x[c[i]]) = Len(d[c[i]])
        BY <1>0, <3>4
      <4> HIDE DEF g
      <4> QED BY <3>1, <4>1
    <3> QED BY <3>2, <3>3, <3>4
  <2> HIDE DEF g
  <2> QED BY <2>1, <2>2 DEF Sums
<1>3. g[Len(c)] = f[Len(c)] + m
  BY <1>0
<1> HIDE DEF g
<1>4. Offsets(c, x)[Len(c)] = g[Len(c)]
  BY <1>0, <1>2, SumsUnique
<1> QED BY <1>3, <1>4 DEF Total, f

-----------------------------------------------------------------------------
(* Taking and moving whole fragments.                                      *)

Fitting(c, d, n) == {i \in 1 .. Len(c) : Offsets(c, d)[i] <= n}

LEMMA NonEmpty ==
  ASSUME NEW c \in Lists, NEW d \in Fields, NEW i \in 1 .. Len(c), d[c[i]] # <<>>
  PROVE  Len(d[c[i]]) > 0
<1>1. d[c[i]] \in Seq(Byte)
  BY ElementOfSeq DEF Lists, Fields
<1> QED BY <1>1, EmptySeq

(* The first fragments that together hold at most n bytes.                 *)
LEMMA FittingBounds ==
  ASSUME NEW c \in Lists, NEW d \in Fields, NEW n \in Nat
  PROVE  LET k == Cardinality(Fitting(c, d, n))
         IN /\ k \in 0 .. Len(c)
            /\ Offsets(c, d)[k] <= n
            /\ k < Len(c) => Offsets(c, d)[k + 1] > n
            /\ k < Len(c) => n - Offsets(c, d)[k] < Len(d[c[k + 1]])
<1> DEFINE f == Offsets(c, d)
           S == Fitting(c, d, n)
           k == Cardinality(S)
<1>0. Len(c) \in Nat
  BY LenProperties DEF Lists
<1>1. Sums(f, c, d, Len(c)) /\ f \in [0 .. Len(c) -> Nat]
  BY OffsetsDef
<1>2. S = {i \in 1 .. Len(c) : f[i] <= n}
  BY DEF Fitting
<1>3. \A i \in 1 .. Len(c) : f[i - 1] <= f[i]
  BY <1>0, OffsetsMonotone
<1> HIDE DEF f, S
<1>4. ASSUME NEW i \in S, i > 1 PROVE i - 1 \in S
  <2>1. i \in 1 .. Len(c) /\ i - 1 \in 1 .. Len(c) /\ f[i] <= n
    BY <1>0, <1>2, <1>4
  <2>2. f[i - 1] <= f[i] /\ f[i] \in Nat /\ f[i - 1] \in Nat
    BY <1>0, <1>1, <1>3, <2>1
  <2> QED BY <1>2, <2>1, <2>2
<1>5. k \in 0 .. Len(c) /\ S = 1 .. k
  <2>1. S \in SUBSET (1 .. Len(c))
    BY <1>2
  <2> QED BY <1>0, <1>4, <2>1, Prefix
<1> HIDE DEF k
<1>6. f[k] <= n
  <2>1. CASE k = 0
    BY <1>1, <2>1 DEF Sums
  <2>2. CASE k > 0
    <3>1. k \in S
      BY <1>5, <2>2
    <3> QED BY <1>2, <3>1
  <2> QED BY <1>5, <2>1, <2>2
<1>7. ASSUME k < Len(c) PROVE f[k + 1] > n /\ n - f[k] < Len(d[c[k + 1]])
  <2>1. k + 1 \in 1 .. Len(c) /\ k + 1 \in 0 .. Len(c) /\ k + 1 \notin S
    BY <1>0, <1>5, <1>7
  <2>2. f[k + 1] > n
    BY <1>1, <1>2, <2>1
  <2>3. f[k + 1] = f[k] + Len(d[c[k + 1]]) /\ f[k] \in Nat /\ Len(d[c[k + 1]]) \in Nat
    <3>1. k + 1 - 1 = k
      BY <1>5
    <3> QED BY <1>1, <1>5, <2>1, <3>1, LenOfFragment DEF Sums
  <2> QED BY <2>2, <2>3
<1> QED BY <1>5, <1>6, <1>7 DEF f, S, k

(* bulp_buffer_read stops where its count is used up, before or after the  *)
(* fragments that fit: without empty fragments it is the same place.       *)
LEMMA WholeIsFitting ==
  ASSUME NEW c \in Lists, data \in Fields, NEW n \in Nat,
         \A f \in Placed(c) : data[f] # <<>>
  PROVE  Whole(c, n) = Cardinality(Fitting(c, data, n))
<1> DEFINE f == Offsets(c, data)
<1>0. Len(c) \in Nat
  BY LenProperties DEF Lists
<1>1. Sums(f, c, data, Len(c)) /\ f \in [0 .. Len(c) -> Nat]
  BY OffsetsDef
<1> HIDE DEF f
<1>2. ASSUME NEW i \in 1 .. Len(c), f[i] <= n PROVE f[i - 1] < n
  <2>1. data[c[i]] # <<>>
    BY DEF Placed
  <2>2. Len(data[c[i]]) > 0 /\ Len(data[c[i]]) \in Nat
    BY <2>1, NonEmpty, LenOfFragment
  <2>3. f[i] = f[i - 1] + Len(data[c[i]]) /\ f[i - 1] \in Nat
    <3>1. i - 1 \in 0 .. Len(c)
      BY <1>0
    <3> QED BY <1>1, <3>1 DEF Sums
  <2> QED BY <1>2, <2>2, <2>3
<1>3. {i \in 1 .. Len(c) : f[i - 1] < n /\ f[i] <= n} = {i \in 1 .. Len(c) : f[i] <= n}
  BY <1>2
<1>4. Whole(c, n) = Cardinality({i \in 1 .. Len(c) : f[i - 1] < n /\ f[i] <= n})
  BY DEF Whole, f
<1>5. Fitting(c, data, n) = {i \in 1 .. Len(c) : f[i] <= n}
  BY DEF Fitting, f
<1> QED BY <1>3, <1>4, <1>5

(* The bytes that go are those asked for, or all there are.                *)
LEMMA TakenBounds ==
  ASSUME NEW c \in Lists, data \in Fields, NEW n \in Nat,
         \A f \in Placed(c) : data[f] # <<>>
  PROVE  LET k == Whole(c, n)
         IN /\ k \in 0 .. Len(c)
            /\ Offsets(c, data)[k] <= n
            /\ Taken(c, n) \in Nat
            /\ Taken(c, n) <= Total(c, data)
            /\ k < Len(c) => /\ Taken(c, n) = n
                             /\ n - Offsets(c, data)[k] \in Nat
                             /\ n - Offsets(c, data)[k] < Len(data[c[k + 1]])
            /\ k = Len(c) => Taken(c, n) = Total(c, data)
<1> DEFINE f == Offsets(c, data)
           k == Whole(c, n)
<1>0. Len(c) \in Nat
  BY LenProperties DEF Lists
<1>1. /\ k \in 0 .. Len(c) /\ f[k] <= n
      /\ k < Len(c) => f[k + 1] > n /\ n - f[k] < Len(data[c[k + 1]])
  BY WholeIsFitting, FittingBounds
<1>2. \A i \in 0 .. Len(c) : f[i] \in Nat /\ f[i] <= Total(c, data)
  BY TotalType
<1>3. Total(c, data) = f[Len(c)] /\ Total(c, data) \in Nat
  BY TotalType DEF Total
<1>4. Taken(c, n) = IF k < Len(c) THEN n ELSE f[k]
  BY DEF Taken
<1> HIDE DEF f, k
<1>5. CASE k < Len(c)
  <2>1. k + 1 \in 0 .. Len(c)
    BY <1>0, <1>1, <1>5
  <2>2. n < f[k + 1] /\ f[k + 1] <= Total(c, data) /\ f[k + 1] \in Nat /\ f[k] \in Nat
    BY <1>1, <1>2, <1>5, <2>1
  <2>3. Taken(c, n) = n
    BY <1>4, <1>5
  <2>4. n <= Total(c, data) /\ n - f[k] \in Nat
    BY <1>1, <1>3, <2>2
  <2> QED BY <1>0, <1>1, <1>5, <2>3, <2>4 DEF f, k
<1>6. CASE k = Len(c)
  <2>1. Taken(c, n) = f[Len(c)]
    BY <1>0, <1>4, <1>6
  <2> QED BY <1>0, <1>1, <1>3, <1>6, <2>1 DEF f, k
<1> QED BY <1>0, <1>1, <1>5, <1>6

-----------------------------------------------------------------------------
(* New fragments and what is written to them.                              *)

LEMMA FreshDef ==
  ASSUME bin \in SUBSET Frag, NEW k \in Nat, NEW fs \in Fresh(k)
  PROVE  /\ fs \in Lists /\ Len(fs) = k /\ Inj(fs)
         /\ Placed(fs) \subseteq bin \cup Unallocated
<1>1. Unallocated \subseteq Frag
  BY DEF Unallocated
<1>2. fs \in [1 .. k -> bin \cup Unallocated]
  BY DEF Fresh
<1>3. fs \in Seq(Frag) /\ Len(fs) = k
  BY <1>1, <1>2
<1>4. Inj(fs)
  BY <1>3 DEF Inj, Fresh
<1>5. Placed(fs) \subseteq bin \cup Unallocated
  BY <1>2, <1>3 DEF Placed
<1> QED BY <1>3, <1>4, <1>5 DEF Lists

(* The bytes of L, r of which found room before, that i fragments take.    *)
Upto(i, r, L) == Lesser(r + i * Cap, L)

LEMMA UptoBounds ==
  ASSUME NEW i \in Nat \ {0}, NEW r \in Nat, NEW L \in Nat
  PROVE  /\ Upto(i, r, L) \in Nat /\ Upto(i - 1, r, L) \in Nat
         /\ r + (i - 1) * Cap \in Nat /\ r + i * Cap = (r + (i - 1) * Cap) + Cap
         /\ Upto(i, r, L) - Upto(i - 1, r, L) \in 0 .. Cap
         /\ r + (i - 1) * Cap < L => Upto(i, r, L) > Upto(i - 1, r, L)
<1>1. Cap \in Nat \ {0}
  BY CapNat
<1> DEFINE u == r + (i - 1) * Cap
<1>2. (i - 1) * Cap \in Nat /\ i * Cap = (i - 1) * Cap + Cap
  <2>1. \A j, m \in Nat : j * m \in Nat /\ (j + 1) * m = j * m + m
    OBVIOUS
  <2>2. i - 1 \in Nat /\ (i - 1) + 1 = i
    OBVIOUS
  <2> QED BY <1>1, <2>1, <2>2
<1>3. u \in Nat /\ r + i * Cap = u + Cap
  <2> DEFINE p == (i - 1) * Cap
             t == i * Cap
  <2>1. p \in Nat /\ t = p + Cap
    BY <1>2
  <2> HIDE DEF p, t
  <2>2. r + p \in Nat /\ r + t = (r + p) + Cap
    BY <1>1, <2>1
  <2> QED BY <2>2 DEF p, t
<1>4. Upto(i - 1, r, L) = Lesser(u, L) /\ Upto(i, r, L) = Lesser(u + Cap, L)
  BY <1>3 DEF Upto
<1> HIDE DEF u
<1>5. Upto(i, r, L) - Upto(i - 1, r, L) \in 0 .. Cap
  BY <1>1, <1>3, <1>4 DEF Lesser
<1>6. u < L => Upto(i, r, L) > Upto(i - 1, r, L)
  BY <1>1, <1>3, <1>4 DEF Lesser
<1>7. Upto(i, r, L) \in Nat /\ Upto(i - 1, r, L) \in Nat
  BY <1>1, <1>3, <1>4 DEF Lesser
<1> QED BY <1>3, <1>5, <1>6, <1>7 DEF u

(* The fragments that are needed take all there is, and none stays empty.  *)
LEMMA NeededSuffice ==
  ASSUME NEW L \in Nat, NEW room \in Nat
  PROVE  LET r == Lesser(L, room)
             n == Needed(L, room)
         IN /\ Upto(n, r, L) = L
            /\ \A i \in 1 .. n : r + (i - 1) * Cap < L
<1> DEFINE r == Lesser(L, room)
           n == Needed(L, room)
<1>0. Cap \in Nat \ {0} /\ n \in Nat /\ r \in Nat
  BY CapNat, NeededBounds DEF Lesser
<1>1. CASE L <= room
  <2>1. n = 0 /\ r = L
    BY <1>1, NeededBounds DEF Lesser
  <2> HIDE DEF n, r
  <2>2. r + 0 * Cap = L
    BY <1>0, <2>1
  <2>3. Upto(n, r, L) = L /\ \A i \in 1 .. n : r + (i - 1) * Cap < L
    BY <1>0, <2>1, <2>2 DEF Upto, Lesser
  <2> QED BY <2>3 DEF n, r
<1>2. CASE L > room
  <2>1. r = room
    BY <1>2 DEF Lesser
  <2>2. n >= 1 /\ r + (n - 1) * Cap < L /\ L <= r + n * Cap
    BY <1>2, <2>1, NeededBounds
  <2> HIDE DEF n, r
  <2>3. Upto(n, r, L) = L
    <3> DEFINE p == r + n * Cap
    <3>1. p \in Nat /\ L <= p /\ Upto(n, r, L) = Lesser(p, L)
      BY <1>0, <2>2 DEF Upto
    <3> HIDE DEF p
    <3> QED BY <3>1 DEF Lesser
  <2>4. ASSUME NEW i \in 1 .. n PROVE r + (i - 1) * Cap < L
    <3>1. \A a, b, m \in Nat : a <= b => a * m <= b * m
      OBVIOUS
    <3> DEFINE p == (i - 1) * Cap
               q == (n - 1) * Cap
    <3>2. p \in Nat /\ q \in Nat /\ p <= q
      <4>1. i - 1 \in Nat /\ n - 1 \in Nat /\ i - 1 <= n - 1
        BY <1>0
      <4> QED BY <1>0, <3>1, <4>1
    <3>3. r + q < L
      BY <2>2
    <3> HIDE DEF p, q
    <3>4. r + p < L
      BY <1>0, <3>2, <3>3
    <3> QED BY <3>4 DEF p
  <2> QED BY <2>3, <2>4 DEF n, r
<1> QED BY <1>1, <1>2

LEMMA IndexInList ==
  ASSUME NEW fs \in Lists, Inj(fs), NEW i \in 1 .. Len(fs)
  PROVE  IndexIn(fs, fs[i]) = i
<1>1. \E j \in 1 .. Len(fs) : fs[j] = fs[i]
  OBVIOUS
<1>2. \A j \in 1 .. Len(fs) : fs[j] = fs[i] => j = i
  BY DEF Inj
<1> QED BY <1>1, <1>2 DEF IndexIn

LEMMA FillLengths ==
  ASSUME NEW d \in Fields, NEW tail \in Frag \cup {NULL}, NEW fs \in Lists, Inj(fs),
         tail \notin Placed(fs), NEW s \in Seq(Byte), Room(tail) \in Nat
  PROVE  LET r == Lesser(Len(s), Room(tail))
             x == Fill(d, tail, fs, s)
         IN /\ x \in Fields
            /\ r \in Nat
            /\ \A i \in 1 .. Len(fs) :
                 Len(x[fs[i]]) = Upto(i, r, Len(s)) - Upto(i - 1, r, Len(s))
            /\ tail \in Frag => Len(x[tail]) = Len(d[tail]) + r
            /\ \A f \in Frag : f \notin Placed(fs) /\ f # tail => x[f] = d[f]
<1> DEFINE L == Len(s)
           r == Lesser(L, Room(tail))
           x == Fill(d, tail, fs, s)
           Chunk(i) == SubSeq(s, r + (i - 1) * Cap + 1, Lesser(r + i * Cap, L))
<1>0. L \in Nat /\ s \in [1 .. L -> Byte] /\ Len(fs) \in Nat /\ Cap \in Nat \ {0}
  BY LenProperties, CapNat DEF Lists
<1>1. r \in Nat /\ r <= L
  BY <1>0 DEF Lesser
<1>2. x = [f \in Frag |-> IF f \in Placed(fs) THEN Chunk(IndexIn(fs, f))
                          ELSE IF f = tail THEN d[f] \o SubSeq(s, 1, r) ELSE d[f]]
  BY DEF Fill
<1> HIDE DEF r, x, L
<1>3. ASSUME NEW i \in 1 .. Len(fs)
      PROVE  Chunk(i) \in Seq(Byte) /\ Len(Chunk(i)) = Upto(i, r, L) - Upto(i - 1, r, L)
  <2> DEFINE u == r + (i - 1) * Cap
             t == Lesser(r + i * Cap, L)
  <2>1. i \in Nat \ {0}
    BY <1>0
  <2>2. u \in Nat /\ r + i * Cap = u + Cap
    BY <1>0, <1>1, <2>1, UptoBounds
  <2>3. Upto(i, r, L) = t /\ Upto(i - 1, r, L) = Lesser(u, L)
    BY DEF Upto
  <2>4. t \in Nat /\ t <= L /\ Chunk(i) = SubSeq(s, u + 1, t)
    BY <1>0, <2>2 DEF Lesser
  <2>5. t = Lesser(u + Cap, L)
    BY <2>2
  <2> HIDE DEF u, t, Chunk
  <2>6. \A j \in u + 1 .. t : s[j] \in Byte
    BY <1>0, <2>2, <2>4
  <2>7. /\ Chunk(i) \in Seq(Byte)
        /\ Len(Chunk(i)) = IF u + 1 <= t THEN t - (u + 1) + 1 ELSE 0
    BY <2>2, <2>4, <2>6, SubSeqProperties, u + 1 \in Int, t \in Int
  <2>8. Len(Chunk(i)) = t - Lesser(u, L)
    BY <1>0, <2>2, <2>4, <2>5, <2>7 DEF Lesser
  <2> QED BY <2>3, <2>7, <2>8
<1>4. SubSeq(s, 1, r) \in Seq(Byte) /\ Len(SubSeq(s, 1, r)) = r
  <2>1. \A j \in 1 .. r : s[j] \in Byte
    BY <1>0, <1>1
  <2>2. /\ SubSeq(s, 1, r) \in Seq(Byte)
        /\ Len(SubSeq(s, 1, r)) = IF 1 <= r THEN r - 1 + 1 ELSE 0
    BY <1>1, <2>1, SubSeqProperties, 1 \in Int, r \in Int
  <2> QED BY <1>1, <2>2
<1> HIDE DEF Chunk
<1>5. ASSUME NEW i \in 1 .. Len(fs) PROVE x[fs[i]] = Chunk(i)
  <2>1. fs[i] \in Frag /\ fs[i] \in Placed(fs) /\ IndexIn(fs, fs[i]) = i
    BY IndexInList, ElementOfSeq DEF Lists, Placed
  <2> QED BY <1>2, <2>1
<1>6. ASSUME tail \in Frag
      PROVE  /\ x[tail] = d[tail] \o SubSeq(s, 1, r)
             /\ x[tail] \in Seq(Byte) /\ Len(x[tail]) = Len(d[tail]) + r
  <2>1. x[tail] = d[tail] \o SubSeq(s, 1, r) /\ d[tail] \in Seq(Byte)
    BY <1>2, <1>6 DEF Fields
  <2> QED BY <1>4, <2>1, ConcatProperties
<1>7. \A f \in Frag : f \notin Placed(fs) /\ f # tail => x[f] = d[f]
  BY <1>2
<1>8. ASSUME NEW f \in Frag PROVE x[f] \in Seq(Byte)
  <2>1. CASE f \in Placed(fs)
    BY <1>3, <1>5, <2>1 DEF Placed
  <2>2. CASE f \notin Placed(fs)
    BY <1>6, <1>7, <2>2 DEF Fields
  <2> QED BY <2>1, <2>2
<1>9. x \in Fields
  BY <1>2, <1>8 DEF Fields
<1> QED BY <1>1, <1>3, <1>5, <1>6, <1>7, <1>9 DEF r, x, L

(* The fragments fs, filled with what did not find room, hold just that.   *)
LEMMA FilledTotal ==
  ASSUME NEW fs \in Lists, NEW x \in Fields, NEW r \in Nat, NEW L \in Nat, r <= L,
         \A i \in 1 .. Len(fs) : Len(x[fs[i]]) = Upto(i, r, L) - Upto(i - 1, r, L),
         Upto(Len(fs), r, L) = L
  PROVE  Total(fs, x) = L - r
<1>0. Len(fs) \in Nat
  BY LenProperties DEF Lists
<1> DEFINE g == [i \in 0 .. Len(fs) |-> Upto(i, r, L) - r]
<1>1. Upto(0, r, L) = r
  <2>1. r + 0 * Cap = r
    BY CapNat
  <2> QED BY <2>1 DEF Upto, Lesser
<1>2. Sums(g, fs, x, Len(fs))
  <2>1. g[0] = 0
    BY <1>0, <1>1
  <2>2. ASSUME NEW i \in 1 .. Len(fs) PROVE g[i] = g[i - 1] + Len(x[fs[i]])
    <3>1. g[i] = Upto(i, r, L) - r /\ g[i - 1] = Upto(i - 1, r, L) - r
      BY <1>0
    <3>i. i \in Nat \ {0}
      BY <1>0
    <3>2. Upto(i, r, L) \in Nat /\ Upto(i - 1, r, L) \in Nat
      BY <3>i, UptoBounds
    <3> DEFINE u == Upto(i, r, L)
               v == Upto(i - 1, r, L)
    <3> HIDE DEF g, u, v
    <3>3. g[i] = u - r /\ g[i - 1] = v - r /\ Len(x[fs[i]]) = u - v /\ u \in Nat /\ v \in Nat
      BY <3>1, <3>2 DEF u, v
    <3> QED BY <3>3
  <2> HIDE DEF g
  <2> QED BY <2>1, <2>2 DEF Sums
<1>3. g[Len(fs)] = L - r
  BY <1>0
<1>4. Offsets(fs, x)[Len(fs)] = g[Len(fs)]
  <2> HIDE DEF g
  <2> QED BY <1>0, <1>2, SumsUnique
<1> QED BY <1>3, <1>4 DEF Total

(* What the loop of bulp_buffer_append does to a list c whose last         *)
(* fragment is tail: the list grows by the bytes s, all of its fragments   *)
(* stay non-empty, the new ones start at index 0 and fit their allocation. *)
LEMMA Stored ==
  ASSUME NEW c \in Lists, Inj(c), NEW d \in Fields, NEW s \in Seq(Byte),
         NEW tail \in Frag \cup {NULL},
         tail = IF c = <<>> THEN NULL ELSE c[Len(c)],
         Room(tail) \in Nat,
         NEW fs \in Lists, Inj(fs), Placed(fs) \cap Placed(c) = {},
         Len(fs) = Needed(Len(s), Room(tail))
  PROVE  LET e == Link(c, tail, fs)
             x == Fill(d, tail, fs, s)
         IN /\ e \in Lists /\ Inj(e) /\ x \in Fields
            /\ Placed(e) = Placed(c) \cup Placed(fs)
            /\ (IF fs = <<>> THEN tail ELSE fs[Len(fs)])
                  = IF e = <<>> THEN NULL ELSE e[Len(e)]
            /\ Total(e, x) = Total(c, d) + Len(s)
            /\ \A f \in Placed(fs) : x[f] # <<>> /\ Len(x[f]) <= Cap
            /\ tail \in Frag => Len(x[tail]) = Len(d[tail]) + Lesser(Len(s), Room(tail))
            /\ \A f \in Frag : f \notin Placed(fs) /\ f # tail => x[f] = d[f]
<1> DEFINE e == Link(c, tail, fs)
           x == Fill(d, tail, fs, s)
           L == Len(s)
           room == Room(tail)
           r == Lesser(L, room)
<1>0. Len(c) \in Nat /\ Len(fs) \in Nat /\ L \in Nat /\ Cap \in Nat \ {0} /\ NULL \notin Frag
  BY LenProperties, CapNat, ValueAssumption DEF Lists
<1>1. (c = <<>> => Len(c) = 0) /\ (Len(c) = 0 => c = <<>>) /\ (fs = <<>> <=> Len(fs) = 0)
  BY EmptySeq DEF Lists
<1>2. c # <<>> => tail = c[Len(c)] /\ tail \in Frag /\ tail \in Placed(c)
  BY <1>0, <1>1, ElementOfSeq DEF Placed, Lists
<1>3. c = <<>> => tail = NULL /\ room = 0
  BY DEF Room
<1>4. Placed(fs) \subseteq Frag /\ Placed(c) \subseteq Frag
  BY PlacedConcat
<1>5. tail \notin Placed(fs)
  BY <1>0, <1>2, <1>3, <1>4
<1>6. e = c \o fs
  <2>1. <<>> \o fs = fs /\ c \o <<>> = c
    BY ConcatEmptySeq DEF Lists
  <2> QED BY <1>0, <1>2, <1>3, <2>1 DEF Link
<1>7. /\ e \in Lists /\ Inj(e) /\ Placed(e) = Placed(c) \cup Placed(fs)
      /\ Len(e) = Len(c) + Len(fs)
      /\ \A i \in 1 .. Len(c) + Len(fs) : e[i] = IF i <= Len(c) THEN c[i] ELSE fs[i - Len(c)]
  <2> HIDE DEF e
  <2>1. e \in Lists /\ Placed(e) = Placed(c) \cup Placed(fs)
    BY <1>6, PlacedConcat
  <2>2. Placed(c) \cap Placed(fs) = {}
    OBVIOUS
  <2>3. Inj(e)
    BY <1>6, <2>2, InjConcat
  <2>4. /\ Len(e) = Len(c) + Len(fs)
        /\ \A i \in 1 .. Len(c) + Len(fs) : e[i] = IF i <= Len(c) THEN c[i] ELSE fs[i - Len(c)]
    BY <1>6, ConcatProperties DEF Lists
  <2> QED BY <2>1, <2>3, <2>4
<1>8. /\ x \in Fields /\ r \in Nat
      /\ \A i \in 1 .. Len(fs) : Len(x[fs[i]]) = Upto(i, r, L) - Upto(i - 1, r, L)
      /\ tail \in Frag => Len(x[tail]) = Len(d[tail]) + r
      /\ \A f \in Frag : f \notin Placed(fs) /\ f # tail => x[f] = d[f]
  <2>1. Room(tail) \in Nat /\ Inj(fs) /\ tail \notin Placed(fs)
    BY <1>5
  <2> QED BY ONLY <2>1, FillLengths, d \in Fields, tail \in Frag \cup {NULL}, fs \in Lists,
                  s \in Seq(Byte)
<1> HIDE DEF e, x, L, r, room
<1>9. (IF fs = <<>> THEN tail ELSE fs[Len(fs)]) = IF e = <<>> THEN NULL ELSE e[Len(e)]
  <2>1. CASE fs = <<>>
    <3>1. e = c
      BY <1>6, <2>1, ConcatEmptySeq DEF Lists
    <3> QED BY <2>1, <3>1
  <2>2. CASE fs # <<>>
    <3>1. Len(fs) > 0 /\ Len(e) > 0 /\ Len(e) - Len(c) = Len(fs)
      BY <1>0, <1>1, <1>7, <2>2
    <3>2. e[Len(e)] = fs[Len(fs)]
      BY <1>0, <1>7, <3>1
    <3>3. e # <<>>
      BY <3>1, EmptySeq DEF Lists
    <3> QED BY <2>2, <3>2, <3>3
  <2> QED BY <2>1, <2>2
<1>10. /\ Upto(Len(fs), r, L) = L
       /\ \A i \in 1 .. Len(fs) : r + (i - 1) * Cap < L
  BY <1>0, NeededSuffice DEF L, room, r
<1>11. ASSUME NEW f \in Placed(fs) PROVE x[f] # <<>> /\ Len(x[f]) <= Cap
  <2>1. PICK i \in 1 .. Len(fs) : f = fs[i]
    BY DEF Placed
  <2>2. Len(x[f]) = Upto(i, r, L) - Upto(i - 1, r, L)
    BY <1>8, <2>1
  <2>i. i \in Nat \ {0} /\ r \in Nat /\ L \in Nat /\ r + (i - 1) * Cap < L
    BY <1>0, <1>8, <1>10
  <2>3. /\ Upto(i, r, L) \in Nat /\ Upto(i - 1, r, L) \in Nat
        /\ Upto(i, r, L) - Upto(i - 1, r, L) \in 0 .. Cap
        /\ Upto(i, r, L) > Upto(i - 1, r, L)
    BY <2>i, UptoBounds
  <2>4. Len(x[f]) > 0 /\ Len(x[f]) <= Cap
    BY <1>0, <2>2, <2>3
  <2> QED BY <2>4, EmptySeq
<1>12. Total(fs, x) = L - r
  <2>1. r <= L
    BY <1>0 DEF r, Lesser, room
  <2>2. r \in Nat /\ L \in Nat /\ x \in Fields
    BY <1>0, <1>8
  <2>3. \A i \in 1 .. Len(fs) : Len(x[fs[i]]) = Upto(i, r, L) - Upto(i - 1, r, L)
    BY <1>8
  <2>4. Upto(Len(fs), r, L) = L
    BY <1>10
  <2> QED BY ONLY fs \in Lists, <2>1, <2>2, <2>3, <2>4, FilledTotal
<1>13. Total(c, x) = Total(c, d) + r
  <2>1. CASE c = <<>>
    <3>1. r = 0
      BY <1>0, <1>3, <2>1 DEF r, Lesser, room
    <3> QED BY <2>1, <3>1, <1>8, TotalType
  <2>2. CASE c # <<>>
    <3>1. Len(c) \in 1 .. Len(c)
      BY <1>0, <1>1, <2>2
    <3>2. Len(x[c[Len(c)]]) = Len(d[c[Len(c)]]) + r
      BY <1>2, <1>8, <2>2
    <3>3. ASSUME NEW i \in 1 .. Len(c), i # Len(c) PROVE Len(x[c[i]]) = Len(d[c[i]])
      <4>1. c[i] # tail
        BY <1>2, <2>2, <3>1, <3>3 DEF Inj
      <4>2. c[i] \in Frag /\ c[i] \in Placed(c)
        BY ElementOfSeq DEF Placed, Lists
      <4>3. x[c[i]] = d[c[i]]
        BY <1>8, <4>1, <4>2
      <4> QED BY <4>3
    <3> QED BY <1>8, <3>1, <3>2, <3>3, TotalOneChanged, r \in Int
  <2> QED BY <2>1, <2>2
<1>14. Total(e, x) = Total(c, d) + L
  <2>1. Total(e, x) = Total(c, x) + Total(fs, x)
    BY <1>6, <1>8, TotalConcat
  <2>2. Total(c, d) \in Nat
    BY TotalType
  <2> QED BY <1>0, <1>8, <1>12, <1>13, <2>1, <2>2
<1> QED BY <1>7, <1>8, <1>9, <1>11, <1>14 DEF e, x, L, r, room

-----------------------------------------------------------------------------
(***************************************************************************)
(* The inductive invariant.  It says what the invariants of the runs say   *)
(* together (each needs the others), arranged for the proofs: what one     *)
(* list promises, and where each fragment is (in the bin, in exactly one   *)
(* list, or nowhere), as formulas about constants, so that the lemmas      *)
(* below can apply twice in one step.                                      *)
(***************************************************************************)

(* List c with last_frag t and size n, when the fragments hold d.          *)
Good(c, t, n, d) ==
  /\ Inj(c)
  /\ t = IF c = <<>> THEN NULL ELSE c[Len(c)]
  /\ n = Total(c, d)
  /\ \A f \in Placed(c) : d[f] # <<>>

(* The buffers B in use hold the fragments pl[b], of kinds kd; bn is the   *)
(* bin and ln is lent.                                                     *)
Sorted(B, pl, kd, bn, ln) ==
  /\ \A b, e \in B : b # e => pl[b] \cap pl[e] = {}
  /\ \A b \in B : \A f \in pl[b] : f \notin bn /\ kd[f] # FREE
  /\ \A f \in bn : kd[f] = NATIVE
  /\ \A f \in Frag : kd[f] # FREE => f \in bn \/ \E b \in B : f \in pl[b]
  /\ \A o \in ln : \E f \in Frag : kd[f] = o
  /\ \A f \in Frag : kd[f] \in Foreign =>
       kd[f] \in ln /\ \A g \in Frag : kd[g] = kd[f] => g = f

Held == [b \in Buffers |-> Placed(chain[b])]
Kinds == [Frag -> {FREE, NATIVE} \cup Foreign]
Holdings == [Buffers -> SUBSET Frag]

Shape ==
  /\ live \in [Buffers -> BOOLEAN]
  /\ chain \in [Buffers -> Lists]
  /\ last \in [Buffers -> Frag \cup {NULL}]
  /\ size \in [Buffers -> Nat]
  /\ kind \in Kinds
  /\ start \in [Frag -> Nat]
  /\ data \in Fields
  /\ bin \in SUBSET Frag
  /\ lent \in SUBSET Foreign

Core ==
  /\ Shape
  /\ \A b \in LiveBuffers : Good(chain[b], last[b], size[b], data)
  /\ Sorted(LiveBuffers, Held, kind, bin, lent)
  /\ RecyclingBounded
  /\ InsideAllocation

(* write_all_to_fd works on a buffer in use.                               *)
Ends ==
  /\ ph \in Placeholder \cup {NULL}
  /\ flush \in Buffers \cup {NULL}
  /\ flush # NULL => live[flush]

IInv == Core /\ Ends

-----------------------------------------------------------------------------
(* Where the fragments are.                                                *)

LEMMA SortedGrow ==
  ASSUME NEW B \in SUBSET Buffers, NEW pl \in Holdings, NEW kd \in Kinds,
         NEW bn \in SUBSET Frag, NEW ln \in SUBSET Foreign, Sorted(B, pl, kd, bn, ln),
         NEW b \in B, NEW N \in SUBSET (bn \cup {f \in Frag : kd[f] = FREE})
  PROVE  Sorted(B, [pl EXCEPT ![b] = @ \cup N], With(kd, N, NATIVE), bn \ N, ln)
<1> DEFINE q == [pl EXCEPT ![b] = @ \cup N]
           k == With(kd, N, NATIVE)
<1>0. FREE # NATIVE /\ FREE \notin Foreign /\ NATIVE \notin Foreign
  BY ValueAssumption
<1>1. \A e \in B : q[e] = IF e = b THEN pl[b] \cup N ELSE pl[e]
  BY DEF Holdings
<1>2. \A f \in Frag : k[f] = IF f \in N THEN NATIVE ELSE kd[f]
  BY DEF With
<1>3. \A e \in B : pl[e] \cap N = {}
  BY DEF Sorted
<1>4. N \subseteq Frag /\ \A e \in B : pl[e] \subseteq Frag
  BY DEF Holdings
<1> HIDE DEF q, k
<1>5. \A e, g \in B : e # g => q[e] \cap q[g] = {}
  BY <1>1, <1>3 DEF Sorted
<1>6. \A e \in B : \A f \in q[e] : f \notin bn \ N /\ k[f] # FREE
  BY <1>0, <1>1, <1>2, <1>4 DEF Sorted
<1>7. \A f \in bn \ N : k[f] = NATIVE
  BY <1>2 DEF Sorted
<1>8. ASSUME NEW f \in Frag, k[f] # FREE PROVE f \in bn \ N \/ \E e \in B : f \in q[e]
  BY <1>1, <1>2, <1>8 DEF Sorted
<1>9. \A f \in N : kd[f] \notin Foreign
  BY <1>0 DEF Sorted
<1>10. \A o \in ln : \E f \in Frag : k[f] = o
  BY <1>2, <1>9 DEF Sorted
<1>11. ASSUME NEW f \in Frag, k[f] \in Foreign
       PROVE  k[f] \in ln /\ \A g \in Frag : k[g] = k[f] => g = f
  BY <1>0, <1>2, <1>11 DEF Sorted
<1> QED BY <1>5, <1>6, <1>7, <1>8, <1>10, <1>11 DEF Sorted, q, k

(* Object o is lent, in fragment f of buffer b; `trial' goes to the bin.   *)
LEMMA SortedLend ==
  ASSUME NEW B \in SUBSET Buffers, NEW pl \in Holdings, NEW kd \in Kinds,
         NEW bn \in SUBSET Frag, NEW ln \in SUBSET Foreign, Sorted(B, pl, kd, bn, ln),
         NEW b \in B, NEW o \in Foreign \ ln, NEW f \in Frag, kd[f] = FREE,
         NEW trial \in SUBSET {g \in Frag : kd[g] = FREE}, f \notin trial
  PROVE  Sorted(B, [pl EXCEPT ![b] = @ \cup {f}], [With(kd, trial, NATIVE) EXCEPT ![f] = o],
                bn \cup trial, ln \cup {o})
<1> DEFINE q == [pl EXCEPT ![b] = @ \cup {f}]
           k == [With(kd, trial, NATIVE) EXCEPT ![f] = o]
<1>0. FREE # NATIVE /\ FREE \notin Foreign /\ NATIVE \notin Foreign
  BY ValueAssumption
<1>1. \A e \in B : q[e] = IF e = b THEN pl[b] \cup {f} ELSE pl[e]
  BY DEF Holdings
<1>2. \A g \in Frag : k[g] = IF g = f THEN o ELSE IF g \in trial THEN NATIVE ELSE kd[g]
  BY DEF With
<1>3. \A e \in B : pl[e] \cap (trial \cup {f}) = {} /\ pl[e] \subseteq Frag
  BY DEF Sorted, Holdings
<1>4. f \notin bn /\ \A g \in trial : g \notin bn
  BY <1>0 DEF Sorted
<1>5. \A g \in Frag : kd[g] # o
  BY DEF Sorted
<1> HIDE DEF q, k
<1>6. \A e, g \in B : e # g => q[e] \cap q[g] = {}
  BY <1>1, <1>3 DEF Sorted
<1>7. ASSUME NEW e \in B, NEW g \in q[e] PROVE g \notin bn \cup trial /\ k[g] # FREE
  <2>1. CASE g = f
    BY <1>0, <1>2, <1>4, <2>1
  <2>2. CASE g # f
    <3>1. g \in pl[e]
      BY <1>1, <2>2
    <3> QED BY <1>2, <1>3, <2>2, <3>1 DEF Sorted
  <2> QED BY <2>1, <2>2
<1>8. \A g \in bn \cup trial : k[g] = NATIVE
  BY <1>2, <1>4 DEF Sorted
<1>9. ASSUME NEW g \in Frag, k[g] # FREE PROVE g \in bn \cup trial \/ \E e \in B : g \in q[e]
  BY <1>1, <1>2, <1>9 DEF Sorted
<1>10. \A p \in ln \cup {o} : \E g \in Frag : k[g] = p
  BY <1>0, <1>2 DEF Sorted
<1>11. ASSUME NEW g \in Frag, k[g] \in Foreign
       PROVE  k[g] \in ln \cup {o} /\ \A h \in Frag : k[h] = k[g] => h = g
  BY <1>0, <1>2, <1>5, <1>11 DEF Sorted
<1> QED BY <1>6, <1>7, <1>8, <1>9, <1>10, <1>11 DEF Sorted, q, k

(* An unused fragment goes straight to the bin.                            *)
LEMMA SortedTrial ==
  ASSUME NEW B \in SUBSET Buffers, NEW pl \in Holdings, NEW kd \in Kinds,
         NEW bn \in SUBSET Frag, NEW ln \in SUBSET Foreign, Sorted(B, pl, kd, bn, ln),
         NEW trial \in SUBSET {g \in Frag : kd[g] = FREE}
  PROVE  Sorted(B, pl, With(kd, trial, NATIVE), bn \cup trial, ln)
<1> DEFINE k == With(kd, trial, NATIVE)
<1>0. FREE # NATIVE /\ FREE \notin Foreign /\ NATIVE \notin Foreign
  BY ValueAssumption
<1>1. \A g \in Frag : k[g] = IF g \in trial THEN NATIVE ELSE kd[g]
  BY DEF With
<1>2. \A e \in B : pl[e] \cap trial = {} /\ pl[e] \subseteq Frag
  BY DEF Sorted, Holdings
<1> HIDE DEF k
<1>3. \A e \in B : \A f \in pl[e] : f \notin bn \cup trial /\ k[f] # FREE
  BY <1>1, <1>2 DEF Sorted
<1>4. \A f \in bn \cup trial : k[f] = NATIVE
  BY <1>1 DEF Sorted
<1>5. ASSUME NEW f \in Frag, k[f] # FREE PROVE f \in bn \cup trial \/ \E e \in B : f \in pl[e]
  BY <1>1, <1>5 DEF Sorted
<1>6. \A o \in ln : \E f \in Frag : k[f] = o
  BY <1>0, <1>1 DEF Sorted
<1>7. ASSUME NEW f \in Frag, k[f] \in Foreign
      PROVE  k[f] \in ln /\ \A g \in Frag : k[g] = k[f] => g = f
  BY <1>0, <1>1, <1>7 DEF Sorted
<1> QED BY <1>3, <1>4, <1>5, <1>6, <1>7 DEF Sorted, k

(* The fragments `gone' leave buffer b; `keep' of them go to the bin.      *)
LEMMA SortedShrink ==
  ASSUME NEW B \in SUBSET Buffers, NEW pl \in Holdings, NEW kd \in Kinds,
         NEW bn \in SUBSET Frag, NEW ln \in SUBSET Foreign, Sorted(B, pl, kd, bn, ln),
         NEW b \in B, NEW gone \in SUBSET pl[b],
         NEW keep \in SUBSET {f \in gone : kd[f] = NATIVE}
  PROVE  Sorted(B, [pl EXCEPT ![b] = @ \ gone], With(kd, gone \ keep, FREE),
                bn \cup keep, ln \ {kd[f] : f \in gone})
<1> DEFINE q == [pl EXCEPT ![b] = @ \ gone]
           k == With(kd, gone \ keep, FREE)
           l == ln \ {kd[f] : f \in gone}
<1>0. FREE # NATIVE /\ FREE \notin Foreign /\ NATIVE \notin Foreign
  BY ValueAssumption
<1>1. \A e \in B : q[e] = IF e = b THEN pl[b] \ gone ELSE pl[e]
  BY DEF Holdings
<1>2. \A f \in Frag : k[f] = IF f \in gone \ keep THEN FREE ELSE kd[f]
  BY DEF With
<1>3. \A e \in B : q[e] \cap gone = {}
  BY <1>1 DEF Sorted
<1>4. pl[b] \subseteq Frag /\ \A e \in B : pl[e] \subseteq Frag
  BY DEF Holdings
<1> HIDE DEF q, k, l
<1>5. \A e, g \in B : e # g => q[e] \cap q[g] = {}
  BY <1>1 DEF Sorted
<1>6. ASSUME NEW e \in B, NEW f \in q[e] PROVE f \notin bn \cup keep /\ k[f] # FREE
  <2>1. f \in pl[e] /\ f \notin gone
    BY <1>1, <1>3
  <2> QED BY <1>2, <1>4, <2>1 DEF Sorted
<1>7. \A f \in bn \cup keep : k[f] = NATIVE
  BY <1>2, <1>4 DEF Sorted
<1>8. ASSUME NEW f \in Frag, k[f] # FREE PROVE f \in bn \cup keep \/ \E e \in B : f \in q[e]
  <2>1. kd[f] # FREE /\ f \notin gone \ keep
    BY <1>2, <1>8
  <2>2. CASE f \in keep
    BY <2>2
  <2>3. CASE f \notin keep
    BY <1>1, <2>1, <2>3 DEF Sorted
  <2> QED BY <2>2, <2>3
<1>9. ASSUME NEW o \in l PROVE \E f \in Frag : k[f] = o
  <2>1. o \in ln /\ \A f \in gone : kd[f] # o
    BY <1>9 DEF l
  <2>2. PICK f \in Frag : kd[f] = o
    BY <2>1 DEF Sorted
  <2> QED BY <1>2, <2>1, <2>2
<1>10. ASSUME NEW f \in Frag, k[f] \in Foreign
       PROVE  k[f] \in l /\ \A g \in Frag : k[g] = k[f] => g = f
  <2>1. k[f] = kd[f] /\ f \notin gone \ keep /\ \A g \in Frag : k[g] = k[f] => k[g] = kd[g]
    BY <1>0, <1>2, <1>10
  <2>2. f \notin keep
    BY <1>0, <1>10, <2>1
  <2>3. \A g \in gone : kd[g] # kd[f]
    BY <1>4, <1>10, <2>1, <2>2 DEF Sorted
  <2> QED BY <1>10, <2>1, <2>3 DEF Sorted, l
<1> QED BY <1>5, <1>6, <1>7, <1>8, <1>9, <1>10 DEF Sorted, q, k, l

(* The fragments `moved' change from buffer src to buffer dst.             *)
LEMMA SortedMove ==
  ASSUME NEW B \in SUBSET Buffers, NEW pl \in Holdings, NEW kd \in Kinds,
         NEW bn \in SUBSET Frag, NEW ln \in SUBSET Foreign, Sorted(B, pl, kd, bn, ln),
         NEW dst \in B, NEW src \in B, dst # src, NEW moved \in SUBSET pl[src]
  PROVE  Sorted(B, [pl EXCEPT ![dst] = @ \cup moved, ![src] = @ \ moved], kd, bn, ln)
<1> DEFINE q == [pl EXCEPT ![dst] = @ \cup moved, ![src] = @ \ moved]
<1>1. \A e \in B : q[e] = IF e = src THEN pl[src] \ moved
                          ELSE IF e = dst THEN pl[dst] \cup moved ELSE pl[e]
  BY DEF Holdings
<1> HIDE DEF q
<1>2. \A e, g \in B : e # g => q[e] \cap q[g] = {}
  BY <1>1 DEF Sorted
<1>3. \A e \in B : \A f \in q[e] : f \notin bn /\ kd[f] # FREE
  BY <1>1 DEF Sorted
<1>4. ASSUME NEW f \in Frag, kd[f] # FREE PROVE f \in bn \/ \E e \in B : f \in q[e]
  BY <1>1, <1>4 DEF Sorted
<1> QED BY <1>2, <1>3, <1>4 DEF Sorted, q
-----------------------------------------------------------------------------
(* What happens to one list.                                               *)

LEMMA LengthZero ==
  ASSUME NEW d \in Fields, NEW f \in Frag
  PROVE  d[f] \in Seq(Byte) /\ Len(d[f]) \in Nat /\ (d[f] # <<>> <=> Len(d[f]) > 0)
<1>1. d[f] \in Seq(Byte)
  BY DEF Fields
<1>2. Len(d[f]) \in Nat
  BY <1>1, LenProperties
<1>3. d[f] = <<>> <=> Len(d[f]) = 0
  BY <1>1, EmptySeq
<1> QED BY <1>1, <1>2, <1>3

(* A list whose fragments keep their lengths.                              *)
LEMMA GoodElsewhere ==
  ASSUME NEW c \in Lists, NEW t, NEW n, NEW d \in Fields, Good(c, t, n, d),
         NEW x \in Fields, \A f \in Placed(c) : Len(x[f]) = Len(d[f])
  PROVE  Good(c, t, n, x)
<1>1. Total(c, x) = Total(c, d)
  BY OffsetsSame
<1>2. Placed(c) \subseteq Frag
  BY PlacedConcat
<1>3. ASSUME NEW f \in Placed(c) PROVE x[f] # <<>>
  <2>1. Len(d[f]) > 0
    BY <1>2, LengthZero DEF Good
  <2>2. Len(x[f]) > 0
    BY <2>1
  <2> QED BY <1>2, <2>2, LengthZero
<1> QED BY <1>1, <1>3 DEF Good

LEMMA GoodEmpty ==
  ASSUME NEW d \in Fields
  PROVE  Good(<<>>, NULL, 0, d) /\ <<>> \in Lists /\ Placed(<<>>) = {}
<1>1. <<>> \in Lists /\ Len(<<>>) = 0
  BY LenProperties DEF Lists
<1>2. Total(<<>>, d) = 0
  BY <1>1, TotalType
<1>3. Placed(<<>>) = {} /\ Inj(<<>>)
  BY <1>1 DEF Placed, Inj
<1> QED BY <1>1, <1>2, <1>3 DEF Good

LEMMA GoodTail ==
  ASSUME NEW c \in Lists, NEW t, NEW n, NEW d \in Fields, Good(c, t, n, d)
  PROVE  /\ t \in Frag \cup {NULL}
         /\ n \in Nat
         /\ t # NULL <=> c # <<>>
         /\ t # NULL => t \in Placed(c) /\ t \in Frag
<1>0. Len(c) \in Nat /\ (c # <<>> => Len(c) > 0) /\ Placed(c) \subseteq Frag
  BY LenProperties, EmptySeq, PlacedConcat DEF Lists
<1>1. ASSUME c # <<>> PROVE t \in Placed(c) /\ t \in Frag
  <2>1. t = c[Len(c)] /\ Len(c) \in 1 .. Len(c)
    BY <1>0, <1>1 DEF Good
  <2> QED BY <1>0, <2>1 DEF Placed
<1>2. n \in Nat
  BY TotalType DEF Good
<1> QED BY <1>1, <1>2, ValueAssumption DEF Good

(* Bytes s are stored behind the list, in its room and in the new fs.      *)
LEMMA GoodStored ==
  ASSUME NEW c \in Lists, NEW t, NEW n, NEW d \in Fields, Good(c, t, n, d),
         NEW s \in Seq(Byte), Room(t) \in Nat,
         NEW fs \in Lists, Inj(fs), Placed(fs) \cap Placed(c) = {},
         Len(fs) = Needed(Len(s), Room(t))
  PROVE  /\ Fill(d, t, fs, s) \in Fields
         /\ Link(c, t, fs) \in Lists
         /\ Placed(Link(c, t, fs)) = Placed(c) \cup Placed(fs)
         /\ Good(Link(c, t, fs), IF fs = <<>> THEN t ELSE fs[Len(fs)], n + Len(s),
                 Fill(d, t, fs, s))
         /\ \A f \in Placed(fs) : Len(Fill(d, t, fs, s)[f]) <= Cap
         /\ t \in Frag => Len(Fill(d, t, fs, s)[t]) = Len(d[t]) + Lesser(Len(s), Room(t))
         /\ \A f \in Frag : f \notin Placed(fs) /\ f # t => Fill(d, t, fs, s)[f] = d[f]
<1> DEFINE e == Link(c, t, fs)
           x == Fill(d, t, fs, s)
           u == IF fs = <<>> THEN t ELSE fs[Len(fs)]
<1>1. t \in Frag \cup {NULL} /\ n = Total(c, d) /\ Inj(c)
      /\ t = (IF c = <<>> THEN NULL ELSE c[Len(c)])
  BY GoodTail DEF Good
<1>2. /\ e \in Lists /\ Inj(e) /\ x \in Fields
      /\ Placed(e) = Placed(c) \cup Placed(fs)
      /\ u = IF e = <<>> THEN NULL ELSE e[Len(e)]
      /\ Total(e, x) = Total(c, d) + Len(s)
      /\ \A f \in Placed(fs) : x[f] # <<>> /\ Len(x[f]) <= Cap
      /\ t \in Frag => Len(x[t]) = Len(d[t]) + Lesser(Len(s), Room(t))
      /\ \A f \in Frag : f \notin Placed(fs) /\ f # t => x[f] = d[f]
  BY <1>1, Stored
<1>3. Lesser(Len(s), Room(t)) \in Nat
  BY LenProperties DEF Lesser
<1> HIDE DEF e, x, u
<1>4. ASSUME NEW f \in Placed(e) PROVE x[f] # <<>>
  <2>1. CASE f \in Placed(fs)
    BY <1>2, <2>1
  <2>2. CASE f \notin Placed(fs)
    <3>1. f \in Placed(c) /\ f \in Frag /\ d[f] # <<>>
      BY <1>2, <2>2, PlacedConcat DEF Good
    <3>2. CASE f = t
      <4>1. Len(d[t]) > 0 /\ Len(d[t]) \in Nat /\ t \in Frag
        BY <3>1, <3>2, LengthZero
      <4>2. Len(x[t]) > 0
        BY <1>2, <1>3, <4>1
      <4> QED BY <1>2, <3>2, <4>1, <4>2, LengthZero
    <3>3. CASE f # t
      BY <1>2, <2>2, <3>1, <3>3
    <3> QED BY <3>2, <3>3
  <2> QED BY <2>1, <2>2
<1>5. Good(e, u, n + Len(s), x)
  BY <1>1, <1>2, <1>4 DEF Good
<1> QED BY <1>2, <1>5 DEF e, x, u

(* k fragments and `part' bytes of the next one are taken from the front.  *)
LEMMA GoodTaken ==
  ASSUME NEW c \in Lists, NEW t, NEW n, NEW d \in Fields, Good(c, t, n, d),
         NEW k \in 0 .. Len(c), NEW part \in Nat,
         k < Len(c) => part < Len(d[c[k + 1]]), k = Len(c) => part = 0,
         NEW x \in Fields,
         k < Len(c) => Len(x[c[k + 1]]) = Len(d[c[k + 1]]) - part,
         \A i \in k + 1 .. Len(c) : i # k + 1 => Len(x[c[i]]) = Len(d[c[i]])
  PROVE  /\ SubSeq(c, k + 1, Len(c)) \in Lists
         /\ Placed(SubSeq(c, k + 1, Len(c))) = Placed(c) \ Placed(SubSeq(c, 1, k))
         /\ n - (Offsets(c, d)[k] + part) \in Nat
         /\ Good(SubSeq(c, k + 1, Len(c)), IF k = Len(c) THEN NULL ELSE t,
                 n - (Offsets(c, d)[k] + part), x)
<1> DEFINE z == SubSeq(c, k + 1, Len(c))
           off == Offsets(c, d)[k]
           u == IF k = Len(c) THEN NULL ELSE t
<1>0. Len(c) \in Nat /\ Inj(c) /\ n = Total(c, d)
      /\ t = (IF c = <<>> THEN NULL ELSE c[Len(c)])
      /\ \A f \in Placed(c) : d[f] # <<>>
  BY LenProperties DEF Lists, Good
<1>1. /\ z \in Lists /\ Len(z) = Len(c) - k
      /\ \A i \in 1 .. Len(c) - k : z[i] = c[k + i]
      /\ Placed(z) = {c[i] : i \in k + 1 .. Len(c)}
      /\ Placed(c) = Placed(SubSeq(c, 1, k)) \cup Placed(z)
  BY Cut
<1>2. Inj(z) /\ Placed(SubSeq(c, 1, k)) \cap Placed(z) = {}
  BY <1>0, InjCut
<1>3. Total(z, d) = n - off /\ off \in Nat /\ n \in Nat /\ Total(z, d) \in Nat
  <2>1. Total(z, d) = n - off
    BY <1>0, TotalCut
  <2>2. off \in Nat /\ Total(c, d) \in Nat
    BY TotalType
  <2>3. Total(z, d) \in Nat
    <3> HIDE DEF z
    <3> QED BY <1>1, TotalType
  <2> QED BY <1>0, <2>1, <2>2, <2>3
<1> HIDE DEF z, off
<1>4. Total(z, x) = Total(z, d) - part
  <2>1. CASE k = Len(c)
    <3>1. \A f \in Placed(z) : Len(d[f]) = Len(x[f])
      BY <1>0, <1>1, <2>1
    <3>2. Total(z, d) = Total(z, x)
      BY <1>1, <3>1, OffsetsSame
    <3> QED BY <1>3, <2>1, <3>2
  <2>2. CASE k < Len(c)
    <3>1. 1 \in 1 .. Len(z) /\ z[1] = c[k + 1]
      BY <1>0, <1>1, <2>2
    <3>2. Len(x[z[1]]) = Len(d[z[1]]) + (-part)
      <4>1. Len(d[z[1]]) \in Nat /\ Len(x[z[1]]) = Len(d[z[1]]) - part
        BY <1>1, <2>2, <3>1, LenOfFragment
      <4> QED BY <4>1
    <3>3. ASSUME NEW i \in 1 .. Len(z), i # 1 PROVE Len(x[z[i]]) = Len(d[z[i]])
      <4>1. k + i \in k + 1 .. Len(c) /\ k + i # k + 1 /\ z[i] = c[k + i]
        BY <1>0, <1>1, <3>3
      <4> QED BY <4>1
    <3>4. Total(z, x) = Total(z, d) + (-part)
      <4>1. -part \in Int
        OBVIOUS
      <4> QED BY <1>1, <3>1, <3>2, <3>3, <4>1, TotalOneChanged
    <3> QED BY <1>3, <3>4
  <2> QED BY <1>0, <2>1, <2>2
<1>5. Total(z, x) \in Nat /\ n - (off + part) = Total(z, x)
  <2>1. Total(z, x) \in Nat
    BY <1>1, TotalType
  <2> QED BY <1>3, <1>4, <2>1
<1>6. u = IF z = <<>> THEN NULL ELSE z[Len(z)]
  <2>1. CASE k = Len(c)
    <3>1. z = <<>>
      BY <1>0, <1>1, <2>1, EmptySeq DEF Lists
    <3> QED BY <2>1, <3>1
  <2>2. CASE k < Len(c)
    <3>1. z # <<>> /\ z[Len(z)] = c[k + (Len(c) - k)] /\ c # <<>>
      BY <1>0, <1>1, <2>2, EmptySeq DEF Lists
    <3>2. k + (Len(c) - k) = Len(c)
      BY <1>0
    <3> QED BY <1>0, <2>2, <3>1, <3>2
  <2> QED BY <1>0, <2>1, <2>2
<1>7. ASSUME NEW f \in Placed(z) PROVE x[f] # <<>>
  <2>1. PICK i \in k + 1 .. Len(c) : f = c[i]
    BY <1>1
  <2>2. i \in 1 .. Len(c) /\ f \in Placed(c) /\ f \in Frag
    BY <1>0, <2>1, PlacedConcat DEF Placed
  <2>3. Len(d[f]) > 0 /\ Len(d[f]) \in Nat
    BY <1>0, <2>2, LengthZero
  <2>4. CASE i = k + 1
    <3>1. k < Len(c)
      BY <1>0, <2>1, <2>4
    <3>2. Len(x[f]) = Len(d[f]) - part /\ part < Len(d[f])
      BY <2>1, <2>4, <3>1
    <3>3. Len(x[f]) > 0
      BY <2>3, <3>2
    <3> QED BY <2>2, <3>3, LengthZero
  <2>5. CASE i # k + 1
    <3>1. Len(x[f]) > 0
      BY <2>1, <2>3, <2>5
    <3> QED BY <2>2, <3>1, LengthZero
  <2> QED BY <2>4, <2>5
<1>8. Good(z, u, n - (off + part), x)
  BY <1>2, <1>5, <1>6, <1>7 DEF Good
<1> QED BY <1>1, <1>2, <1>5, <1>8 DEF z, off, u

(* The first k fragments of a list, as a list of their own.                *)
LEMMA GoodFirst ==
  ASSUME NEW c \in Lists, NEW t, NEW n, NEW d \in Fields, Good(c, t, n, d),
         NEW k \in 0 .. Len(c)
  PROVE  /\ SubSeq(c, 1, k) \in Lists
         /\ Placed(SubSeq(c, 1, k)) \subseteq Placed(c)
         /\ SubSeq(c, 1, k) = <<>> <=> k = 0
         /\ Good(SubSeq(c, 1, k), IF k = 0 THEN NULL ELSE c[k], Offsets(c, d)[k], d)
<1> DEFINE a == SubSeq(c, 1, k)
<1>1. /\ a \in Lists /\ Len(a) = k /\ \A i \in 1 .. k : a[i] = c[i]
      /\ Placed(a) \subseteq Placed(c)
  BY Cut
<1>2. Inj(a) /\ Total(a, d) = Offsets(c, d)[k]
  BY InjCut, TotalCut DEF Good
<1> HIDE DEF a
<1>3. a = <<>> <=> k = 0
  BY <1>1, EmptySeq DEF Lists
<1>4. (IF k = 0 THEN NULL ELSE c[k]) = IF a = <<>> THEN NULL ELSE a[Len(a)]
  BY <1>1, <1>3
<1>5. \A f \in Placed(a) : d[f] # <<>>
  BY <1>1 DEF Good
<1>6. Good(a, IF k = 0 THEN NULL ELSE c[k], Offsets(c, d)[k], d)
  BY <1>2, <1>4, <1>5 DEF Good
<1> QED BY <1>1, <1>3, <1>6 DEF a

(* Two lists become one.                                                   *)
LEMMA GoodJoin ==
  ASSUME NEW c \in Lists, NEW t, NEW n, NEW e \in Lists, NEW u, NEW m, NEW d \in Fields,
         Good(c, t, n, d), Good(e, u, m, d), Placed(c) \cap Placed(e) = {}
  PROVE  /\ Link(c, t, e) \in Lists
         /\ Placed(Link(c, t, e)) = Placed(c) \cup Placed(e)
         /\ Good(Link(c, t, e), IF e = <<>> THEN t ELSE u, n + m, d)
<1> DEFINE z == Link(c, t, e)
<1>0. Len(c) \in Nat /\ Len(e) \in Nat /\ n = Total(c, d) /\ m = Total(e, d)
      /\ Inj(c) /\ Inj(e)
  BY LenProperties DEF Lists, Good
<1>1. z = c \o e
  <2>1. <<>> \o e = e /\ c \o <<>> = c
    BY ConcatEmptySeq DEF Lists
  <2>2. t = NULL <=> c = <<>>
    BY GoodTail
  <2> QED BY <2>1, <2>2 DEF Link
<1> HIDE DEF z
<1>2. z \in Lists /\ Placed(z) = Placed(c) \cup Placed(e)
  BY <1>1, PlacedConcat
<1>3. Inj(z)
  BY <1>0, <1>1, InjConcat
<1>4. Total(z, d) = n + m
  BY <1>0, <1>1, TotalConcat
<1>5. (IF e = <<>> THEN t ELSE u) = IF z = <<>> THEN NULL ELSE z[Len(z)]
  <2>1. CASE e = <<>>
    <3>1. z = c
      BY <1>1, <2>1, ConcatEmptySeq DEF Lists
    <3> QED BY <2>1, <3>1 DEF Good
  <2>2. CASE e # <<>>
    <3>1. Len(e) > 0 /\ u = e[Len(e)]
      BY <1>0, <2>2, EmptySeq DEF Lists, Good
    <3>2. Len(z) = Len(c) + Len(e) /\ z[Len(c) + Len(e)] = e[Len(c) + Len(e) - Len(c)]
      BY <1>0, <1>1, <3>1, ConcatProperties DEF Lists
    <3>3. Len(c) + Len(e) - Len(c) = Len(e) /\ z # <<>>
      <4>1. Len(z) > 0
        BY <1>0, <3>1, <3>2
      <4> QED BY <1>0, <4>1, <1>2, EmptySeq DEF Lists
    <3> QED BY <2>2, <3>1, <3>2, <3>3
  <2> QED BY <2>1, <2>2
<1>6. \A f \in Placed(z) : d[f] # <<>>
  BY <1>2 DEF Good
<1>7. Good(z, IF e = <<>> THEN t ELSE u, n + m, d)
  BY <1>3, <1>4, <1>5, <1>6 DEF Good
<1> QED BY <1>2, <1>7 DEF z

(***************************************************************************)
(* Every call preserves the inductive invariant.                           *)
(***************************************************************************)
(* The list of one buffer changes to e, and with it the bytes of fragments *)
(* that no other buffer holds.                                             *)
LEMMA ListChanged ==
  ASSUME Core, NEW b \in LiveBuffers, NEW e \in Lists, NEW u \in Frag \cup {NULL},
         NEW m \in Nat, NEW x \in Fields, Good(e, u, m, x),
         \A d \in LiveBuffers \ {b} : \A f \in Placed(chain[d]) : x[f] = data[f],
         chain' = [chain EXCEPT ![b] = e], last' = [last EXCEPT ![b] = u],
         size' = [size EXCEPT ![b] = m], data' = x, live' = live
  PROVE  /\ live' \in [Buffers -> BOOLEAN] /\ chain' \in [Buffers -> Lists]
         /\ last' \in [Buffers -> Frag \cup {NULL}] /\ size' \in [Buffers -> Nat]
         /\ data' \in Fields
         /\ LiveBuffers' = LiveBuffers
         /\ Held' = [Held EXCEPT ![b] = Placed(e)]
         /\ \A d \in LiveBuffers : Good(chain'[d], last'[d], size'[d], data')
<1>1. /\ live' \in [Buffers -> BOOLEAN] /\ chain' \in [Buffers -> Lists]
      /\ last' \in [Buffers -> Frag \cup {NULL}] /\ size' \in [Buffers -> Nat]
      /\ data' \in Fields
  BY DEF Core, Shape
<1>2. LiveBuffers' = LiveBuffers /\ b \in Buffers
  BY DEF LiveBuffers
<1>3. Held' = [Held EXCEPT ![b] = Placed(e)]
  BY <1>2 DEF Held, Core, Shape
<1>4. ASSUME NEW d \in LiveBuffers PROVE Good(chain'[d], last'[d], size'[d], data')
  <2>0. d \in Buffers
    BY DEF LiveBuffers
  <2>1. CASE d = b
    <3>1. chain'[d] = e /\ last'[d] = u /\ size'[d] = m
      BY <2>0, <2>1 DEF Core, Shape
    <3> QED BY <3>1
  <2>2. CASE d # b
    <3>1. chain'[d] = chain[d] /\ last'[d] = last[d] /\ size'[d] = size[d]
      BY <2>0, <2>2 DEF Core, Shape
    <3>2. Good(chain[d], last[d], size[d], data) /\ chain[d] \in Lists /\ data \in Fields
      BY <2>0 DEF Core, Shape
    <3>3. Good(chain[d], last[d], size[d], x)
      BY <2>2, <3>2, GoodElsewhere
    <3> QED BY <3>1, <3>3
  <2> QED BY <2>1, <2>2
<1> QED BY <1>1, <1>2, <1>3, <1>4

(* What the invariant says of one buffer.                                  *)
LEMMA OfBuffer ==
  ASSUME Core, NEW b \in LiveBuffers
  PROVE  /\ b \in Buffers /\ live[b]
         /\ chain[b] \in Lists /\ data \in Fields /\ kind \in Kinds
         /\ start \in [Frag -> Nat]
         /\ Good(chain[b], last[b], size[b], data)
         /\ size[b] = Total(chain[b], data) /\ size[b] \in Nat
         /\ Held[b] = Placed(chain[b]) /\ Placed(chain[b]) \subseteq Frag
         /\ last[b] \in Frag \cup {NULL}
         /\ last[b] # NULL => last[b] \in Placed(chain[b]) /\ last[b] \in Frag
         /\ \A f \in Placed(chain[b]) : f \notin bin /\ kind[f] # FREE /\ data[f] # <<>>
         /\ \A d \in LiveBuffers \ {b} : Placed(chain[d]) \cap Placed(chain[b]) = {}
         /\ Room(last[b]) \in Nat
<1>1. /\ b \in Buffers /\ live[b] /\ chain[b] \in Lists /\ data \in Fields
      /\ kind \in Kinds /\ start \in [Frag -> Nat]
      /\ Good(chain[b], last[b], size[b], data) /\ size[b] \in Nat
      /\ Held[b] = Placed(chain[b])
  BY DEF LiveBuffers, Core, Shape, Held
<1>2. size[b] = Total(chain[b], data) /\ \A f \in Placed(chain[b]) : data[f] # <<>>
  BY <1>1 DEF Good
<1>3. /\ last[b] \in Frag \cup {NULL} /\ Placed(chain[b]) \subseteq Frag
      /\ last[b] # NULL => last[b] \in Placed(chain[b]) /\ last[b] \in Frag
  BY <1>1, GoodTail, PlacedConcat
<1>4. \A f \in Placed(chain[b]) : f \notin bin /\ kind[f] # FREE
  BY <1>1 DEF Core, Sorted
<1>5. \A d \in LiveBuffers \ {b} : Placed(chain[d]) \cap Placed(chain[b]) = {}
  <2>1. \A d \in LiveBuffers : Held[d] = Placed(chain[d])
    BY DEF LiveBuffers, Held
  <2> QED BY <2>1 DEF Core, Sorted
<1>6. Room(last[b]) \in Nat
  <2>1. CASE last[b] = NULL
    BY <2>1 DEF Room
  <2>2. CASE last[b] # NULL
    <3> DEFINE t == last[b]
    <3>1. t \in Frag /\ Len(data[t]) \in Nat /\ start[t] \in Nat
      BY <1>1, <1>3, <2>2, LengthZero
    <3>2. kind[t] = NATIVE => End(t) <= Cap
      BY <3>1 DEF Core, InsideAllocation
    <3>3. Room(t) = IF kind[t] = NATIVE THEN Cap - End(t) ELSE 0
      BY <2>2 DEF Room, Avail
    <3> QED BY <3>1, <3>2, <3>3, CapNat DEF End
  <2> QED BY <2>1, <2>2
<1> QED BY <1>1, <1>2, <1>3, <1>4, <1>5, <1>6

(* new_native_fragment: the bin stays counted.                             *)
LEMMA CountAfterTaking ==
  ASSUME Core, NEW N \in SUBSET Frag
  PROVE  /\ num_recycled - Cardinality(bin \cap N) = Cardinality(bin \ N)
         /\ Cardinality(bin \ N) <= MAX_RECYCLED
<1>1. IsFiniteSet(bin) /\ bin \in SUBSET Frag
  BY ValueAssumption, FS_Subset DEF Core, Shape
<1>2. num_recycled = Cardinality(bin) /\ num_recycled <= MAX_RECYCLED /\ MAX_RECYCLED \in Nat
  BY SizeAssumption DEF Core, RecyclingBounded
<1>3. /\ Cardinality(bin) \in Nat /\ Cardinality(bin \ N) \in Nat
      /\ Cardinality(bin \cap N) \in Nat
      /\ Cardinality(bin \ N) = Cardinality(bin) - Cardinality(bin \cap N)
  <2>1. bin \ N \subseteq bin /\ bin \cap N \subseteq bin
    OBVIOUS
  <2>2. IsFiniteSet(bin \ N) /\ IsFiniteSet(bin \cap N)
    BY <1>1, <2>1, FS_Subset
  <2> QED BY <1>1, <2>2, FS_CardinalityType, FS_Difference
<1> QED BY <1>2, <1>3

(* recycle: what is kept fits in the bin.                                  *)
LEMMA CountAfterAdding ==
  ASSUME Core, NEW keep \in SUBSET Frag, keep \cap bin = {},
         Cardinality(keep) <= MAX_RECYCLED - num_recycled
  PROVE  /\ num_recycled + Cardinality(keep) = Cardinality(bin \cup keep)
         /\ num_recycled + Cardinality(keep) <= MAX_RECYCLED
<1>1. IsFiniteSet(bin) /\ IsFiniteSet(keep)
  BY ValueAssumption, FS_Subset DEF Core, Shape
<1>2. num_recycled = Cardinality(bin) /\ MAX_RECYCLED \in Nat
  BY SizeAssumption DEF Core, RecyclingBounded
<1>3. /\ Cardinality(bin) \in Nat /\ Cardinality(keep) \in Nat
      /\ bin \cap keep = {}
  BY <1>1, FS_CardinalityType
<1>4. Cardinality(bin \cup keep) = Cardinality(bin) + Cardinality(keep)
  <2>1. Cardinality(bin \cap keep) = 0
    BY <1>3, FS_EmptySet
  <2>2. Cardinality(bin \cup keep)
          = Cardinality(bin) + Cardinality(keep) - Cardinality(bin \cap keep)
    BY <1>1, FS_Union
  <2> QED BY <1>3, <2>1, <2>2
<1> QED BY <1>2, <1>3, <1>4
-----------------------------------------------------------------------------
(* Adding at the end.                                                      *)

(* The loop of bulp_buffer_append.                                         *)
LEMMA StoreKeepsCore ==
  ASSUME Core, NEW b \in LiveBuffers, NEW s \in Seq(Byte), Store(b, s),
         UNCHANGED <<live, lent>>
  PROVE  Core'
<1> DEFINE c == chain[b]
           t == last[b]
<1>1. /\ c \in Lists /\ data \in Fields /\ Good(c, t, size[b], data) /\ Room(t) \in Nat
      /\ t \in Frag \cup {NULL} /\ (t # NULL => t \in Placed(c) /\ t \in Frag)
      /\ Held[b] = Placed(c) /\ Placed(c) \subseteq Frag /\ b \in Buffers
      /\ \A f \in Placed(c) : f \notin bin /\ kind[f] # FREE
      /\ \A d \in LiveBuffers \ {b} : Placed(chain[d]) \cap Placed(c) = {}
      /\ kind \in Kinds /\ start \in [Frag -> Nat]
  BY OfBuffer
<1>2. Len(s) \in Nat /\ Needed(Len(s), Room(t)) \in Nat
  BY <1>1, LenProperties, NeededBounds
<1>3. PICK fs \in Fresh(Needed(Len(s), Room(t))) :
        /\ chain' = [chain EXCEPT ![b] = Link(@, t, fs)]
        /\ last' = [last EXCEPT ![b] = IF fs = <<>> THEN @ ELSE fs[Len(fs)]]
        /\ data' = Fill(data, t, fs, s)
        /\ new_native_fragment(fs)
        /\ size' = [size EXCEPT ![b] = @ + Len(s)]
  BY DEF Store
<1> DEFINE N == Placed(fs)
           e == Link(c, t, fs)
           u == IF fs = <<>> THEN t ELSE fs[Len(fs)]
           x == Fill(data, t, fs, s)
<1>4. /\ fs \in Lists /\ Inj(fs) /\ Len(fs) = Needed(Len(s), Room(t))
      /\ N \subseteq bin \cup Unallocated /\ bin \in SUBSET Frag
  <2>1. bin \in SUBSET Frag
    BY DEF Core, Shape
  <2> QED BY <1>2, <2>1, FreshDef
<1>5. N \cap Placed(c) = {} /\ N \subseteq Frag
  BY <1>1, <1>4 DEF Unallocated
<1>6. /\ x \in Fields /\ e \in Lists /\ Placed(e) = Placed(c) \cup N
      /\ Good(e, u, size[b] + Len(s), x)
      /\ \A f \in N : Len(x[f]) <= Cap
      /\ t \in Frag => Len(x[t]) = Len(data[t]) + Lesser(Len(s), Room(t))
      /\ \A f \in Frag : f \notin N /\ f # t => x[f] = data[f]
  BY <1>1, <1>4, <1>5, GoodStored
<1> HIDE DEF N, e, u, x
<1>7. u \in Frag \cup {NULL} /\ size[b] + Len(s) \in Nat
  BY <1>6, GoodTail
<1>8. ASSUME NEW d \in LiveBuffers \ {b}, NEW f \in Placed(chain[d]) PROVE x[f] = data[f]
  <2>1. f \in Frag /\ f \notin bin /\ kind[f] # FREE /\ f \notin Placed(c)
    BY <1>1, OfBuffer
  <2>2. f \notin N /\ f # t
    BY <1>1, <1>4, <2>1, ValueAssumption DEF Unallocated
  <2> QED BY <1>6, <2>1, <2>2
<1>9. /\ chain' = [chain EXCEPT ![b] = e] /\ last' = [last EXCEPT ![b] = u]
      /\ size' = [size EXCEPT ![b] = size[b] + Len(s)] /\ data' = x /\ live' = live
  BY <1>3 DEF e, u, x
<1>10. /\ live' \in [Buffers -> BOOLEAN] /\ chain' \in [Buffers -> Lists]
       /\ last' \in [Buffers -> Frag \cup {NULL}] /\ size' \in [Buffers -> Nat]
       /\ data' \in Fields
       /\ LiveBuffers' = LiveBuffers
       /\ Held' = [Held EXCEPT ![b] = Placed(e)]
       /\ \A d \in LiveBuffers : Good(chain'[d], last'[d], size'[d], data')
  BY <1>6, <1>7, <1>8, <1>9, ListChanged
<1>11. /\ bin' = bin \ N /\ num_recycled' = num_recycled - Cardinality(bin \cap N)
       /\ kind' = With(kind, N, NATIVE) /\ start' = With(start, N, 0) /\ lent' = lent
  BY <1>3 DEF new_native_fragment, N
<1>12. kind' \in Kinds /\ start' \in [Frag -> Nat] /\ bin' \in SUBSET Frag
       /\ lent' \in SUBSET Foreign
  BY <1>1, <1>4, <1>11 DEF With, Kinds, Core, Shape
<1>13. Sorted(LiveBuffers', Held', kind', bin', lent')
  <2>1. N \in SUBSET (bin \cup {f \in Frag : kind[f] = FREE})
    BY <1>4 DEF Unallocated
  <2>2. /\ LiveBuffers \in SUBSET Buffers /\ Held \in Holdings /\ kind \in Kinds
        /\ bin \in SUBSET Frag /\ lent \in SUBSET Foreign
        /\ Sorted(LiveBuffers, Held, kind, bin, lent)
    BY PlacedConcat DEF Core, Shape, LiveBuffers, Held, Holdings
  <2>3. Sorted(LiveBuffers, [Held EXCEPT ![b] = @ \cup N], With(kind, N, NATIVE), bin \ N, lent)
    BY <2>1, <2>2, SortedGrow
  <2>4. Held' = [Held EXCEPT ![b] = @ \cup N]
    BY <1>1, <1>6, <1>10
  <2> QED BY <1>10, <1>11, <2>3, <2>4
<1>14. RecyclingBounded'
  BY <1>5, <1>11, CountAfterTaking DEF RecyclingBounded
<1>15. InsideAllocation'
  <2> SUFFICES ASSUME NEW f \in Frag, kind'[f] = NATIVE PROVE start'[f] + Len(x[f]) <= Cap
    BY <1>9 DEF InsideAllocation, End
  <2>0. start[f] \in Nat /\ Len(data[f]) \in Nat /\ Len(x[f]) \in Nat
    BY <1>1, <1>6, LengthZero
  <2>1. CASE f \in N
    BY <1>6, <1>11, <2>0, <2>1 DEF With
  <2>2. CASE f \notin N
    <3>1. kind[f] = NATIVE /\ start'[f] = start[f]
      BY <1>11, <2>2 DEF With
    <3>2. start[f] + Len(data[f]) <= Cap
      BY <3>1 DEF Core, InsideAllocation, End
    <3>3. CASE f = t
      <4>1. Room(t) = Cap - (start[f] + Len(data[f]))
        BY <3>1, <3>3, ValueAssumption DEF Room, Avail, End
      <4>2. Lesser(Len(s), Room(t)) <= Room(t) /\ Lesser(Len(s), Room(t)) \in Nat
        BY <1>1, <1>2 DEF Lesser
      <4>3. Len(x[f]) = Len(data[f]) + Lesser(Len(s), Room(t)) /\ Room(t) \in Nat
        BY <1>1, <1>6, <3>3
      <4>4. Cap \in Nat
        BY CapNat
      <4> DEFINE l == Lesser(Len(s), Room(t))
                 r == Room(t)
      <4> HIDE DEF l, r
      <4>5. /\ r = Cap - (start[f] + Len(data[f])) /\ l <= r /\ l \in Nat /\ r \in Nat
            /\ Len(x[f]) = Len(data[f]) + l
        BY <4>1, <4>2, <4>3 DEF l, r
      <4> QED BY ONLY <2>0, <3>1, <4>4, <4>5
    <3>4. CASE f # t
      BY <1>6, <2>2, <3>1, <3>2, <3>4
    <3> QED BY <3>3, <3>4
  <2> QED BY <2>1, <2>2
<1> QED
  BY <1>10, <1>12, <1>13, <1>14, <1>15 DEF Core, Shape
(* bulp_buffer_append_small copies in place.                               *)
LEMMA InPlaceKeepsCore ==
  ASSUME Core, NEW b \in LiveBuffers, NEW s \in Seq(Byte),
         last[b] # NULL, kind[last[b]] = NATIVE, End(last[b]) + Len(s) <= Cap,
         data' = [data EXCEPT ![last[b]] = @ \o s],
         size' = [size EXCEPT ![b] = @ + Len(s)],
         UNCHANGED <<live, chain, last, kind, start, binVars, lent>>
  PROVE  Core'
<1> DEFINE c == chain[b]
           t == last[b]
           x == [data EXCEPT ![t] = @ \o s]
<1>1. /\ c \in Lists /\ data \in Fields /\ Good(c, t, size[b], data)
      /\ t \in Placed(c) /\ t \in Frag /\ size[b] \in Nat /\ b \in Buffers
      /\ \A d \in LiveBuffers \ {b} : Placed(chain[d]) \cap Placed(c) = {}
      /\ size[b] = Total(c, data)
  BY OfBuffer
<1>2. Len(s) \in Nat /\ data[t] \in Seq(Byte)
  BY <1>1, LenProperties, LengthZero
<1>3. /\ x \in Fields /\ Len(x[t]) = Len(data[t]) + Len(s)
      /\ \A f \in Frag : f # t => x[f] = data[f]
  <2>1. data[t] \o s \in Seq(Byte) /\ Len(data[t] \o s) = Len(data[t]) + Len(s)
    BY <1>2, ConcatProperties
  <2> QED BY <1>1, <2>1 DEF Fields
<1>4. Len(c) \in Nat /\ Len(c) \in 1 .. Len(c) /\ t = c[Len(c)] /\ Inj(c)
  <2>1. c # <<>> /\ t = c[Len(c)] /\ Inj(c)
    BY <1>1 DEF Good
  <2>2. Len(c) \in Nat /\ Len(c) > 0
    <3> HIDE DEF c
    <3> QED BY <1>1, <2>1, LenProperties, EmptySeq DEF Lists
  <2> QED BY <2>1, <2>2
<1> HIDE DEF x, c, t
<1>5. Good(c, t, size[b] + Len(s), x)
  <2>1. ASSUME NEW i \in 1 .. Len(c), i # Len(c) PROVE Len(x[c[i]]) = Len(data[c[i]])
    <3>1. c[i] # t /\ c[i] \in Frag
      BY <1>1, <1>4, <2>1, LenOfFragment DEF Inj
    <3> QED BY <1>3, <3>1
  <2>2. Total(c, x) = Total(c, data) + Len(s)
    <3>1. Len(x[c[Len(c)]]) = Len(data[c[Len(c)]]) + Len(s) /\ Len(s) \in Int
      BY <1>2, <1>3, <1>4
    <3>2. \A i \in 1 .. Len(c) : i # Len(c) => Len(x[c[i]]) = Len(data[c[i]])
      BY <2>1
    <3>3. c \in Lists /\ data \in Fields /\ x \in Fields /\ Len(c) \in 1 .. Len(c)
      BY <1>1, <1>3, <1>4
    <3> QED BY ONLY <3>1, <3>2, <3>3, TotalOneChanged
  <2>3. ASSUME NEW f \in Placed(c) PROVE x[f] # <<>>
    <3>1. f \in Frag /\ data[f] # <<>>
      BY <1>1, PlacedConcat DEF Good
    <3>2. CASE f = t
      <4>1. Len(x[f]) > 0
        BY <1>1, <1>2, <1>3, <3>1, <3>2, LengthZero
      <4> QED BY <1>3, <3>1, <4>1, LengthZero
    <3>3. CASE f # t
      BY <1>3, <3>1, <3>3
    <3> QED BY <3>2, <3>3
  <2> QED BY <1>1, <2>2, <2>3 DEF Good
<1>6. ASSUME NEW d \in LiveBuffers \ {b}, NEW f \in Placed(chain[d]) PROVE x[f] = data[f]
  <2>1. f \in Frag /\ f # t
    BY <1>1, OfBuffer
  <2> QED BY <1>3, <2>1
<1>7. /\ chain' = [chain EXCEPT ![b] = c] /\ last' = [last EXCEPT ![b] = t]
      /\ size' = [size EXCEPT ![b] = size[b] + Len(s)] /\ data' = x /\ live' = live
  BY <1>1 DEF c, t, x, Core, Shape
<1>8. /\ live' \in [Buffers -> BOOLEAN] /\ chain' \in [Buffers -> Lists]
      /\ last' \in [Buffers -> Frag \cup {NULL}] /\ size' \in [Buffers -> Nat]
      /\ data' \in Fields
      /\ LiveBuffers' = LiveBuffers
      /\ \A d \in LiveBuffers : Good(chain'[d], last'[d], size'[d], data')
  <2>1. size[b] + Len(s) \in Nat /\ t \in Frag \cup {NULL}
    BY <1>1, <1>2
  <2>2. \A d \in LiveBuffers \ {b} : \A f \in Placed(chain[d]) : x[f] = data[f]
    BY <1>6
  <2>3. Core /\ b \in LiveBuffers /\ c \in Lists /\ x \in Fields
    BY <1>1, <1>3
  <2> QED BY ONLY <1>5, <1>7, <2>1, <2>2, <2>3, ListChanged
<1>9. Held' = Held
  BY DEF Held
<1>10. Sorted(LiveBuffers', Held', kind', bin', lent')
  BY <1>8, <1>9 DEF Core, binVars
<1>11. InsideAllocation'
  <2> SUFFICES ASSUME NEW f \in Frag, kind[f] = NATIVE PROVE start[f] + Len(x[f]) <= Cap
    BY <1>7 DEF InsideAllocation, End
  <2>1. start[f] + Len(data[f]) <= Cap
    BY DEF Core, InsideAllocation, End
  <2>2. CASE f = t
    <3>1. start[t] + Len(data[t]) + Len(s) <= Cap
      BY DEF End, t
    <3>2. start[t] \in Nat /\ Len(data[t]) \in Nat
      BY <1>1, LengthZero DEF Core, Shape
    <3> QED BY <1>2, <1>3, <2>2, <3>1, <3>2, CapNat
  <2>3. CASE f # t
    BY <1>3, <2>1, <2>3
  <2> QED BY <2>2, <2>3
<1> QED BY <1>8, <1>10, <1>11 DEF Core, Shape, RecyclingBounded, binVars

(* A trial fragment of vprintf: only when the bin is empty.                *)
LEMMA TrialFits ==
  ASSUME Core, NEW b, NEW trial \in Trials(b)
  PROVE  /\ trial \in SUBSET {f \in Frag : kind[f] = FREE}
         /\ trial \cap bin = {}
         /\ Cardinality(trial) <= MAX_RECYCLED - num_recycled
<1>1. num_recycled = Cardinality(bin) /\ num_recycled <= MAX_RECYCLED
      /\ MAX_RECYCLED \in Nat \ {0} /\ IsFiniteSet(bin)
  BY ValueAssumption, SizeAssumption, FS_Subset DEF Core, Shape, RecyclingBounded
<1>2. Cardinality(bin) \in Nat
  BY <1>1, FS_CardinalityType
<1>3. CASE trial = {}
  BY <1>1, <1>2, <1>3, FS_EmptySet
<1>4. CASE trial # {}
  <2>1. bin = {} /\ \E f \in Unallocated : trial = {f}
    BY <1>4 DEF Trials
  <2>2. PICK f \in Frag : trial = {f} /\ kind[f] = FREE
    BY <2>1 DEF Unallocated
  <2>3. Cardinality(trial) = 1 /\ num_recycled = 0
    BY <1>1, <2>1, <2>2, FS_EmptySet, FS_Singleton
  <2>4. 1 <= MAX_RECYCLED - 0
    BY <1>1
  <2> QED BY <2>1, <2>2, <2>3, <2>4
<1> QED BY <1>3, <1>4

(* The empty text leaves only the trial fragment, in the bin.              *)
LEMMA TrialKeepsCore ==
  ASSUME Core, NEW b, NEW trial \in Trials(b),
         kind' = With(kind, trial, NATIVE), start' = With(start, trial, 0),
         data' = With(data, trial, <<>>), bin' = bin \cup trial,
         num_recycled' = num_recycled + Cardinality(trial),
         UNCHANGED <<live, chain, last, size, lent>>
  PROVE  Core'
<1>1. /\ trial \in SUBSET {f \in Frag : kind[f] = FREE}
      /\ trial \cap bin = {}
      /\ Cardinality(trial) <= MAX_RECYCLED - num_recycled
  BY TrialFits
<1>2. Shape'
  <2>1. <<>> \in Seq(Byte)
    OBVIOUS
  <2> QED BY <1>1, <2>1 DEF Core, Shape, With, Kinds, Fields
<1>3. LiveBuffers' = LiveBuffers /\ Held' = Held
  BY DEF LiveBuffers, Held
<1>4. ASSUME NEW d \in LiveBuffers PROVE Good(chain'[d], last'[d], size'[d], data')
  <2>1. /\ chain[d] \in Lists /\ data \in Fields /\ Good(chain[d], last[d], size[d], data)
        /\ \A f \in Placed(chain[d]) : kind[f] # FREE /\ f \in Frag
    BY OfBuffer
  <2>2. \A f \in Placed(chain[d]) : Len(data'[f]) = Len(data[f])
    BY <1>1, <2>1 DEF With
  <2>3. data' \in Fields
    BY <1>2 DEF Shape
  <2>4. Good(chain[d], last[d], size[d], data')
    BY <2>1, <2>2, <2>3, GoodElsewhere
  <2> QED BY <2>4
<1>5. Sorted(LiveBuffers', Held', kind', bin', lent')
  <2>1. /\ LiveBuffers \in SUBSET Buffers /\ Held \in Holdings /\ kind \in Kinds
        /\ bin \in SUBSET Frag /\ lent \in SUBSET Foreign
        /\ Sorted(LiveBuffers, Held, kind, bin, lent)
    BY PlacedConcat DEF Core, Shape, LiveBuffers, Held, Holdings
  <2>2. Sorted(LiveBuffers, Held, With(kind, trial, NATIVE), bin \cup trial, lent)
    BY <1>1, <2>1, SortedTrial
  <2> QED BY <1>3, <2>2
<1>6. RecyclingBounded'
  BY <1>1, CountAfterAdding DEF RecyclingBounded
<1>7. InsideAllocation'
  <2> SUFFICES ASSUME NEW f \in Frag, kind'[f] = NATIVE PROVE start'[f] + Len(data'[f]) <= Cap
    BY DEF InsideAllocation, End
  <2>1. CASE f \in trial
    <3>1. start'[f] = 0 /\ data'[f] = <<>> /\ Len(<<>>) = 0
      BY <2>1 DEF With
    <3> QED BY <3>1, CapNat
  <2>2. CASE f \notin trial
    BY <2>2 DEF With, Core, InsideAllocation, End
  <2> QED BY <2>1, <2>2
<1> QED BY <1>2, <1>3, <1>4, <1>5, <1>6, <1>7 DEF Core
(* A list of one fragment.                                                 *)
LEMMA GoodSingle ==
  ASSUME NEW f \in Frag, NEW x \in Fields, x[f] # <<>>
  PROVE  <<f>> \in Lists /\ Placed(<<f>>) = {f} /\ Good(<<f>>, f, Len(x[f]), x)
<1> DEFINE e == <<f>>
<1>1. e \in Lists /\ Len(e) = 1 /\ e[1] = f /\ e # <<>>
  BY DEF Lists
<1> HIDE DEF e
<1>2. Placed(e) = {f} /\ Inj(e)
  BY <1>1 DEF Placed, Inj
<1>3. Total(e, x) = Len(x[f])
  <2>1. Sums(Offsets(e, x), e, x, Len(e))
    BY <1>1, OffsetsDef
  <2>2. Offsets(e, x)[0] = 0 /\ Offsets(e, x)[1] = Offsets(e, x)[1 - 1] + Len(x[e[1]])
    BY <1>1, <2>1 DEF Sums
  <2>3. Len(x[f]) \in Nat
    BY LengthZero
  <2> QED BY <1>1, <2>2, <2>3 DEF Total
<1>4. Good(e, f, Len(x[f]), x)
  BY <1>1, <1>2, <1>3 DEF Good
<1> QED BY <1>1, <1>2, <1>4 DEF e

(* new_foreign_fragment and its linking.                                   *)
LEMMA StoreForeignKeepsCore ==
  ASSUME Core, NEW b \in LiveBuffers, NEW o \in Foreign \ lent, NEW s \in Seq(Byte),
         s # <<>>, NEW trial \in {{}} \cup Trials(b), StoreForeign(b, o, s, trial),
         UNCHANGED live
  PROVE  Core'
<1> DEFINE c == chain[b]
           t == last[b]
<1>1. /\ c \in Lists /\ data \in Fields /\ Good(c, t, size[b], data)
      /\ Held[b] = Placed(c) /\ Placed(c) \subseteq Frag /\ b \in Buffers
      /\ \A g \in Placed(c) : g \notin bin /\ kind[g] # FREE
      /\ kind \in Kinds /\ start \in [Frag -> Nat]
  BY OfBuffer
<1>2. /\ trial \in SUBSET {f \in Frag : kind[f] = FREE}
      /\ trial \cap bin = {}
      /\ Cardinality(trial) <= MAX_RECYCLED - num_recycled
  <2>1. CASE trial = {}
    <3>1. num_recycled = Cardinality(bin) /\ num_recycled <= MAX_RECYCLED
          /\ MAX_RECYCLED \in Nat \ {0} /\ IsFiniteSet(bin)
      BY ValueAssumption, SizeAssumption, FS_Subset DEF Core, Shape, RecyclingBounded
    <3>2. num_recycled \in Nat /\ Cardinality({}) = 0
      BY <3>1, FS_CardinalityType, FS_EmptySet
    <3> QED BY <2>1, <3>1, <3>2
  <2>2. CASE trial \in Trials(b)
    BY <2>2, TrialFits
  <2> QED BY <2>1, <2>2
<1>3. PICK f \in Unallocated \ trial :
       /\ kind' = [With(kind, trial, NATIVE) EXCEPT ![f] = o]
       /\ start' = With(start, trial \cup {f}, 0)
       /\ data' = [With(data, trial, <<>>) EXCEPT ![f] = s]
       /\ chain' = [chain EXCEPT ![b] = Link(@, last[b], <<f>>)]
       /\ last' = [last EXCEPT ![b] = f]
  BY DEF StoreForeign
<1>4. /\ size' = [size EXCEPT ![b] = @ + Len(s)] /\ lent' = lent \cup {o}
      /\ bin' = bin \cup trial /\ num_recycled' = num_recycled + Cardinality(trial)
  BY DEF StoreForeign
<1> DEFINE x == [With(data, trial, <<>>) EXCEPT ![f] = s]
           e == Link(c, t, <<f>>)
<1>5. f \in Frag /\ kind[f] = FREE /\ f \notin trial /\ f \notin Placed(c)
  BY <1>1 DEF Unallocated
<1>6. /\ x \in Fields /\ x[f] = s
      /\ \A g \in Frag : g # f /\ g \notin trial => x[g] = data[g]
  <2>1. <<>> \in Seq(Byte)
    OBVIOUS
  <2> QED BY <1>1, <1>5, <2>1 DEF Fields, With
<1> HIDE DEF x
<1>7. \A d \in LiveBuffers : \A g \in Placed(chain[d]) : x[g] = data[g]
  <2> SUFFICES ASSUME NEW d \in LiveBuffers, NEW g \in Placed(chain[d]) PROVE x[g] = data[g]
    OBVIOUS
  <2>1. g \in Frag /\ kind[g] # FREE
    BY OfBuffer
  <2> QED BY <1>2, <1>5, <1>6, <2>1
<1>8. Good(c, t, size[b], x)
  BY <1>1, <1>6, <1>7, GoodElsewhere
<1>9. <<f>> \in Lists /\ Placed(<<f>>) = {f} /\ Good(<<f>>, f, Len(s), x)
  BY <1>5, <1>6, GoodSingle
<1>10. /\ e \in Lists /\ Placed(e) = Placed(c) \cup {f}
       /\ Good(e, f, size[b] + Len(s), x)
  <2>1. Placed(c) \cap Placed(<<f>>) = {}
    BY <1>5, <1>9
  <2>2. <<f>> # <<>>
    OBVIOUS
  <2>3. /\ e \in Lists /\ Placed(e) = Placed(c) \cup Placed(<<f>>)
        /\ Good(e, IF <<f>> = <<>> THEN t ELSE f, size[b] + Len(s), x)
    <3>1. /\ c \in Lists /\ <<f>> \in Lists /\ x \in Fields
          /\ Good(c, t, size[b], x) /\ Good(<<f>>, f, Len(s), x)
      BY <1>1, <1>6, <1>8, <1>9
    <3> DEFINE g == <<f>>
               n == size[b]
               m == Len(s)
    <3>2. /\ c \in Lists /\ g \in Lists /\ Good(c, t, n, x) /\ Good(g, f, m, x)
          /\ x \in Fields /\ Placed(c) \cap Placed(g) = {}
      BY <2>1, <3>1
    <3> HIDE DEF c, t, g, n, m
    <3>3. /\ Link(c, t, g) \in Lists /\ Placed(Link(c, t, g)) = Placed(c) \cup Placed(g)
          /\ Good(Link(c, t, g), IF g = <<>> THEN t ELSE f, n + m, x)
      BY ONLY <3>2, GoodJoin
    <3> QED BY <3>3 DEF e, c, t, g, n, m
  <2> QED BY <1>9, <2>2, <2>3
<1> HIDE DEF e
<1>11. /\ chain' = [chain EXCEPT ![b] = e] /\ last' = [last EXCEPT ![b] = f]
       /\ size' = [size EXCEPT ![b] = size[b] + Len(s)] /\ data' = x /\ live' = live
  BY <1>3, <1>4 DEF e, x
<1>12. /\ live' \in [Buffers -> BOOLEAN] /\ chain' \in [Buffers -> Lists]
       /\ last' \in [Buffers -> Frag \cup {NULL}] /\ size' \in [Buffers -> Nat]
       /\ data' \in Fields
       /\ LiveBuffers' = LiveBuffers
       /\ Held' = [Held EXCEPT ![b] = Placed(e)]
       /\ \A d \in LiveBuffers : Good(chain'[d], last'[d], size'[d], data')
  <2>1. f \in Frag \cup {NULL} /\ b \in LiveBuffers /\ Core
    BY <1>5
  <2>2. \A d \in LiveBuffers \ {b} : \A g \in Placed(chain[d]) : x[g] = data[g]
    BY <1>7
  <2>3. e \in Lists /\ x \in Fields /\ Good(e, f, size[b] + Len(s), x)
    BY <1>6, <1>10
  <2>4. size[b] + Len(s) \in Nat
    BY ONLY <1>10, <2>3, GoodTail
  <2> QED BY ONLY <1>11, <2>1, <2>2, <2>3, <2>4, ListChanged
<1>13. kind' \in Kinds /\ start' \in [Frag -> Nat] /\ bin' \in SUBSET Frag
       /\ lent' \in SUBSET Foreign
  BY <1>1, <1>2, <1>3, <1>4, <1>5 DEF With, Kinds, Core, Shape
<1>14. Sorted(LiveBuffers', Held', kind', bin', lent')
  <2>2. /\ LiveBuffers \in SUBSET Buffers /\ Held \in Holdings /\ kind \in Kinds
        /\ bin \in SUBSET Frag /\ lent \in SUBSET Foreign
        /\ Sorted(LiveBuffers, Held, kind, bin, lent)
    BY PlacedConcat DEF Core, Shape, LiveBuffers, Held, Holdings
  <2>3. Sorted(LiveBuffers, [Held EXCEPT ![b] = @ \cup {f}],
               [With(kind, trial, NATIVE) EXCEPT ![f] = o], bin \cup trial, lent \cup {o})
    BY <1>2, <1>5, <2>2, SortedLend
  <2>4. Held' = [Held EXCEPT ![b] = @ \cup {f}]
    BY <1>1, <1>10, <1>12
  <2> QED BY <1>3, <1>4, <1>12, <2>3, <2>4
<1>15. RecyclingBounded'
  BY <1>2, <1>4, CountAfterAdding DEF RecyclingBounded
<1>16. InsideAllocation'
  <2> SUFFICES ASSUME NEW g \in Frag, kind'[g] = NATIVE PROVE start'[g] + Len(x[g]) <= Cap
    BY <1>11 DEF InsideAllocation, End
  <2>0. g # f
    BY <1>1, <1>3, <1>5, ValueAssumption DEF With, Kinds
  <2>1. CASE g \in trial
    <3>1. start'[g] = 0 /\ x[g] = <<>> /\ Len(<<>>) = 0
      BY <1>3, <2>0, <2>1 DEF With, x
    <3> QED BY <3>1, CapNat
  <2>2. CASE g \notin trial
    <3>1. kind[g] = NATIVE /\ start'[g] = start[g] /\ x[g] = data[g]
      BY <1>3, <1>6, <2>0, <2>2 DEF With
    <3> QED BY <3>1 DEF Core, InsideAllocation, End
  <2> QED BY <2>1, <2>2
<1> QED BY <1>12, <1>13, <1>14, <1>15, <1>16 DEF Core, Shape
-----------------------------------------------------------------------------
(* Taking from the front.                                                  *)

(* recycle, for fragments of one buffer.                                   *)
LEMMA RecycleSorts ==
  ASSUME Core, NEW b \in LiveBuffers, NEW gone \in SUBSET Placed(chain[b]), recycle(gone)
  PROVE  /\ kind' \in Kinds /\ bin' \in SUBSET Frag /\ lent' \in SUBSET Foreign
         /\ RecyclingBounded'
         /\ Sorted(LiveBuffers, [Held EXCEPT ![b] = @ \ gone], kind', bin', lent')
         /\ \A f \in Frag : kind'[f] = NATIVE => kind[f] = NATIVE
<1>1. PICK keep \in Kept(gone) :
        /\ bin' = bin \cup keep
        /\ num_recycled' = num_recycled + Cardinality(keep)
        /\ kind' = With(kind, gone \ keep, FREE)
        /\ lent' = lent \ {kind[f] : f \in gone}
  BY DEF recycle
<1>2. /\ Held[b] = Placed(chain[b]) /\ Placed(chain[b]) \subseteq Frag /\ b \in Buffers
      /\ \A f \in Placed(chain[b]) : f \notin bin
      /\ kind \in Kinds
  BY OfBuffer
<1>3. /\ keep \in SUBSET {f \in gone : kind[f] = NATIVE}
      /\ Cardinality(keep) <= MAX_RECYCLED - num_recycled
  <2> DEFINE natives == {f \in gone : kind[f] = NATIVE}
  <2>1. keep \subseteq natives
        /\ Cardinality(keep) = Lesser(Cardinality(natives), MAX_RECYCLED - num_recycled)
    BY DEF Kept
  <2>2. IsFiniteSet(natives) /\ IsFiniteSet(bin)
    <3>1. natives \subseteq Frag /\ bin \subseteq Frag
      BY <1>2 DEF Core, Shape
    <3> QED BY <3>1, ValueAssumption, FS_Subset
  <2>3. Cardinality(natives) \in Nat /\ MAX_RECYCLED \in Nat /\ num_recycled \in Nat
    BY <2>2, FS_CardinalityType, SizeAssumption DEF Core, RecyclingBounded
  <2> HIDE DEF natives
  <2>4. Lesser(Cardinality(natives), MAX_RECYCLED - num_recycled) <= MAX_RECYCLED - num_recycled
    BY <2>3 DEF Lesser
  <2> QED BY <2>1, <2>4 DEF natives
<1>4. kind' \in Kinds /\ bin' \in SUBSET Frag /\ lent' \in SUBSET Foreign
  BY <1>1, <1>2, <1>3 DEF With, Kinds, Core, Shape
<1>5. RecyclingBounded'
  <2>1. keep \in SUBSET Frag /\ keep \cap bin = {}
    BY <1>2, <1>3
  <2> QED BY <1>1, <1>3, <2>1, CountAfterAdding DEF RecyclingBounded
<1>6. Sorted(LiveBuffers, [Held EXCEPT ![b] = @ \ gone], kind', bin', lent')
  <2>1. /\ LiveBuffers \in SUBSET Buffers /\ Held \in Holdings /\ kind \in Kinds
        /\ bin \in SUBSET Frag /\ lent \in SUBSET Foreign
        /\ Sorted(LiveBuffers, Held, kind, bin, lent)
    BY PlacedConcat DEF Core, Shape, LiveBuffers, Held, Holdings
  <2>2. gone \in SUBSET Held[b]
    BY <1>2
  <2>3. Sorted(LiveBuffers, [Held EXCEPT ![b] = @ \ gone], With(kind, gone \ keep, FREE),
               bin \cup keep, lent \ {kind[f] : f \in gone})
    BY <1>3, <2>1, <2>2, SortedShrink
  <2> QED BY <1>1, <2>3
<1>7. \A f \in Frag : kind'[f] = NATIVE => kind[f] = NATIVE
  BY <1>1, ValueAssumption DEF With
<1> QED BY <1>4, <1>5, <1>6, <1>7

(* The front fragment of a list is advanced by `part' bytes.               *)
LEMMA Advanced ==
  ASSUME NEW d \in Fields, NEW f \in Frag, NEW part \in Nat, part <= Len(d[f])
  PROVE  /\ SubSeq(d[f], part + 1, Len(d[f])) \in Seq(Byte)
         /\ Len(SubSeq(d[f], part + 1, Len(d[f]))) = Len(d[f]) - part
<1>1. d[f] \in Seq(Byte) /\ Len(d[f]) \in Nat
  BY LengthZero
<1> DEFINE z == d[f]
<1> HIDE DEF z
<1>2. z \in Seq(Byte) /\ Len(z) \in Nat /\ part <= Len(z)
  BY <1>1 DEF z
<1>3. \A i \in part + 1 .. Len(z) : z[i] \in Byte
  <2> SUFFICES ASSUME NEW i \in part + 1 .. Len(z) PROVE z[i] \in Byte
    OBVIOUS
  <2>1. i \in 1 .. Len(z)
    BY <1>2
  <2> QED BY <1>2, <2>1, ElementOfSeq
<1>4. SubSeq(z, part + 1, Len(z)) \in Seq(Byte)
      /\ Len(SubSeq(z, part + 1, Len(z))) = IF part + 1 <= Len(z)
                                            THEN Len(z) - (part + 1) + 1 ELSE 0
  BY <1>2, <1>3, SubSeqProperties
<1>5. Len(SubSeq(z, part + 1, Len(z))) = Len(z) - part
  BY <1>2, <1>4
<1> QED BY <1>4, <1>5 DEF z

(* The loop of bulp_buffer_read and bulp_buffer_discard.                   *)
LEMMA UnlinkKeepsCore ==
  ASSUME Core, NEW b \in LiveBuffers, NEW n \in Nat, Unlink(b, n)
  PROVE  Core'
<1> DEFINE c == chain[b]
           k == Whole(c, n)
           gone == Placed(SubSeq(c, 1, k))
           part == IF k < Len(c) THEN n - Offsets(c, data)[k] ELSE 0
           e == SubSeq(c, k + 1, Len(c))
           u == IF k = Len(c) THEN NULL ELSE last[b]
           x == [f \in Frag |-> IF f \in gone THEN <<>>
                                ELSE IF k < Len(c) /\ f = c[k + 1]
                                THEN SubSeq(data[f], part + 1, Len(data[f])) ELSE data[f]]
<1>1. /\ c \in Lists /\ data \in Fields /\ Good(c, last[b], size[b], data)
      /\ Held[b] = Placed(c) /\ Placed(c) \subseteq Frag /\ b \in Buffers
      /\ \A f \in Placed(c) : data[f] # <<>>
      /\ start \in [Frag -> Nat] /\ size[b] = Total(c, data)
      /\ last[b] \in Frag \cup {NULL}
  BY OfBuffer
<1>2. /\ chain' = [chain EXCEPT ![b] = e]
      /\ last' = [last EXCEPT ![b] = u]
      /\ size' = [size EXCEPT ![b] = @ - Taken(c, n)]
      /\ start' = [f \in Frag |-> IF f \in gone THEN 0
                                  ELSE IF k < Len(c) /\ f = c[k + 1]
                                  THEN start[f] + part ELSE start[f]]
      /\ data' = x
      /\ recycle(gone)
      /\ live' = live
  BY <1>1 DEF Unlink, Core, Shape
<1>3. /\ k \in 0 .. Len(c) /\ Len(c) \in Nat /\ Offsets(c, data)[k] \in Nat
      /\ part \in Nat
      /\ k < Len(c) => part < Len(data[c[k + 1]])
      /\ k = Len(c) => part = 0
      /\ Taken(c, n) = Offsets(c, data)[k] + part
  <2>1. /\ k \in 0 .. Len(c) /\ Offsets(c, data)[k] <= n
        /\ k < Len(c) => /\ Taken(c, n) = n
                         /\ n - Offsets(c, data)[k] \in Nat
                         /\ n - Offsets(c, data)[k] < Len(data[c[k + 1]])
        /\ k = Len(c) => Taken(c, n) = Total(c, data)
    BY <1>1, TakenBounds
  <2>2. Len(c) \in Nat /\ Offsets(c, data)[k] \in Nat /\ Total(c, data) = Offsets(c, data)[Len(c)]
    BY <1>1, <2>1, TotalType DEF Total
  <2> HIDE DEF k, c
  <2> QED BY <2>1, <2>2
<1> HIDE DEF k, part
<1>4. /\ gone \in SUBSET Placed(c) /\ Placed(e) = Placed(c) \ gone
      /\ \A i \in k + 1 .. Len(c) : c[i] \in Placed(c) /\ c[i] \in Frag /\ c[i] \notin gone
  <2>1. /\ \A i \in 1 .. k : SubSeq(c, 1, k)[i] = c[i]
        /\ gone = {c[i] : i \in 1 .. k}
        /\ Placed(e) = {c[i] : i \in k + 1 .. Len(c)}
        /\ Placed(c) = gone \cup Placed(e)
    BY <1>1, <1>3, Cut
  <2>2. gone \cap Placed(e) = {}
    BY <1>1, <1>3, InjCut DEF Good
  <2> QED BY <1>1, <2>1, <2>2
<1> HIDE DEF gone, e, c
<1>5. k < Len(c) => /\ c[k + 1] \in Placed(c) /\ c[k + 1] \in Frag /\ c[k + 1] \notin gone
                    /\ Len(data[c[k + 1]]) \in Nat
                    /\ SubSeq(data[c[k + 1]], part + 1, Len(data[c[k + 1]])) \in Seq(Byte)
                    /\ Len(SubSeq(data[c[k + 1]], part + 1, Len(data[c[k + 1]])))
                         = Len(data[c[k + 1]]) - part
  <2> SUFFICES ASSUME k < Len(c) PROVE <1>5!2
    OBVIOUS
  <2>1. k + 1 \in k + 1 .. Len(c)
    BY <1>3
  <2>2. c[k + 1] \in Placed(c) /\ c[k + 1] \in Frag /\ c[k + 1] \notin gone
    BY <1>4, <2>1
  <2>3. Len(data[c[k + 1]]) \in Nat /\ part <= Len(data[c[k + 1]])
    BY <1>1, <1>3, <2>2, LengthZero
  <2> QED BY <1>1, <1>3, <2>2, <2>3, Advanced
<1>6. /\ x \in Fields
      /\ k < Len(c) => Len(x[c[k + 1]]) = Len(data[c[k + 1]]) - part
      /\ \A f \in Frag : f \notin gone /\ (k < Len(c) => f # c[k + 1]) => x[f] = data[f]
      /\ \A f \in gone : f \in Frag => x[f] = <<>>
  <2>1. <<>> \in Seq(Byte)
    OBVIOUS
  <2>2. x \in Fields
    BY <1>1, <1>5, <2>1 DEF Fields
  <2> QED BY <1>5, <2>2
<1> HIDE DEF x
<1>7. \A i \in k + 1 .. Len(c) : i # k + 1 => Len(x[c[i]]) = Len(data[c[i]])
  <2> SUFFICES ASSUME NEW i \in k + 1 .. Len(c), i # k + 1 PROVE x[c[i]] = data[c[i]]
    OBVIOUS
  <2>1. i \in 1 .. Len(c) /\ k + 1 \in 1 .. Len(c) /\ Inj(c)
    BY <1>1, <1>3 DEF Good
  <2>2. c[i] # c[k + 1]
    BY <2>1 DEF Inj
  <2> QED BY <1>4, <1>6, <2>2
<1>8. /\ e \in Lists /\ size[b] - Taken(c, n) \in Nat
      /\ Good(e, u, size[b] - Taken(c, n), x)
  <2>1. /\ SubSeq(c, k + 1, Len(c)) \in Lists
        /\ size[b] - (Offsets(c, data)[k] + part) \in Nat
        /\ Good(SubSeq(c, k + 1, Len(c)), IF k = Len(c) THEN NULL ELSE last[b],
                size[b] - (Offsets(c, data)[k] + part), x)
    <3>1. /\ c \in Lists /\ data \in Fields /\ Good(c, last[b], size[b], data)
          /\ k \in 0 .. Len(c) /\ part \in Nat
          /\ k < Len(c) => part < Len(data[c[k + 1]])
          /\ k = Len(c) => part = 0
      BY <1>1, <1>3
    <3>2. /\ x \in Fields
          /\ k < Len(c) => Len(x[c[k + 1]]) = Len(data[c[k + 1]]) - part
          /\ \A i \in k + 1 .. Len(c) : i # k + 1 => Len(x[c[i]]) = Len(data[c[i]])
      BY <1>6, <1>7
    <3> QED BY ONLY <3>1, <3>2, GoodTaken
  <2> QED BY <1>3, <2>1 DEF e
<1>9. u \in Frag \cup {NULL}
  BY <1>1
<1> HIDE DEF u
<1>10. \A d \in LiveBuffers \ {b} : \A f \in Placed(chain[d]) : x[f] = data[f]
  <2> SUFFICES ASSUME NEW d \in LiveBuffers \ {b}, NEW f \in Placed(chain[d])
               PROVE  x[f] = data[f]
    OBVIOUS
  <2>1. f \in Frag /\ f \notin Placed(c)
    BY OfBuffer DEF c
  <2> QED BY <1>4, <1>5, <1>6, <2>1
<1>11. size' = [size EXCEPT ![b] = size[b] - Taken(c, n)]
  BY <1>2
<1>12. /\ live' \in [Buffers -> BOOLEAN] /\ chain' \in [Buffers -> Lists]
       /\ last' \in [Buffers -> Frag \cup {NULL}] /\ size' \in [Buffers -> Nat]
       /\ data' \in Fields
       /\ LiveBuffers' = LiveBuffers
       /\ Held' = [Held EXCEPT ![b] = Placed(e)]
       /\ \A d \in LiveBuffers : Good(chain'[d], last'[d], size'[d], data')
  <2>1. Core /\ b \in LiveBuffers /\ x \in Fields
    BY <1>6
  <2> QED BY ONLY <1>2, <1>8, <1>9, <1>10, <1>11, <2>1, ListChanged
<1>13. /\ kind' \in Kinds /\ bin' \in SUBSET Frag /\ lent' \in SUBSET Foreign
       /\ RecyclingBounded'
       /\ Sorted(LiveBuffers, [Held EXCEPT ![b] = @ \ gone], kind', bin', lent')
       /\ \A f \in Frag : kind'[f] = NATIVE => kind[f] = NATIVE
  <2>1. gone \in SUBSET Placed(chain[b])
    BY <1>4 DEF c
  <2> QED BY <1>2, <2>1, RecycleSorts
<1>14. Sorted(LiveBuffers', Held', kind', bin', lent')
  <2>1. [Held EXCEPT ![b] = @ \ gone] = [Held EXCEPT ![b] = Placed(e)]
    BY <1>1, <1>4
  <2> QED BY <1>12, <1>13, <2>1
<1>15. start' \in [Frag -> Nat]
  BY <1>1, <1>2, <1>3
<1>16. InsideAllocation'
  <2> SUFFICES ASSUME NEW f \in Frag, kind'[f] = NATIVE PROVE start'[f] + Len(x[f]) <= Cap
    BY <1>2 DEF InsideAllocation, End
  <2>0. /\ start[f] + Len(data[f]) <= Cap /\ start[f] \in Nat /\ Len(data[f]) \in Nat
    BY <1>1, <1>13, LengthZero DEF Core, InsideAllocation, End
  <2>1. CASE f \in gone
    <3>1. start'[f] = 0 /\ x[f] = <<>> /\ Len(<<>>) = 0
      BY <1>2, <1>6, <2>1
    <3> QED BY <3>1, CapNat
  <2>2. CASE f \notin gone /\ k < Len(c) /\ f = c[k + 1]
    <3>1. start'[f] = start[f] + part /\ Len(x[f]) = Len(data[f]) - part
      BY <1>2, <1>6, <2>2
    <3> QED BY <1>3, <2>0, <3>1, CapNat
  <2>3. CASE f \notin gone /\ ~(k < Len(c) /\ f = c[k + 1])
    BY <1>2, <1>6, <2>0, <2>3
  <2> QED BY <2>1, <2>2, <2>3
<1> QED BY <1>12, <1>13, <1>14, <1>15, <1>16 DEF Core, Shape
-----------------------------------------------------------------------------
(* From buffer to buffer.                                                  *)

(* bulp_buffer_drain, when there is something to splice.                   *)
LEMMA SpliceKeepsCore ==
  ASSUME Core, NEW dst \in LiveBuffers, NEW src \in LiveBuffers, dst # src,
         chain[src] # <<>>,
         chain' = [chain EXCEPT ![dst] = Link(@, last[dst], chain[src]), ![src] = <<>>],
         last' = [last EXCEPT ![dst] = last[src], ![src] = NULL],
         size' = [size EXCEPT ![dst] = @ + size[src], ![src] = 0],
         UNCHANGED <<live, fragVars, binVars, lent>>
  PROVE  Core'
<1> DEFINE e == Link(chain[dst], last[dst], chain[src])
<1>1. /\ chain[dst] \in Lists /\ chain[src] \in Lists /\ data \in Fields
      /\ Good(chain[dst], last[dst], size[dst], data)
      /\ Good(chain[src], last[src], size[src], data)
      /\ Placed(chain[dst]) \cap Placed(chain[src]) = {}
      /\ dst \in Buffers /\ src \in Buffers
      /\ size[dst] \in Nat /\ size[src] \in Nat /\ last[src] \in Frag \cup {NULL}
      /\ Held[dst] = Placed(chain[dst]) /\ Held[src] = Placed(chain[src])
  BY OfBuffer
<1>2. /\ e \in Lists
      /\ Placed(e) = Placed(chain[dst]) \cup Placed(chain[src])
      /\ Good(e, last[src], size[dst] + size[src], data)
  <2> DEFINE c == chain[dst]
             t == last[dst]
             n == size[dst]
             g == chain[src]
             u == last[src]
             m == size[src]
  <2>1. /\ c \in Lists /\ g \in Lists /\ data \in Fields /\ g # <<>>
        /\ Good(c, t, n, data) /\ Good(g, u, m, data) /\ Placed(c) \cap Placed(g) = {}
    BY <1>1
  <2> HIDE DEF c, t, n, g, u, m
  <2>2. /\ Link(c, t, g) \in Lists /\ Placed(Link(c, t, g)) = Placed(c) \cup Placed(g)
        /\ Good(Link(c, t, g), IF g = <<>> THEN t ELSE u, n + m, data)
    BY <2>1, GoodJoin
  <2> QED BY <2>1, <2>2 DEF c, t, n, g, u, m
<1> HIDE DEF e
<1>3. /\ chain' = [chain EXCEPT ![dst] = e, ![src] = <<>>]
      /\ data' = data /\ live' = live /\ kind' = kind /\ start' = start
      /\ bin' = bin /\ lent' = lent /\ num_recycled' = num_recycled
  BY DEF e, fragVars, binVars
<1>4. <<>> \in Lists /\ Good(<<>>, NULL, 0, data) /\ Placed(<<>>) = {}
  BY <1>1, GoodEmpty
<1>5. Shape'
  <2>1. chain' \in [Buffers -> Lists]
    BY <1>1, <1>2, <1>3, <1>4 DEF Core, Shape
  <2>2. last' \in [Buffers -> Frag \cup {NULL}]
    BY <1>1 DEF Core, Shape
  <2>3. size' \in [Buffers -> Nat]
    <3>1. size \in [Buffers -> Nat] /\ size[dst] + size[src] \in Nat
      BY <1>1 DEF Core, Shape
    <3> QED BY <3>1
  <2> QED BY <1>3, <2>1, <2>2, <2>3 DEF Core, Shape
<1>6. LiveBuffers' = LiveBuffers
  BY <1>3 DEF LiveBuffers
<1>7. ASSUME NEW d \in LiveBuffers PROVE Good(chain'[d], last'[d], size'[d], data')
  <2>0. d \in Buffers
    BY DEF LiveBuffers
  <2>1. CASE d = src
    <3>1. chain'[d] = <<>> /\ last'[d] = NULL /\ size'[d] = 0
      BY <1>3, <2>0, <2>1 DEF Core, Shape
    <3> QED BY <1>3, <1>4, <3>1
  <2>2. CASE d = dst
    <3>1. chain'[d] = e /\ last'[d] = last[src] /\ size'[d] = size[dst] + size[src]
      BY <1>3, <2>0, <2>2 DEF Core, Shape
    <3> QED BY <1>2, <1>3, <3>1
  <2>3. CASE d # dst /\ d # src
    <3>1. chain'[d] = chain[d] /\ last'[d] = last[d] /\ size'[d] = size[d]
      BY <1>3, <2>0, <2>3 DEF Core, Shape
    <3> QED BY <1>3, <3>1 DEF Core
  <2> QED BY <2>1, <2>2, <2>3
<1>8. Sorted(LiveBuffers', Held', kind', bin', lent')
  <2>1. /\ LiveBuffers \in SUBSET Buffers /\ Held \in Holdings /\ kind \in Kinds
        /\ bin \in SUBSET Frag /\ lent \in SUBSET Foreign
        /\ Sorted(LiveBuffers, Held, kind, bin, lent)
    BY PlacedConcat DEF Core, Shape, LiveBuffers, Held, Holdings
  <2> DEFINE moved == Placed(chain[src])
  <2>2. moved \in SUBSET Held[src]
    BY <1>1
  <2>3. Sorted(LiveBuffers, [Held EXCEPT ![dst] = @ \cup moved, ![src] = @ \ moved],
               kind, bin, lent)
    BY <2>1, <2>2, SortedMove
  <2>4. Held' = [Held EXCEPT ![dst] = @ \cup moved, ![src] = @ \ moved]
    <3> DEFINE h == [Held EXCEPT ![dst] = @ \cup moved, ![src] = @ \ moved]
    <3>1. \A d \in Buffers : Placed(chain'[d]) = h[d]
      BY <1>1, <1>2, <1>3, <1>4 DEF Held, Core, Shape
    <3>2. h = [d \in Buffers |-> h[d]]
      BY DEF Held
    <3> HIDE DEF h
    <3> QED BY <3>1, <3>2 DEF Held, h
  <2> QED BY <1>3, <1>6, <2>3, <2>4
<1> QED BY <1>3, <1>5, <1>6, <1>7, <1>8
        DEF Core, RecyclingBounded, InsideAllocation, End

-----------------------------------------------------------------------------
(* Placeholders.                                                           *)

(* bulp_buffer_placeholder_set changes bytes and no length.                *)
LEMMA FillingInKeepsCore ==
  ASSUME Core, data' \in Fields, \A f \in Frag : Len(data'[f]) = Len(data[f]),
         UNCHANGED <<listVars, kind, start, binVars, lent>>
  PROVE  Core'
<1>1. Shape'
  BY DEF Core, Shape, listVars, binVars
<1>2. LiveBuffers' = LiveBuffers /\ Held' = Held
  BY DEF LiveBuffers, Held, listVars
<1>3. ASSUME NEW d \in LiveBuffers PROVE Good(chain'[d], last'[d], size'[d], data')
  <2>1. /\ chain[d] \in Lists /\ data \in Fields /\ Good(chain[d], last[d], size[d], data)
        /\ \A f \in Placed(chain[d]) : f \in Frag
    BY OfBuffer
  <2>2. Good(chain[d], last[d], size[d], data')
    BY <2>1, GoodElsewhere
  <2> QED BY <2>2 DEF listVars
<1> QED BY <1>1, <1>2, <1>3
        DEF Core, RecyclingBounded, InsideAllocation, End, binVars

-----------------------------------------------------------------------------
(* Throwing away.                                                          *)

(* Buffers whose lists are empty do not matter to where fragments are.     *)
LEMMA SortedOthers ==
  ASSUME NEW B \in SUBSET Buffers, NEW pl, NEW kd, NEW bn, NEW ln,
         Sorted(B, pl, kd, bn, ln),
         NEW E \in SUBSET Buffers, NEW ql,
         \A b \in B \cap E : ql[b] = pl[b],
         \A b \in B \ E : pl[b] = {}, \A b \in E \ B : ql[b] = {}
  PROVE  Sorted(E, ql, kd, bn, ln)
<1>1. \A b, e \in E : b # e => ql[b] \cap ql[e] = {}
  <2> SUFFICES ASSUME NEW b \in E, NEW e \in E, b # e, ql[b] \cap ql[e] # {} PROVE FALSE
    OBVIOUS
  <2>1. b \in B /\ e \in B
    OBVIOUS
  <2>2. ql[b] = pl[b] /\ ql[e] = pl[e]
    BY <2>1
  <2> QED BY <2>1, <2>2 DEF Sorted
<1>2. \A b \in E : \A f \in ql[b] : f \notin bn /\ kd[f] # FREE
  <2> SUFFICES ASSUME NEW b \in E, NEW f \in ql[b] PROVE f \notin bn /\ kd[f] # FREE
    OBVIOUS
  <2>1. b \in B
    OBVIOUS
  <2> QED BY <2>1 DEF Sorted
<1>3. ASSUME NEW f \in Frag, kd[f] # FREE PROVE f \in bn \/ \E b \in E : f \in ql[b]
  BY <1>3 DEF Sorted
<1> QED BY <1>1, <1>2, <1>3 DEF Sorted

(* The fragments of b are recycled: b is dropped (bulp_buffer_clear) or    *)
(* has an empty list from now on (bulp_buffer_reset).                      *)
LEMMA LetGoKeepsCore ==
  ASSUME Core, NEW b \in LiveBuffers, LetGo(b),
         \/ /\ live' = [live EXCEPT ![b] = FALSE]
            /\ UNCHANGED <<chain, last, size>>
         \/ /\ chain' = [chain EXCEPT ![b] = <<>>] /\ last' = [last EXCEPT ![b] = NULL]
            /\ size' = [size EXCEPT ![b] = 0] /\ live' = live
  PROVE  Core'
<1> DEFINE gone == Placed(chain[b])
<1>1. /\ b \in Buffers /\ gone \subseteq Frag /\ Held[b] = gone
      /\ \A d \in LiveBuffers \ {b} : Placed(chain[d]) \cap gone = {}
      /\ data \in Fields /\ start \in [Frag -> Nat]
  BY OfBuffer
<1>2. start' = With(start, gone, 0) /\ data' = With(data, gone, <<>>) /\ recycle(gone)
  BY DEF LetGo
<1>3. /\ kind' \in Kinds /\ bin' \in SUBSET Frag /\ lent' \in SUBSET Foreign
      /\ RecyclingBounded'
      /\ Sorted(LiveBuffers, [Held EXCEPT ![b] = @ \ gone], kind', bin', lent')
      /\ \A f \in Frag : kind'[f] = NATIVE => kind[f] = NATIVE
  BY <1>2, RecycleSorts
<1>4. <<>> \in Lists /\ Good(<<>>, NULL, 0, data') /\ Placed(<<>>) = {} /\ data' \in Fields
  <2>1. <<>> \in Seq(Byte)
    OBVIOUS
  <2>2. data' \in Fields
    BY <1>1, <1>2, <2>1 DEF With, Fields
  <2> QED BY <2>2, GoodEmpty
<1>5. Shape'
  <2>1. /\ live' \in [Buffers -> BOOLEAN] /\ chain' \in [Buffers -> Lists]
        /\ last' \in [Buffers -> Frag \cup {NULL}] /\ size' \in [Buffers -> Nat]
    <3>0. /\ live \in [Buffers -> BOOLEAN] /\ chain \in [Buffers -> Lists]
          /\ last \in [Buffers -> Frag \cup {NULL}] /\ size \in [Buffers -> Nat]
      BY DEF Core, Shape
    <3>1. CASE live' = [live EXCEPT ![b] = FALSE] /\ UNCHANGED <<chain, last, size>>
      <4>1. live' \in [Buffers -> BOOLEAN]
        BY ONLY <3>0, <3>1
      <4> QED BY <3>0, <3>1, <4>1
    <3>2. CASE /\ chain' = [chain EXCEPT ![b] = <<>>] /\ last' = [last EXCEPT ![b] = NULL]
               /\ size' = [size EXCEPT ![b] = 0] /\ live' = live
      BY ONLY <1>4, <3>0, <3>2
    <3> QED BY <3>1, <3>2
  <2>2. start' \in [Frag -> Nat]
    BY <1>1, <1>2 DEF With
  <2> QED BY <1>3, <1>4, <2>1, <2>2 DEF Shape
<1>6. /\ LiveBuffers' \in SUBSET LiveBuffers
      /\ \A d \in LiveBuffers : d # b => d \in LiveBuffers'
      /\ \A d \in Buffers : d # b => chain'[d] = chain[d] /\ last'[d] = last[d]
                                     /\ size'[d] = size[d]
      /\ b \in LiveBuffers' => chain'[b] = <<>> /\ last'[b] = NULL /\ size'[b] = 0
  BY <1>1 DEF LiveBuffers, Core, Shape
<1>7. ASSUME NEW d \in LiveBuffers' PROVE Good(chain'[d], last'[d], size'[d], data')
  <2>0. d \in LiveBuffers /\ d \in Buffers
    BY <1>6 DEF LiveBuffers
  <2>1. CASE d = b
    BY <1>4, <1>6, <2>1
  <2>2. CASE d # b
    <3>1. /\ chain[d] \in Lists /\ data \in Fields /\ Good(chain[d], last[d], size[d], data)
          /\ Placed(chain[d]) \subseteq Frag
      BY <2>0, OfBuffer
    <3>2. \A f \in Placed(chain[d]) : Len(data'[f]) = Len(data[f])
      BY <1>1, <1>2, <2>0, <2>2, <3>1 DEF With
    <3>3. Good(chain[d], last[d], size[d], data')
      BY <1>4, <3>1, <3>2, GoodElsewhere
    <3> QED BY <1>6, <2>0, <2>2, <3>3
  <2> QED BY <2>1, <2>2
<1>8. Sorted(LiveBuffers', Held', kind', bin', lent')
  <2> DEFINE pl == [Held EXCEPT ![b] = @ \ gone]
  <2>1. LiveBuffers \in SUBSET Buffers /\ LiveBuffers' \in SUBSET Buffers
    BY DEF LiveBuffers
  <2>2. \A d \in Buffers : pl[d] = IF d = b THEN {} ELSE Placed(chain[d])
    BY <1>1 DEF Held
  <2>3. \A d \in Buffers : Held'[d] = Placed(chain'[d])
    BY DEF Held
  <2>4. \A d \in LiveBuffers \cap LiveBuffers' : Held'[d] = pl[d]
    <3> SUFFICES ASSUME NEW d \in LiveBuffers, d \in LiveBuffers' PROVE Held'[d] = pl[d]
      OBVIOUS
    <3>1. d \in Buffers
      BY <2>1
    <3>2. CASE d = b
      <4>1. Placed(chain'[b]) = {}
        BY <1>4, <1>6, <3>2
      <4> QED BY <2>2, <2>3, <3>1, <3>2, <4>1
    <3>3. CASE d # b
      BY <1>6, <2>2, <2>3, <3>1, <3>3
    <3> QED BY <3>2, <3>3
  <2>5. \A d \in LiveBuffers \ LiveBuffers' : pl[d] = {}
    BY <1>6, <2>1, <2>2
  <2>6. \A d \in LiveBuffers' \ LiveBuffers : Held'[d] = {}
    BY <1>6
  <2> HIDE DEF pl
  <2>7. Sorted(LiveBuffers, pl, kind', bin', lent')
    BY <1>3 DEF pl
  <2> QED BY <2>1, <2>4, <2>5, <2>6, <2>7, SortedOthers
<1>9. InsideAllocation'
  <2> SUFFICES ASSUME NEW f \in Frag, kind'[f] = NATIVE PROVE start'[f] + Len(data'[f]) <= Cap
    BY DEF InsideAllocation, End
  <2>1. CASE f \in gone
    <3>1. start'[f] = 0 /\ data'[f] = <<>> /\ Len(<<>>) = 0
      BY <1>2, <2>1 DEF With
    <3> QED BY <3>1, CapNat
  <2>2. CASE f \notin gone
    BY <1>2, <1>3, <2>2 DEF With, Core, InsideAllocation, End
  <2> QED BY <2>1, <2>2
<1> QED BY <1>3, <1>5, <1>7, <1>8, <1>9 DEF Core

(* bulp_buffer_init, on memory that is not a buffer in use.                *)
LEMMA InitKeepsCore ==
  ASSUME Core, NEW b \in Buffers, init(b)
  PROVE  Core'
<1>1. /\ ~live[b] /\ live' = [live EXCEPT ![b] = TRUE]
      /\ chain' = [chain EXCEPT ![b] = <<>>] /\ last' = [last EXCEPT ![b] = NULL]
      /\ size' = [size EXCEPT ![b] = 0]
      /\ kind' = kind /\ start' = start /\ data' = data
      /\ bin' = bin /\ num_recycled' = num_recycled /\ lent' = lent
  BY DEF init, fragVars, binVars
<1>2. data \in Fields
  BY DEF Core, Shape
<1>3. <<>> \in Lists /\ Good(<<>>, NULL, 0, data) /\ Placed(<<>>) = {}
  BY <1>2, GoodEmpty
<1>4. Shape'
  BY <1>1, <1>3 DEF Core, Shape
<1>5. /\ LiveBuffers' = LiveBuffers \cup {b} /\ b \notin LiveBuffers
      /\ LiveBuffers \in SUBSET Buffers /\ LiveBuffers' \in SUBSET Buffers
      /\ \A d \in LiveBuffers : chain'[d] = chain[d] /\ last'[d] = last[d] /\ size'[d] = size[d]
      /\ chain'[b] = <<>> /\ last'[b] = NULL /\ size'[b] = 0
  BY <1>1 DEF LiveBuffers, Core, Shape
<1>6. \A d \in LiveBuffers' : Good(chain'[d], last'[d], size'[d], data')
  BY <1>1, <1>3, <1>5 DEF Core
<1>7. Sorted(LiveBuffers', Held', kind', bin', lent')
  <2>1. \A d \in Buffers : Held[d] = Placed(chain[d]) /\ Held'[d] = Placed(chain'[d])
    BY DEF Held
  <2>2. \A d \in LiveBuffers \cap LiveBuffers' : Held'[d] = Held[d]
    BY <1>5, <2>1
  <2>3. \A d \in LiveBuffers' \ LiveBuffers : Held'[d] = {}
    BY <1>3, <1>5, <2>1
  <2>4. \A d \in LiveBuffers \ LiveBuffers' : Held[d] = {}
    BY <1>5
  <2>5. Sorted(LiveBuffers, Held, kind, bin, lent)
    BY DEF Core
  <2>6. Sorted(LiveBuffers', Held', kind, bin, lent)
    BY <1>5, <2>2, <2>3, <2>4, <2>5, SortedOthers
  <2> QED BY <1>1, <2>6
<1> QED BY <1>1, <1>4, <1>6, <1>7 DEF Core, RecyclingBounded, InsideAllocation, End

LEMMA CleanupKeepsCore ==
  ASSUME Core, cleanup_recycling_bin
  PROVE  Core'
<1>1. /\ kind' = With(kind, bin, FREE) /\ bin' = {} /\ num_recycled' = 0
      /\ live' = live /\ chain' = chain /\ last' = last /\ size' = size
      /\ start' = start /\ data' = data /\ lent' = lent
  BY DEF cleanup_recycling_bin, listVars
<1>2. FREE # NATIVE /\ FREE \notin Foreign /\ NATIVE \notin Foreign
  BY ValueAssumption
<1>3. Shape'
  BY <1>1 DEF Core, Shape, With, Kinds
<1>4. LiveBuffers' = LiveBuffers /\ Held' = Held
  BY <1>1 DEF LiveBuffers, Held
<1>5. \A d \in LiveBuffers : Good(chain'[d], last'[d], size'[d], data')
  BY <1>1 DEF Core
<1>6. \A f \in Frag : kind'[f] = IF f \in bin THEN FREE ELSE kind[f]
  BY <1>1 DEF With
<1>7. Sorted(LiveBuffers, Held, kind', bin', lent')
  <2>0. Sorted(LiveBuffers, Held, kind, bin, lent)
    BY DEF Core
  <2>1. \A d \in LiveBuffers : Held[d] \subseteq Frag
    BY OfBuffer
  <2>2. \A d \in LiveBuffers : \A f \in Held[d] : f \notin bin' /\ kind'[f] # FREE
    BY <1>1, <1>6, <2>0, <2>1 DEF Sorted
  <2>3. \A f \in Frag : kind'[f] # FREE => f \in bin' \/ \E d \in LiveBuffers : f \in Held[d]
    BY <1>6, <2>0 DEF Sorted
  <2>4. \A o \in lent' : \E f \in Frag : kind'[f] = o
    BY <1>1, <1>2, <1>6, <2>0 DEF Sorted, Core, Shape
  <2>5. \A f \in Frag : kind'[f] \in Foreign =>
          kind'[f] \in lent' /\ \A g \in Frag : kind'[g] = kind'[f] => g = f
    BY <1>1, <1>2, <1>6, <2>0 DEF Sorted
  <2> QED BY <1>1, <2>0, <2>2, <2>3, <2>4, <2>5 DEF Sorted
<1>8. RecyclingBounded'
  BY <1>1, SizeAssumption, FS_EmptySet DEF RecyclingBounded
<1>9. InsideAllocation'
  BY <1>1, <1>2, <1>6 DEF Core, InsideAllocation, End
<1> QED BY <1>3, <1>4, <1>5, <1>7, <1>8, <1>9 DEF Core
LEMMA RoomNat ==
  ASSUME Core, NEW t \in Frag \cup {NULL}
  PROVE  /\ Room(t) \in Nat
         /\ t \in Frag /\ kind[t] = NATIVE =>
              start[t] + Len(data[t]) + Room(t) = Cap
         /\ t \in Frag /\ kind[t] # NATIVE => Room(t) = 0
<1>1. CASE t = NULL
  BY <1>1, ValueAssumption DEF Room
<1>2. CASE t \in Frag
  <2>1. Len(data[t]) \in Nat /\ start[t] \in Nat
    BY <1>2, LengthZero DEF Core, Shape
  <2>2. kind[t] = NATIVE => End(t) <= Cap
    BY <1>2 DEF Core, InsideAllocation
  <2>3. Room(t) = IF kind[t] = NATIVE THEN Cap - End(t) ELSE 0
    BY <1>2, ValueAssumption DEF Room, Avail
  <2> QED BY <1>2, <2>1, <2>2, <2>3, CapNat DEF End
<1> QED BY <1>1, <1>2

(* The first `part' bytes of a fragment, which transfer copies.            *)
LEMMA Copied ==
  ASSUME NEW d \in Fields, NEW f \in Frag, NEW part \in Nat, part <= Len(d[f])
  PROVE  /\ SubSeq(d[f], 1, part) \in Seq(Byte)
         /\ Len(SubSeq(d[f], 1, part)) = part
<1>1. d[f] \in Seq(Byte) /\ Len(d[f]) \in Nat
  BY LengthZero
<1> DEFINE z == d[f]
<1> HIDE DEF z
<1>2. z \in Seq(Byte) /\ Len(z) \in Nat /\ part <= Len(z)
  BY <1>1 DEF z
<1>3. \A i \in 1 .. part : z[i] \in Byte
  <2> SUFFICES ASSUME NEW i \in 1 .. part PROVE z[i] \in Byte
    OBVIOUS
  <2>1. i \in 1 .. Len(z)
    BY <1>2
  <2> QED BY <1>2, <2>1, ElementOfSeq
<1>4. SubSeq(z, 1, part) \in Seq(Byte)
      /\ Len(SubSeq(z, 1, part)) = IF 1 <= part THEN part - 1 + 1 ELSE 0
  BY <1>2, <1>3, SubSeqProperties
<1>5. Len(SubSeq(z, 1, part)) = part
  BY <1>2, <1>4
<1> QED BY <1>4, <1>5 DEF z

(* bulp_buffer_transfer, as a change of two lists.                         *)
LEMMA TransferKeepsCore ==
  ASSUME Core, NEW dst \in LiveBuffers, NEW src \in LiveBuffers, dst # src,
         NEW n \in Nat, transfer(dst, src, n)
  PROVE  Core'
<1> DEFINE c == chain[src]
           h == chain[dst]
           off == Offsets(c, data)
           k == Cardinality(Fitting(c, data, n))
           part == IF k < Len(c) THEN n - off[k] ELSE 0
           copied == IF part = 0 THEN <<>> ELSE SubSeq(data[c[k + 1]], 1, part)
           a == SubSeq(c, 1, k)
           z == SubSeq(c, k + 1, Len(c))
           moved == Link(h, last[dst], a)
           tail == IF k = 0 THEN last[dst] ELSE c[k]
<1>1. PICK fs \in Fresh(Needed(part, Room(tail))) :
        /\ chain' = [chain EXCEPT ![dst] = Link(moved, tail, fs), ![src] = z]
        /\ last' = [last EXCEPT ![dst] = IF fs = <<>> THEN tail ELSE fs[Len(fs)],
                                ![src] = IF k = Len(c) THEN NULL ELSE @]
        /\ data' = [f \in Frag |-> IF part > 0 /\ f = c[k + 1]
                                   THEN SubSeq(data[f], part + 1, Len(data[f]))
                                   ELSE Fill(data, tail, fs, copied)[f]]
        /\ bin' = bin \ Placed(fs)
        /\ num_recycled' = num_recycled - Cardinality(bin \cap Placed(fs))
        /\ kind' = With(kind, Placed(fs), NATIVE)
        /\ start' = [f \in Frag |-> IF f \in Placed(fs) THEN 0
                                    ELSE IF part > 0 /\ f = c[k + 1]
                                    THEN start[f] + part ELSE start[f]]
  BY DEF transfer, Fitting
<1>2. /\ size' = [size EXCEPT ![dst] = @ + off[k] + part, ![src] = @ - (off[k] + part)]
      /\ live' = live /\ lent' = lent
  BY DEF transfer, Fitting
<1>3. /\ c \in Lists /\ h \in Lists /\ data \in Fields
      /\ Good(h, last[dst], size[dst], data) /\ Good(c, last[src], size[src], data)
      /\ Placed(h) \cap Placed(c) = {}
      /\ dst \in Buffers /\ src \in Buffers
      /\ size[dst] \in Nat /\ size[src] \in Nat
      /\ last[src] \in Frag \cup {NULL} /\ last[dst] \in Frag \cup {NULL}
      /\ Held[dst] = Placed(h) /\ Held[src] = Placed(c)
      /\ Placed(h) \subseteq Frag /\ Placed(c) \subseteq Frag
      /\ \A f \in Placed(h) \cup Placed(c) : f \notin bin /\ kind[f] # FREE
      /\ kind \in Kinds /\ start \in [Frag -> Nat]
      /\ bin \in SUBSET Frag
  BY OfBuffer DEF Core, Shape
<1>4. /\ k \in 0 .. Len(c) /\ Len(c) \in Nat /\ off[k] \in Nat /\ part \in Nat
      /\ k < Len(c) => part < Len(data[c[k + 1]])
      /\ k = Len(c) => part = 0
  <2>1. /\ k \in 0 .. Len(c) /\ off[k] <= n
        /\ k < Len(c) => n - off[k] < Len(data[c[k + 1]])
    BY <1>3, FittingBounds
  <2>2. Len(c) \in Nat /\ off[k] \in Nat
    BY <1>3, <2>1, TotalType
  <2> HIDE DEF k, c, off
  <2> QED BY <2>1, <2>2
<1> HIDE DEF k, part
<1>5. /\ a \in Lists /\ Placed(a) \subseteq Placed(c) /\ (a = <<>> <=> k = 0)
      /\ Good(a, IF k = 0 THEN NULL ELSE c[k], off[k], data)
  <2>1. c \in Lists /\ data \in Fields /\ Good(c, last[src], size[src], data)
        /\ k \in 0 .. Len(c)
    BY <1>3, <1>4
  <2> DEFINE t == last[src]
             m == size[src]
  <2> HIDE DEF c, t, m
  <2>2. Good(c, t, m, data)
    BY <2>1 DEF t, m
  <2> QED BY ONLY <2>1, <2>2, GoodFirst DEF a, off
<1>6. /\ Placed(z) = {c[i] : i \in k + 1 .. Len(c)}
      /\ Placed(a) \cap Placed(z) = {} /\ Placed(c) = Placed(a) \cup Placed(z)
  <2>1. c \in Lists /\ k \in 0 .. Len(c) /\ Inj(c)
    BY <1>3, <1>4 DEF Good
  <2> HIDE DEF c
  <2> QED BY ONLY <2>1, Cut, InjCut DEF a, z
<1>7. k < Len(c) => /\ c[k + 1] \in Placed(z) /\ c[k + 1] \in Frag
                    /\ Len(data[c[k + 1]]) \in Nat
  <2> SUFFICES ASSUME k < Len(c) PROVE <1>7!2
    OBVIOUS
  <2>1. k + 1 \in k + 1 .. Len(c)
    BY <1>4
  <2>2. c[k + 1] \in Placed(z) /\ c[k + 1] \in Frag
    BY <1>3, <1>6, <2>1
  <2> QED BY <1>3, <2>2, LengthZero
<1> DEFINE N == Placed(fs)
           e == Link(moved, tail, fs)
           u == IF fs = <<>> THEN tail ELSE fs[Len(fs)]
           filled == Fill(data, tail, fs, copied)
           x == [f \in Frag |-> IF part > 0 /\ f = c[k + 1]
                                THEN SubSeq(data[f], part + 1, Len(data[f])) ELSE filled[f]]
           v == IF k = Len(c) THEN NULL ELSE last[src]
<1> HIDE DEF a, z
<1>8. /\ moved \in Lists /\ Placed(moved) = Placed(h) \cup Placed(a)
      /\ Good(moved, tail, size[dst] + off[k], data)
      /\ tail \in Frag \cup {NULL} /\ (tail \in Frag => tail \in Placed(moved))
  <2> DEFINE t == last[dst]
             m == size[dst]
             w == IF k = 0 THEN NULL ELSE c[k]
             q == off[k]
  <2>1. /\ h \in Lists /\ a \in Lists /\ data \in Fields /\ Good(h, t, m, data)
        /\ Good(a, w, q, data)
        /\ Placed(h) \cap Placed(a) = {}
    BY <1>3, <1>5
  <2>2. tail = IF a = <<>> THEN t ELSE w
    BY <1>5
  <2> HIDE DEF t, m, w, q, h, tail
  <2>3. /\ Link(h, t, a) \in Lists /\ Placed(Link(h, t, a)) = Placed(h) \cup Placed(a)
        /\ Good(Link(h, t, a), tail, m + q, data)
    BY ONLY <2>1, <2>2, GoodJoin
  <2>4. tail \in Frag \cup {NULL} /\ (tail # NULL => tail \in Placed(Link(h, t, a)))
    BY <2>1, <2>3, GoodTail
  <2> QED BY <2>3, <2>4, ValueAssumption DEF t, m, q
<1> HIDE DEF moved, tail, h
<1>9. /\ Room(tail) \in Nat
      /\ tail \in Frag /\ kind[tail] = NATIVE =>
           start[tail] + Len(data[tail]) + Room(tail) = Cap
  BY <1>8, RoomNat
<1>10. copied \in Seq(Byte) /\ Len(copied) = part
  <2>1. CASE part = 0
    <3>1. copied = <<>> /\ <<>> \in Seq(Byte) /\ Len(<<>>) = 0
      BY <2>1
    <3> QED BY <2>1, <3>1
  <2>2. CASE part # 0
    <3>1. k < Len(c)
      BY <1>4, <2>2
    <3>2. c[k + 1] \in Frag /\ part <= Len(data[c[k + 1]])
      BY <1>4, <1>7, <3>1
    <3>3. data \in Fields /\ part \in Nat
      BY <1>3, <1>4
    <3> DEFINE g == c[k + 1]
    <3>4. g \in Frag /\ part <= Len(data[g]) /\ copied = SubSeq(data[g], 1, part)
      BY <2>2, <3>2
    <3> HIDE DEF g, copied
    <3> QED BY ONLY <3>3, <3>4, Copied
  <2> QED BY <2>1, <2>2
<1> HIDE DEF copied
<1>11. /\ fs \in Lists /\ Inj(fs) /\ Len(fs) = Needed(part, Room(tail))
       /\ N \subseteq bin \cup Unallocated
  BY <1>3, <1>4, <1>9, NeededBounds, FreshDef
<1>12. /\ N \subseteq Frag /\ N \cap Placed(h) = {} /\ N \cap Placed(c) = {}
       /\ N \cap Placed(moved) = {}
  BY <1>3, <1>5, <1>8, <1>11 DEF Unallocated
<1>13. /\ filled \in Fields /\ e \in Lists /\ Placed(e) = Placed(moved) \cup N
       /\ Good(e, u, size[dst] + off[k] + part, filled)
       /\ \A f \in N : Len(filled[f]) <= Cap
       /\ tail \in Frag => Len(filled[tail]) = Len(data[tail]) + Lesser(part, Room(tail))
       /\ \A f \in Frag : f \notin N /\ f # tail => filled[f] = data[f]
  <2> DEFINE m == size[dst] + off[k]
  <2>1. /\ moved \in Lists /\ data \in Fields /\ Good(moved, tail, m, data)
        /\ copied \in Seq(Byte) /\ Len(copied) = part /\ Room(tail) \in Nat
        /\ fs \in Lists /\ Inj(fs) /\ Placed(fs) \cap Placed(moved) = {}
        /\ Len(fs) = Needed(Len(copied), Room(tail))
    BY <1>3, <1>8, <1>9, <1>10, <1>11, <1>12
  <2> HIDE DEF m
  <2>2. /\ Fill(data, tail, fs, copied) \in Fields
        /\ Link(moved, tail, fs) \in Lists
        /\ Placed(Link(moved, tail, fs)) = Placed(moved) \cup Placed(fs)
        /\ Good(Link(moved, tail, fs), IF fs = <<>> THEN tail ELSE fs[Len(fs)],
                m + Len(copied), Fill(data, tail, fs, copied))
        /\ \A f \in Placed(fs) : Len(Fill(data, tail, fs, copied)[f]) <= Cap
        /\ tail \in Frag => Len(Fill(data, tail, fs, copied)[tail])
                              = Len(data[tail]) + Lesser(Len(copied), Room(tail))
        /\ \A f \in Frag : f \notin Placed(fs) /\ f # tail =>
              Fill(data, tail, fs, copied)[f] = data[f]
    BY ONLY <2>1, GoodStored
  <2> QED BY <2>1, <2>2 DEF m
<1> HIDE DEF e, u, filled
<1>14. /\ x \in Fields
       /\ k < Len(c) => Len(x[c[k + 1]]) = Len(data[c[k + 1]]) - part
       /\ \A f \in Frag : ~(part > 0 /\ f = c[k + 1]) => x[f] = filled[f]
       /\ \A f \in Frag : f \in Placed(z) /\ ~(part > 0 /\ f = c[k + 1]) => x[f] = data[f]
  <2>1. part > 0 => /\ k < Len(c) /\ c[k + 1] \in Frag
                    /\ SubSeq(data[c[k + 1]], part + 1, Len(data[c[k + 1]])) \in Seq(Byte)
                    /\ Len(SubSeq(data[c[k + 1]], part + 1, Len(data[c[k + 1]])))
                         = Len(data[c[k + 1]]) - part
    <3> SUFFICES ASSUME part > 0 PROVE <2>1!2
      OBVIOUS
    <3>1. k < Len(c)
      BY <1>4
    <3>2. c[k + 1] \in Frag /\ part <= Len(data[c[k + 1]])
      BY <1>4, <1>7, <3>1
    <3>3. data \in Fields /\ part \in Nat
      BY <1>3, <1>4
    <3> DEFINE g == c[k + 1]
    <3>4. g \in Frag /\ part <= Len(data[g])
      BY <3>2
    <3> HIDE DEF g
    <3>5. /\ SubSeq(data[g], part + 1, Len(data[g])) \in Seq(Byte)
          /\ Len(SubSeq(data[g], part + 1, Len(data[g]))) = Len(data[g]) - part
      BY ONLY <3>3, <3>4, Advanced
    <3> QED BY <3>1, <3>2, <3>5 DEF g
  <2>2. x \in Fields
    BY <1>13, <2>1 DEF Fields
  <2>3. ASSUME NEW f \in Frag, f \in Placed(z), ~(part > 0 /\ f = c[k + 1])
        PROVE  x[f] = data[f]
    <3>1. f \notin N /\ f # tail
      BY <1>3, <1>6, <1>8, <1>12, <2>3
    <3> QED BY <1>13, <2>3, <3>1
  <2>4. ASSUME k < Len(c) PROVE Len(x[c[k + 1]]) = Len(data[c[k + 1]]) - part
    <3>1. CASE part > 0
      BY <2>1, <3>1
    <3>2. CASE part = 0
      <4>1. x[c[k + 1]] = data[c[k + 1]] /\ Len(data[c[k + 1]]) \in Nat
        BY <1>7, <2>3, <2>4, <3>2
      <4> QED BY <3>2, <4>1
    <3> QED BY <1>4, <3>1, <3>2
  <2> QED BY <2>2, <2>3, <2>4
<1>15. data' = x /\ chain' = [chain EXCEPT ![dst] = e, ![src] = z]
       /\ last' = [last EXCEPT ![dst] = u, ![src] = v]
  BY <1>1 DEF e, u, filled
<1> HIDE DEF x
(* The two lists. *)
<1>16. Good(e, u, size[dst] + off[k] + part, x)
  <2>1. \A f \in Placed(e) : Len(x[f]) = Len(filled[f])
    <3> SUFFICES ASSUME NEW f \in Placed(e) PROVE x[f] = filled[f]
      OBVIOUS
    <3>1. f \in Frag /\ f \notin Placed(z)
      BY <1>3, <1>6, <1>8, <1>12, <1>13
    <3>2. ~(part > 0 /\ f = c[k + 1])
      <4>1. part > 0 => k < Len(c)
        BY <1>4
      <4> QED BY <1>7, <3>1, <4>1
    <3> QED BY <1>14, <3>1, <3>2
  <2> DEFINE m == size[dst] + off[k] + part
  <2>2. Good(e, u, m, filled) /\ e \in Lists /\ x \in Fields /\ filled \in Fields
    BY <1>13, <1>14
  <2> HIDE DEF m
  <2>3. Good(e, u, m, x)
    BY ONLY <2>1, <2>2, GoodElsewhere
  <2> QED BY <2>3 DEF m
<1>17. /\ z \in Lists /\ Placed(z) = Placed(c) \ Placed(a)
       /\ size[src] - (off[k] + part) \in Nat
       /\ Good(z, v, size[src] - (off[k] + part), x)
  <2>1. \A i \in k + 1 .. Len(c) : i # k + 1 => Len(x[c[i]]) = Len(data[c[i]])
    <3> SUFFICES ASSUME NEW i \in k + 1 .. Len(c), i # k + 1 PROVE x[c[i]] = data[c[i]]
      OBVIOUS
    <3>1. i \in 1 .. Len(c) /\ k + 1 \in 1 .. Len(c) /\ Inj(c)
      BY <1>3, <1>4 DEF Good
    <3>2. c[i] # c[k + 1] /\ c[i] \in Placed(z) /\ c[i] \in Frag
      BY <1>3, <1>6, <3>1 DEF Inj
    <3> QED BY <1>14, <3>2
  <2> DEFINE t == last[src]
             m == size[src]
  <2>2. /\ c \in Lists /\ data \in Fields /\ Good(c, t, m, data) /\ x \in Fields
        /\ k \in 0 .. Len(c) /\ part \in Nat
        /\ k < Len(c) => part < Len(data[c[k + 1]])
        /\ k = Len(c) => part = 0
        /\ k < Len(c) => Len(x[c[k + 1]]) = Len(data[c[k + 1]]) - part
    BY <1>3, <1>4, <1>14
  <2> HIDE DEF c, t, m
  <2>3. /\ SubSeq(c, k + 1, Len(c)) \in Lists
        /\ Placed(SubSeq(c, k + 1, Len(c))) = Placed(c) \ Placed(SubSeq(c, 1, k))
        /\ m - (Offsets(c, data)[k] + part) \in Nat
        /\ Good(SubSeq(c, k + 1, Len(c)), IF k = Len(c) THEN NULL ELSE t,
                m - (Offsets(c, data)[k] + part), x)
    BY ONLY <2>1, <2>2, GoodTaken
  <2> QED BY <2>3 DEF z, a, t, m, v
<1>18. u \in Frag \cup {NULL} /\ v \in Frag \cup {NULL} /\ size[dst] + off[k] + part \in Nat
  <2>1. u \in Frag \cup {NULL}
    BY <1>13, <1>14, <1>16, GoodTail
  <2> QED BY <1>3, <1>4, <2>1
<1> HIDE DEF v, c, off
<1>19. /\ chain' \in [Buffers -> Lists] /\ last' \in [Buffers -> Frag \cup {NULL}]
       /\ size' \in [Buffers -> Nat]
  <2>1. chain' \in [Buffers -> Lists]
    BY <1>13, <1>15, <1>17 DEF Core, Shape
  <2>2. last' \in [Buffers -> Frag \cup {NULL}]
    BY <1>15, <1>18 DEF Core, Shape
  <2>3. size' = [size EXCEPT ![dst] = size[dst] + off[k] + part,
                             ![src] = size[src] - (off[k] + part)]
    BY <1>2
  <2>4. size' \in [Buffers -> Nat]
    BY <1>17, <1>18, <2>3 DEF Core, Shape
  <2> QED BY <2>1, <2>2, <2>4
<1>20. ASSUME NEW d \in LiveBuffers PROVE Good(chain'[d], last'[d], size'[d], data')
  <2>0. d \in Buffers
    BY DEF LiveBuffers
  <2>1. CASE d = src
    <3>1. chain'[d] = z /\ last'[d] = v /\ size'[d] = size[src] - (off[k] + part)
      BY <1>2, <1>15, <2>0, <2>1 DEF Core, Shape
    <3> QED BY <1>15, <1>17, <3>1
  <2>2. CASE d = dst
    <3>1. chain'[d] = e /\ last'[d] = u /\ size'[d] = size[dst] + off[k] + part
      BY <1>2, <1>15, <2>0, <2>2 DEF Core, Shape
    <3> QED BY <1>15, <1>16, <3>1
  <2>3. CASE d # dst /\ d # src
    <3>1. chain'[d] = chain[d] /\ last'[d] = last[d] /\ size'[d] = size[d]
      BY <1>2, <1>15, <2>0, <2>3 DEF Core, Shape
    <3>2. /\ chain[d] \in Lists /\ Good(chain[d], last[d], size[d], data)
          /\ \A f \in Placed(chain[d]) : f \in Frag /\ f \notin bin /\ kind[f] # FREE
          /\ Placed(chain[d]) \cap Placed(c) = {} /\ Placed(chain[d]) \cap Placed(h) = {}
      <4>1. d \in LiveBuffers \ {src} /\ d \in LiveBuffers \ {dst}
        BY <2>3
      <4> QED BY <4>1, OfBuffer DEF c, h
    <3>3. \A f \in Placed(chain[d]) : Len(x[f]) = Len(data[f])
      <4> SUFFICES ASSUME NEW f \in Placed(chain[d]) PROVE x[f] = data[f]
        OBVIOUS
      <4>1. f \in Frag /\ f \notin N /\ f \notin Placed(z) /\ f # tail
        BY <1>5, <1>6, <1>8, <1>11, <3>2, ValueAssumption DEF Unallocated
      <4>2. ~(part > 0 /\ f = c[k + 1])
        <5>1. part > 0 => k < Len(c)
          BY <1>4
        <5> QED BY <1>7, <4>1, <5>1
      <4> QED BY <1>13, <1>14, <4>1, <4>2
    <3>4. Good(chain[d], last[d], size[d], x)
      BY <1>3, <1>14, <3>2, <3>3, GoodElsewhere
    <3> QED BY <1>15, <3>1, <3>4
  <2> QED BY <2>1, <2>2, <2>3
<1>21. LiveBuffers' = LiveBuffers
  BY <1>2 DEF LiveBuffers
<1>22. Sorted(LiveBuffers', Held', kind', bin', lent')
  <2> DEFINE p == [Held EXCEPT ![dst] = @ \cup Placed(a), ![src] = @ \ Placed(a)]
             q == [p EXCEPT ![dst] = @ \cup N]
  <2>1. /\ LiveBuffers \in SUBSET Buffers /\ Held \in Holdings /\ kind \in Kinds
        /\ bin \in SUBSET Frag /\ lent \in SUBSET Foreign
        /\ Sorted(LiveBuffers, Held, kind, bin, lent)
    BY PlacedConcat DEF Core, Shape, LiveBuffers, Held, Holdings
  <2>2. Sorted(LiveBuffers, p, kind, bin, lent)
    <3>1. Placed(a) \in SUBSET Held[src]
      BY <1>3, <1>5
    <3> QED BY <2>1, <3>1, SortedMove
  <2>3. p \in Holdings
    BY <1>3, <1>5, <2>1 DEF Holdings
  <2>4. N \in SUBSET (bin \cup {f \in Frag : kind[f] = FREE})
    BY <1>11 DEF Unallocated
  <2>5. Sorted(LiveBuffers, q, With(kind, N, NATIVE), bin \ N, lent)
    <3> HIDE DEF p, N
    <3> QED BY <2>1, <2>2, <2>3, <2>4, SortedGrow
  <2>6. Held' = q
    <3>1. \A d \in Buffers : Placed(chain'[d]) = q[d]
      <4> SUFFICES ASSUME NEW d \in Buffers PROVE Placed(chain'[d]) = q[d]
        OBVIOUS
      <4>0. Held[d] = Placed(chain[d])
        BY DEF Held
      <4>1. CASE d = src
        <5>1. chain'[d] = z /\ q[d] = Held[src] \ Placed(a)
          BY <1>15, <2>1, <4>1 DEF Core, Shape, Holdings
        <5> QED BY <1>3, <1>17, <5>1
      <4>2. CASE d = dst
        <5>1. chain'[d] = e /\ q[d] = (Held[dst] \cup Placed(a)) \cup N
          BY <1>15, <2>1, <4>2 DEF Core, Shape, Holdings
        <5> QED BY <1>3, <1>8, <1>13, <5>1
      <4>3. CASE d # src /\ d # dst
        <5>1. chain'[d] = chain[d] /\ q[d] = Held[d]
          BY <1>15, <2>1, <4>3 DEF Core, Shape, Holdings
        <5> QED BY <4>0, <5>1
      <4> QED BY <4>1, <4>2, <4>3
    <3>2. q = [d \in Buffers |-> q[d]]
      BY <2>1 DEF Holdings
    <3> HIDE DEF q
    <3> QED BY <3>1, <3>2 DEF Held
  <2> QED BY <1>1, <1>2, <1>21, <2>5, <2>6
<1>23. RecyclingBounded'
  BY <1>1, <1>12, CountAfterTaking DEF RecyclingBounded
<1>24. InsideAllocation'
  <2> SUFFICES ASSUME NEW f \in Frag, kind'[f] = NATIVE PROVE start'[f] + Len(x[f]) <= Cap
    BY <1>15 DEF InsideAllocation, End
  <2>0. /\ start[f] \in Nat /\ Len(data[f]) \in Nat
        /\ start'[f] = IF f \in N THEN 0 ELSE IF part > 0 /\ f = c[k + 1]
                                              THEN start[f] + part ELSE start[f]
    BY <1>1, <1>3, LengthZero DEF c
  <2>p. part > 0 => k < Len(c)
    BY <1>4
  <2>1. CASE f \in N
    <3>1. ~(part > 0 /\ f = c[k + 1])
      BY <1>6, <1>7, <1>12, <2>1, <2>p
    <3>2. x[f] = filled[f] /\ Len(filled[f]) <= Cap /\ Len(filled[f]) \in Nat
      BY <1>13, <1>14, <2>1, <3>1, LengthZero
    <3> QED BY <2>0, <2>1, <3>2
  <2>2. CASE f \notin N
    <3>1. kind[f] = NATIVE
      BY <1>1, <2>2 DEF With
    <3>2. start[f] + Len(data[f]) <= Cap
      BY <3>1 DEF Core, InsideAllocation, End
    <3>3. CASE part > 0 /\ f = c[k + 1]
      <4>1. Len(x[f]) = Len(data[f]) - part /\ start'[f] = start[f] + part
        BY <1>14, <2>0, <2>2, <2>p, <3>3
      <4> QED BY <1>4, <2>0, <3>2, <4>1, CapNat
    <3>4. CASE ~(part > 0 /\ f = c[k + 1]) /\ f = tail
      <4>1. x[f] = filled[f] /\ start'[f] = start[f]
        BY <1>14, <2>0, <2>2, <3>4
      <4>2. Len(filled[f]) = Len(data[f]) + Lesser(part, Room(tail))
        BY <1>13, <3>4
      <4>3. Lesser(part, Room(tail)) <= Room(tail) /\ Lesser(part, Room(tail)) \in Nat
        BY <1>4, <1>9 DEF Lesser
      <4>4. start[f] + Len(data[f]) + Room(tail) = Cap
        BY <1>9, <3>1, <3>4
      <4> QED BY <1>9, <2>0, <4>1, <4>2, <4>3, <4>4, CapNat
    <3>5. CASE ~(part > 0 /\ f = c[k + 1]) /\ f # tail
      <4>1. x[f] = data[f] /\ start'[f] = start[f]
        BY <1>13, <1>14, <2>0, <2>2, <3>5
      <4> QED BY <3>2, <4>1
    <3> QED BY <3>3, <3>4, <3>5
  <2> QED BY <2>1, <2>2
<1>25. /\ live' \in [Buffers -> BOOLEAN] /\ data' \in Fields /\ kind' \in Kinds
       /\ start' \in [Frag -> Nat] /\ bin' \in SUBSET Frag /\ lent' \in SUBSET Foreign
  <2>1. start' \in [Frag -> Nat]
    <3>1. \A f \in Frag : start[f] \in Nat /\ start[f] + part \in Nat
      BY <1>3, <1>4
    <3> QED BY <1>1, <3>1
  <2>2. live' \in [Buffers -> BOOLEAN] /\ lent' \in SUBSET Foreign
    BY <1>2 DEF Core, Shape
  <2>3. data' \in Fields
    BY <1>14, <1>15
  <2>4. kind' \in Kinds /\ bin' \in SUBSET Frag
    BY <1>1, <1>3 DEF With, Kinds
  <2> QED BY <2>1, <2>2, <2>3, <2>4
<1> QED BY <1>19, <1>20, <1>21, <1>22, <1>23, <1>24, <1>25 DEF Core, Shape
-----------------------------------------------------------------------------
(* Every call preserves the inductive invariant.                           *)

LEMMA Texts ==
  /\ \A s \in Data : s \in Seq(Byte) /\ Append(s, NUL) \in Seq(Byte)
  /\ \A n \in Nat, x \in Byte : /\ [i \in 1 .. n |-> x] \in Seq(Byte)
                                /\ Len([i \in 1 .. n |-> x]) = n
  /\ NUL \in Byte /\ Hole \in Byte
<1>1. NUL \in Byte /\ Hole \in Byte /\ \A s \in Data : s \in Seq(Byte \ {Hole})
  BY ValueAssumption
<1>2. \A s \in Data : s \in Seq(Byte)
  <2> SUFFICES ASSUME NEW s \in Data PROVE s \in Seq(Byte)
    OBVIOUS
  <2>1. s \in Seq(Byte \ {Hole})
    BY <1>1
  <2>2. Len(s) \in Nat /\ s \in [1 .. Len(s) -> Byte \ {Hole}]
    BY <2>1
  <2> QED BY <2>2
<1>3. \A s \in Data : Append(s, NUL) \in Seq(Byte)
  BY <1>1, <1>2, AppendProperties
<1> QED BY <1>1, <1>2, <1>3

LEMMA DisturbTyped ==
  ASSUME ph \in Placeholder \cup {NULL}, NEW b, NEW k, NEW n
  PROVE  Disturb(b, k, n) \in Placeholder \cup {NULL}
BY DEF Disturb, Placeholder

LEMMA ReadyIsLive ==
  ASSUME NEW b \in Buffers, Ready(b)
  PROVE  b \in LiveBuffers
BY DEF Ready, LiveBuffers

LEMMA StutterKeepsCore ==
  ASSUME Core, UNCHANGED <<listVars, fragVars, binVars, lent>>
  PROVE  Core'
<1>1. /\ live' = live /\ chain' = chain /\ last' = last /\ size' = size
      /\ kind' = kind /\ start' = start /\ data' = data
      /\ bin' = bin /\ num_recycled' = num_recycled /\ lent' = lent
  BY DEF listVars, fragVars, binVars
<1>2. LiveBuffers' = LiveBuffers /\ Held' = Held
  BY <1>1 DEF LiveBuffers, Held
<1>3. Shape'
  BY <1>1 DEF Core, Shape
<1>4. RecyclingBounded' /\ InsideAllocation'
  BY <1>1 DEF Core, RecyclingBounded, InsideAllocation, End
<1> QED BY <1>1, <1>2, <1>3, <1>4 DEF Core

LEMMA AppendKeeps ==
  ASSUME IInv, NEW b \in Buffers, NEW s \in Seq(Byte), append(b, s)
  PROVE  IInv'
<1>1. b \in LiveBuffers /\ Store(b, s) /\ live' = live /\ lent' = lent
      /\ ph' = ph /\ flush' = flush
  BY ReadyIsLive DEF append
<1>2. Core'
  BY <1>1, StoreKeepsCore DEF IInv
<1>3. Ends'
  BY <1>1 DEF IInv, Ends
<1> QED BY <1>2, <1>3 DEF IInv

LEMMA AppendSmallKeeps ==
  ASSUME IInv, NEW b \in Buffers, NEW s \in Seq(Byte), append_small(b, s)
  PROVE  IInv'
<1>1. CASE append(b, s)
  BY <1>1, AppendKeeps
<1>2. CASE ~append(b, s)
  <2>1. /\ last[b] # NULL /\ kind[last[b]] = NATIVE /\ End(last[b]) + Len(s) <= Cap
        /\ Ready(b)
        /\ data' = [data EXCEPT ![last[b]] = @ \o s]
        /\ size' = [size EXCEPT ![b] = @ + Len(s)]
        /\ UNCHANGED <<live, chain, last, kind, start, binVars, lent, ph, flush>>
    BY <1>2 DEF append_small
  <2>2. b \in LiveBuffers
    BY <2>1, ReadyIsLive
  <2>3. Core'
    BY <2>1, <2>2, InPlaceKeepsCore DEF IInv
  <2>4. Ends'
    BY <2>1 DEF IInv, Ends
  <2> QED BY <2>3, <2>4 DEF IInv
<1> QED BY <1>1, <1>2

LEMMA AppendForeignKeeps ==
  ASSUME IInv, NEW b \in Buffers, NEW o \in Foreign, NEW s \in Seq(Byte),
         append_foreign(b, o, s)
  PROVE  IInv'
<1>1. b \in LiveBuffers /\ o \in Foreign \ lent /\ live' = live
      /\ ph' = ph /\ flush' = flush
  BY ReadyIsLive DEF append_foreign
<1>2. Core'
  <2>1. CASE s = <<>>
    <3>1. UNCHANGED <<listVars, fragVars, binVars, lent>>
      BY <1>1, <2>1 DEF append_foreign, listVars
    <3> QED BY <3>1, StutterKeepsCore DEF IInv
  <2>2. CASE s # <<>>
    <3>1. StoreForeign(b, o, s, {})
      BY <2>2 DEF append_foreign
    <3>2. {} \in {{}} \cup Trials(b)
      OBVIOUS
    <3> QED BY <1>1, <2>2, <3>1, <3>2, StoreForeignKeepsCore DEF IInv
  <2> QED BY <2>1, <2>2
<1>3. Ends'
  BY <1>1 DEF IInv, Ends
<1> QED BY <1>2, <1>3 DEF IInv

LEMMA PrintedTyped ==
  ASSUME NEW s \in Seq(Byte), NEW rem \in Nat
  PROVE  Printed(s, rem) \in Seq(Byte)
<1>1. Len(s) \in Nat /\ s \in [1 .. Len(s) -> Byte]
  OBVIOUS
<1>2. [s EXCEPT ![rem] = NUL] \in [1 .. Len(s) -> Byte]
  BY <1>1, Texts
<1>3. [s EXCEPT ![rem] = NUL] \in Seq(Byte)
  BY <1>1, <1>2
<1> QED BY <1>3 DEF Printed

LEMMA VprintfKeeps ==
  ASSUME IInv, NEW b \in Buffers, NEW s \in Seq(Byte), vprintf(b, s)
  PROVE  IInv'
<1> DEFINE room == Room(last[b])
           rem == IF room = 0 THEN Cap ELSE room
<1>1. b \in LiveBuffers /\ live' = live /\ ph' = ph /\ flush' = flush /\ Core
  BY ReadyIsLive DEF vprintf, IInv
<1>2. room \in Nat /\ rem \in Nat
  BY <1>1, OfBuffer, CapNat
<1>3. ASSUME \E trial \in Trials(b) :
                /\ kind' = With(kind, trial, NATIVE)
                /\ start' = With(start, trial, 0)
                /\ data' = With(data, trial, <<>>)
                /\ bin' = bin \cup trial
                /\ num_recycled' = num_recycled + Cardinality(trial),
             UNCHANGED <<chain, last, size, lent>>
      PROVE  Core'
  <2>1. PICK trial \in Trials(b) :
          /\ kind' = With(kind, trial, NATIVE) /\ start' = With(start, trial, 0)
          /\ data' = With(data, trial, <<>>) /\ bin' = bin \cup trial
          /\ num_recycled' = num_recycled + Cardinality(trial)
    BY <1>3
  <2>2. UNCHANGED <<live, chain, last, size, lent>>
    BY <1>1, <1>3
  <2> QED BY ONLY <1>1, <2>1, <2>2, TrialKeepsCore
<1>4. ASSUME Store(b, Printed(s, rem)), UNCHANGED lent
      PROVE  Core'
  <2> DEFINE p == Printed(s, rem)
  <2>1. p \in Seq(Byte) /\ Store(b, p)
    BY <1>2, <1>4, PrintedTyped
  <2>2. UNCHANGED <<live, lent>>
    BY <1>1, <1>4
  <2> HIDE DEF p
  <2> QED BY ONLY <1>1, <2>1, <2>2, StoreKeepsCore
<1>5. ASSUME Len(s) - rem >= BUF_CHUNK_SIZE,
             \E trial \in Trials(b), o \in Foreign \ lent : StoreForeign(b, o, s, trial)
      PROVE  Core'
  <2>1. s # <<>>
    <3>1. BUF_CHUNK_SIZE \in Nat \ {0}
      BY SizeAssumption DEF Cap
    <3>2. s = <<>> => Len(s) = 0
      OBVIOUS
    <3> HIDE DEF rem
    <3> QED BY <1>2, <1>5, <3>1, <3>2
  <2>2. PICK trial \in Trials(b), o \in Foreign \ lent : StoreForeign(b, o, s, trial)
    BY <1>5
  <2>3. trial \in {{}} \cup Trials(b) /\ UNCHANGED live /\ s \in Seq(Byte)
    BY <1>1, <2>2
  <2> QED BY ONLY <1>1, <2>1, <2>2, <2>3, StoreForeignKeepsCore
<1> HIDE DEF rem
<1>6. Core'
  <2>1. \/ /\ \E trial \in Trials(b) :
                /\ kind' = With(kind, trial, NATIVE)
                /\ start' = With(start, trial, 0)
                /\ data' = With(data, trial, <<>>)
                /\ bin' = bin \cup trial
                /\ num_recycled' = num_recycled + Cardinality(trial)
           /\ UNCHANGED <<chain, last, size, lent>>
        \/ Store(b, Printed(s, rem)) /\ UNCHANGED lent
        \/ /\ Len(s) - rem >= BUF_CHUNK_SIZE
           /\ \E trial \in Trials(b), o \in Foreign \ lent : StoreForeign(b, o, s, trial)
    BY Zenon DEF vprintf, rem
  <2> QED BY <1>3, <1>4, <1>5, <2>1
<1>7. Ends'
  BY <1>1 DEF IInv, Ends
<1> QED BY <1>6, <1>7 DEF IInv

LEMMA BeginsTyped ==
  ASSUME IInv, NEW b \in Buffers, NEW n \in Nat, append_placeholder(b, n)
  PROVE  ph' \in Placeholder
<1> DEFINE s == [i \in 1 .. n |-> Hole]
<1>1. /\ b \in LiveBuffers /\ n > 0 /\ Store(b, s) /\ live' = live /\ lent' = lent
      /\ flush' = flush /\ Core
      /\ ph' = [frag  |-> IF last[b] = NULL THEN Head(chain'[b]) ELSE last[b],
                off   |-> IF last[b] = NULL THEN 0 ELSE End(last[b]),
                len   |-> n,
                fresh |-> TRUE]
  BY ReadyIsLive DEF append_placeholder, IInv
<1>2. s \in Seq(Byte) /\ Len(s) = n
  BY Texts
<1> HIDE DEF s
<1>4. (IF last[b] = NULL THEN Head(chain'[b]) ELSE last[b]) \in Frag
  <2>1. CASE last[b] = NULL
    <3>1. PICK fs \in Fresh(Needed(Len(s), Room(last[b]))) :
            chain' = [chain EXCEPT ![b] = Link(@, last[b], fs)]
      BY <1>1 DEF Store
    <3>2. Needed(Len(s), Room(last[b])) \in Nat /\ Needed(Len(s), Room(last[b])) >= 1
      <4>1. Room(last[b]) = 0
        BY <2>1 DEF Room
      <4> QED BY <1>1, <1>2, <4>1, NeededBounds
    <3>3. fs \in Lists /\ Len(fs) >= 1
      BY <1>1, <3>2, FreshDef DEF Core, Shape
    <3>4. chain'[b] = fs
      <4>1. chain'[b] = Link(chain[b], last[b], fs)
        BY <1>1, <3>1 DEF Core, Shape
      <4>2. fs # <<>>
        BY <3>3, EmptySeq DEF Lists
      <4> QED BY <2>1, <4>1, <4>2 DEF Link
    <3>5. Head(fs) \in Frag
      BY <3>3 DEF Lists
    <3> QED BY <2>1, <3>4, <3>5
  <2>2. CASE last[b] # NULL
    BY <1>1, <2>2, OfBuffer
  <2> QED BY <2>1, <2>2
<1>5. (IF last[b] = NULL THEN 0 ELSE End(last[b])) \in Nat
  <2>1. CASE last[b] # NULL
    <3>1. last[b] \in Frag /\ data \in Fields /\ start \in [Frag -> Nat]
      BY <1>1, <2>1, OfBuffer
    <3>2. start[last[b]] \in Nat /\ Len(data[last[b]]) \in Nat
      BY <3>1, LengthZero
    <3> QED BY <3>2 DEF End
  <2> QED BY <2>1
<1> QED BY <1>1, <1>4, <1>5 DEF Placeholder

LEMMA AppendPlaceholderKeeps ==
  ASSUME IInv, NEW b \in Buffers, NEW n \in Nat, append_placeholder(b, n)
  PROVE  IInv'
<1> DEFINE s == [i \in 1 .. n |-> Hole]
<1>1. b \in LiveBuffers /\ Store(b, s) /\ live' = live /\ lent' = lent /\ flush' = flush /\ Core
  BY ReadyIsLive DEF append_placeholder, IInv
<1>2. s \in Seq(Byte)
  BY Texts
<1> HIDE DEF s
<1>3. Core'
  BY <1>1, <1>2, StoreKeepsCore
<1>4. Ends'
  BY <1>1, BeginsTyped DEF IInv, Ends
<1> QED BY <1>3, <1>4 DEF IInv

LEMMA UnlinkKeepsPh ==
  ASSUME Ends, NEW b, NEW n, Unlink(b, n)
  PROVE  ph' \in Placeholder \cup {NULL}
BY DisturbTyped DEF Unlink, Ends

LEMMA ReadKeeps ==
  ASSUME IInv, NEW b \in Buffers, NEW n \in Nat, read(b, n)
  PROVE  IInv'
<1>1. b \in LiveBuffers /\ Unlink(b, n) /\ flush' = flush /\ live' = live
  BY ReadyIsLive DEF read, Unlink
<1>2. Core'
  BY <1>1, UnlinkKeepsCore DEF IInv
<1>3. ph' \in Placeholder \cup {NULL}
  BY <1>1, UnlinkKeepsPh DEF IInv
<1>4. Ends'
  BY <1>1, <1>3 DEF IInv, Ends
<1> QED BY <1>2, <1>4 DEF IInv

LEMMA WritevKeeps ==
  ASSUME IInv, NEW b \in Buffers, NEW w \in Nat, writev(b, w)
  PROVE  IInv'
BY ReadKeeps DEF writev

LEMMA WriteAllStepKeeps ==
  ASSUME IInv, NEW b \in Buffers, NEW w \in Nat, write_all_step(b, w)
  PROVE  IInv'
<1>1. b \in LiveBuffers /\ Unlink(b, w) /\ live' = live /\ flush' \in {b, NULL}
  BY ValueAssumption DEF write_all_step, Unlink, IInv, Ends, LiveBuffers
<1>2. Core'
  BY <1>1, UnlinkKeepsCore DEF IInv
<1>3. ph' \in Placeholder \cup {NULL}
  BY <1>1, UnlinkKeepsPh DEF IInv
<1>4. Ends'
  BY <1>1, <1>3 DEF Ends, LiveBuffers
<1> QED BY <1>2, <1>4 DEF IInv

LEMMA AddingKeeps ==
  ASSUME IInv, NEW b \in Buffers, Adding(b)
  PROVE  IInv'
<1>n. MaxSize \in Nat /\ 0 .. MaxSize \subseteq Nat
  BY SizeAssumption
<1>1. CASE \E s \in Data : append(b, s)
  BY <1>1, Texts, AppendKeeps
<1>2. CASE \E s \in Data : append_string0(b, s)
  BY <1>2, Texts, AppendKeeps DEF append_string0
<1>3. CASE \E n \in 0 .. MaxSize : append_repeated_byte(b, n, NUL)
  BY <1>n, <1>3, Texts, AppendKeeps DEF append_repeated_byte
<1>4. CASE \E s \in Data : append_small(b, s)
  BY <1>4, Texts, AppendSmallKeeps
<1>5. CASE readv(b)
  BY <1>5, Texts, AppendKeeps DEF readv
<1>6. CASE \E o \in Foreign, s \in Data : append_foreign(b, o, s)
  BY <1>6, Texts, AppendForeignKeeps
<1>7. CASE \E s \in Data : vprintf(b, s)
  BY <1>7, Texts, VprintfKeeps
<1>8. CASE \E n \in 1 .. MaxSize : append_placeholder(b, n)
  BY <1>8, AppendPlaceholderKeeps
<1> QED BY <1>1, <1>2, <1>3, <1>4, <1>5, <1>6, <1>7, <1>8 DEF Adding

LEMMA ReadUntilReads ==
  ASSUME NEW b \in Buffers, NEW x, read_until(b, x)
  PROVE  \E n \in Nat : read(b, n)
<1> DEFINE n == SelectInSeq(Bytes(b), LAMBDA byte : byte = x)
           I == {i \in 1 .. Len(Bytes(b)) : Bytes(b)[i] = x}
<1>1. read(b, n)
  BY DEF read_until
<1>2. n \in Nat
  <2>1. n = IF I # {} THEN Min(I) ELSE 0
    BY DEF SelectInSeq
  <2>2. I \in SUBSET Nat
    OBVIOUS
  <2> HIDE DEF I, n
  <2> QED BY <2>1, <2>2, LeastNat
<1> HIDE DEF n
<1> QED BY <1>1, <1>2

LEMMA TakingKeeps ==
  ASSUME IInv, NEW b \in Buffers, Taking(b)
  PROVE  IInv'
<1>1. CASE \E n \in 0 .. MaxSize : read(b, n)
  BY <1>1, SizeAssumption, ReadKeeps
<1>2. CASE \E n \in 0 .. MaxSize : discard(b, n)
  BY <1>2, SizeAssumption, ReadKeeps DEF discard
<1>3. CASE \E x \in {LF, NUL} : read_until(b, x)
  <2>1. PICK x \in {LF, NUL} : read_until(b, x)
    BY <1>3
  <2>2. PICK n \in Nat : read(b, n)
    BY <2>1, ReadUntilReads
  <2> QED BY <2>2, ReadKeeps
<1>4. CASE empty_to_string(b)
  BY <1>4, ReadKeeps DEF empty_to_string, IInv, Core, Shape
<1>5. CASE \E w \in 1 .. MaxSize : writev(b, w)
  BY <1>5, WritevKeeps
<1>6. CASE \E m, w \in 1 .. MaxSize : writev_len(b, m, w)
  BY <1>6, WritevKeeps DEF writev_len
<1> QED BY <1>1, <1>2, <1>3, <1>4, <1>5, <1>6 DEF Taking

LEMMA FlushingKeeps ==
  ASSUME IInv, NEW b \in Buffers, Flushing(b)
  PROVE  IInv'
<1>1. CASE write_all_to_fd(b)
  <2>1. UNCHANGED <<listVars, fragVars, binVars, lent>> /\ flush' = b /\ ph' = ph
        /\ live' = live /\ live[b]
    BY <1>1 DEF write_all_to_fd, listVars, Ready
  <2>2. Core'
    BY <2>1, StutterKeepsCore DEF IInv
  <2>3. Ends'
    BY <2>1 DEF IInv, Ends
  <2> QED BY <2>2, <2>3 DEF IInv
<1>2. CASE \E w \in 1 .. MaxSize : write_all_step(b, w)
  BY <1>2, WriteAllStepKeeps
<1>3. CASE write_all_fails(b)
  <2>1. UNCHANGED <<listVars, fragVars, binVars, lent>> /\ flush' = NULL /\ ph' = ph
    BY <1>3 DEF write_all_fails
  <2>2. Core'
    BY <2>1, StutterKeepsCore DEF IInv
  <2>3. Ends'
    BY <2>1 DEF IInv, Ends
  <2> QED BY <2>2, <2>3 DEF IInv
<1> QED BY <1>1, <1>2, <1>3 DEF Flushing

LEMMA DiscardingKeeps ==
  ASSUME IInv, NEW b \in Buffers, Discarding(b)
  PROVE  IInv'
<1>1. CASE clear(b) \/ reset(b)
  <2>1. /\ b \in LiveBuffers /\ LetGo(b) /\ flush = NULL /\ flush' = flush
        /\ ph' = Disturb(b, Len(chain[b]), size[b])
    BY <1>1, ReadyIsLive DEF clear, reset, Ready, LetGo
  <2>2. Core'
    BY <1>1, <2>1, LetGoKeepsCore DEF clear, reset, IInv
  <2>3. Ends'
    BY <2>1, DisturbTyped DEF IInv, Ends
  <2> QED BY <2>2, <2>3 DEF IInv
<1>2. CASE init(b)
  <2>1. Core'
    BY <1>2, InitKeepsCore DEF IInv
  <2>2. Ends'
    BY <1>2 DEF init, IInv, Ends
  <2> QED BY <2>1, <2>2 DEF IInv
<1> QED BY <1>1, <1>2 DEF Discarding

LEMMA DrainKeeps ==
  ASSUME IInv, NEW dst \in Buffers, NEW src \in Buffers, drain(dst, src)
  PROVE  IInv'
<1>1. /\ dst \in LiveBuffers /\ src \in LiveBuffers /\ dst # src
      /\ UNCHANGED <<live, fragVars, binVars, lent>> /\ live' = live
      /\ ph' = ph /\ flush' = flush
  BY ReadyIsLive DEF drain
<1>2. Core'
  <2>1. CASE chain[src] = <<>>
    <3>1. UNCHANGED <<listVars, fragVars, binVars, lent>>
      BY <1>1, <2>1 DEF drain, listVars
    <3> QED BY <3>1, StutterKeepsCore DEF IInv
  <2>2. CASE chain[src] # <<>>
    <3>1. /\ chain' = [chain EXCEPT ![dst] = Link(@, last[dst], chain[src]), ![src] = <<>>]
          /\ last' = [last EXCEPT ![dst] = last[src], ![src] = NULL]
          /\ size' = [size EXCEPT ![dst] = @ + size[src], ![src] = 0]
      BY <2>2 DEF drain
    <3> QED BY <1>1, <2>2, <3>1, SpliceKeepsCore DEF IInv
  <2> QED BY <2>1, <2>2
<1>3. Ends'
  BY <1>1 DEF IInv, Ends
<1> QED BY <1>2, <1>3 DEF IInv

LEMMA TransferKeeps ==
  ASSUME IInv, NEW dst \in Buffers, NEW src \in Buffers, NEW n \in Nat,
         transfer(dst, src, n)
  PROVE  IInv'
<1>1. /\ dst \in LiveBuffers /\ src \in LiveBuffers /\ dst # src
      /\ live' = live /\ flush' = flush
      /\ \E k, m : ph' = Disturb(src, k, m)
  BY ReadyIsLive DEF transfer
<1>2. Core'
  BY <1>1, TransferKeepsCore DEF IInv
<1>3. Ends'
  BY <1>1, DisturbTyped DEF IInv, Ends
<1> QED BY <1>2, <1>3 DEF IInv

LEMMA MovingKeeps ==
  ASSUME IInv, NEW dst \in Buffers, NEW src \in Buffers, Moving(dst, src)
  PROVE  IInv'
<1>1. CASE drain(dst, src)
  BY <1>1, DrainKeeps
<1>2. CASE \E n \in 0 .. MaxSize : transfer(dst, src, n)
  BY <1>2, SizeAssumption, TransferKeeps
<1> QED BY <1>1, <1>2 DEF Moving

LEMMA PlaceholderSetKeeps ==
  ASSUME IInv, NEW s \in Seq(Byte), placeholder_set(s)
  PROVE  IInv'
<1>1. /\ ph.fresh /\ Len(s) = ph.len /\ ph' = NULL /\ flush' = flush
      /\ UNCHANGED <<listVars, kind, start, binVars, lent>> /\ live' = live
  BY DEF placeholder_set, listVars
<1>2. PICK b \in Buffers :
        data' = [f \in Frag |->
           IF f \in Placed(chain[b])
           THEN [j \in 1 .. Len(data[f]) |->
                   IF Offsets(chain[b], data)[IndexIn(chain[b], f) - 1] + j - Ahead(b)
                        \in 1 .. ph.len
                   THEN s[Offsets(chain[b], data)[IndexIn(chain[b], f) - 1] + j - Ahead(b)]
                   ELSE data[f][j]]
           ELSE data[f]]
  BY DEF placeholder_set
<1>3. \A f \in Frag : data'[f] \in Seq(Byte) /\ Len(data'[f]) = Len(data[f])
  <2> SUFFICES ASSUME NEW f \in Frag
               PROVE  data'[f] \in Seq(Byte) /\ Len(data'[f]) = Len(data[f])
    OBVIOUS
  <2>1. data[f] \in Seq(Byte) /\ Len(data[f]) \in Nat
    BY LengthZero DEF IInv, Core, Shape
  <2>2. CASE f \in Placed(chain[b])
    <3> DEFINE at(j) == Offsets(chain[b], data)[IndexIn(chain[b], f) - 1] + j - Ahead(b)
               y == [j \in 1 .. Len(data[f]) |->
                       IF at(j) \in 1 .. ph.len THEN s[at(j)] ELSE data[f][j]]
    <3>1. data'[f] = y
      BY <1>2, <2>2
    <3>2. \A j \in 1 .. Len(data[f]) : y[j] \in Byte
      <4> SUFFICES ASSUME NEW j \in 1 .. Len(data[f])
                   PROVE  (IF at(j) \in 1 .. ph.len THEN s[at(j)] ELSE data[f][j]) \in Byte
        OBVIOUS
      <4> HIDE DEF at
      <4> QED BY <1>1, <2>1, ElementOfSeq
    <3>3. y \in Seq(Byte) /\ Len(y) = Len(data[f])
      <4>1. y \in [1 .. Len(data[f]) -> Byte]
        BY <3>2
      <4> HIDE DEF y
      <4> QED BY <2>1, <4>1, FunctionIsSeq
    <3> QED BY <3>1, <3>3
  <2>3. CASE f \notin Placed(chain[b])
    BY <1>2, <2>1, <2>3
  <2> QED BY <2>2, <2>3
<1>4. data' \in Fields
  BY <1>2, <1>3 DEF Fields
<1>5. Core'
  BY <1>1, <1>3, <1>4, FillingInKeepsCore DEF IInv
<1>6. Ends'
  BY <1>1 DEF IInv, Ends
<1> QED BY <1>5, <1>6 DEF IInv
LEMMA InitIsIInv ==
  ASSUME Init
  PROVE  IInv
<1>0. <<>> \in Seq(Byte) /\ <<>> \in Lists /\ Cardinality({}) = 0 /\ Len(<<>>) = 0
  BY FS_EmptySet DEF Lists
<1>1. Shape
  BY <1>0 DEF Init, Shape, Lists, Fields, Kinds
<1>2. ASSUME NEW b \in LiveBuffers PROVE Good(chain[b], last[b], size[b], data)
  <2>1. chain[b] = <<>> /\ last[b] = NULL /\ size[b] = 0 /\ data \in Fields
    BY <1>1 DEF Init, LiveBuffers, Shape
  <2> QED BY <2>1, GoodEmpty
<1>3. Sorted(LiveBuffers, Held, kind, bin, lent)
  <2>1. \A b \in LiveBuffers : Held[b] = {}
    <3> SUFFICES ASSUME NEW b \in LiveBuffers PROVE Held[b] = {}
      OBVIOUS
    <3>1. b \in Buffers /\ chain[b] = <<>>
      BY DEF Init, LiveBuffers
    <3>2. Placed(<<>>) = {}
      BY <1>0 DEF Placed
    <3> QED BY <3>1, <3>2 DEF Held
  <2>2. (\A f \in Frag : kind[f] = FREE) /\ bin = {} /\ lent = {}
    BY DEF Init
  <2> QED BY <2>1, <2>2, ValueAssumption DEF Sorted
<1>4. RecyclingBounded
  BY <1>0, SizeAssumption DEF Init, RecyclingBounded
<1>5. InsideAllocation
  BY ValueAssumption DEF Init, InsideAllocation
<1>6. Ends
  BY DEF Init, Ends
<1> QED BY <1>1, <1>2, <1>3, <1>4, <1>5, <1>6 DEF IInv, Core

LEMMA NextKeepsIInv ==
  ASSUME IInv, [Next]_vars
  PROVE  IInv'
<1>1. ASSUME NEW b \in Buffers, Adding(b) PROVE IInv'
  BY <1>1, AddingKeeps
<1>2. ASSUME NEW b \in Buffers, Taking(b) PROVE IInv'
  BY <1>2, TakingKeeps
<1>3. ASSUME NEW b \in Buffers, Flushing(b) PROVE IInv'
  BY <1>3, FlushingKeeps
<1>4. ASSUME NEW b \in Buffers, Discarding(b) PROVE IInv'
  BY <1>4, DiscardingKeeps
<1>5. ASSUME NEW dst \in Buffers, NEW src \in Buffers, Moving(dst, src) PROVE IInv'
  BY <1>5, MovingKeeps
<1>6. ASSUME NEW s \in Data, placeholder_set(s) PROVE IInv'
  BY <1>6, Texts, PlaceholderSetKeeps
<1>7. CASE cleanup_recycling_bin
  <2>1. ph' = ph /\ flush' = flush /\ live' = live
    BY <1>7 DEF cleanup_recycling_bin, listVars
  <2>2. Core'
    BY <1>7, CleanupKeepsCore DEF IInv
  <2>3. Ends'
    BY <2>1 DEF IInv, Ends
  <2> QED BY <2>2, <2>3 DEF IInv
<1>8. CASE UNCHANGED vars
  <2>1. UNCHANGED <<listVars, fragVars, binVars, lent>> /\ ph' = ph /\ flush' = flush
        /\ live' = live
    BY <1>8 DEF vars, listVars
  <2>2. Core'
    BY <2>1, StutterKeepsCore DEF IInv
  <2>3. Ends'
    BY <2>1 DEF IInv, Ends
  <2> QED BY <2>2, <2>3 DEF IInv
<1> QED BY <1>1, <1>2, <1>3, <1>4, <1>5, <1>6, <1>7, <1>8 DEF Next

(* The inductive invariant holds in every state of the program.            *)
THEOREM Inductive == Spec => []IInv
<1>1. Init => IInv
  BY InitIsIInv
<1>2. IInv /\ [Next]_vars => IInv'
  BY NextKeepsIInv
<1> QED BY <1>1, <1>2, PTL DEF Spec

-----------------------------------------------------------------------------
(* What follows for the program.                                           *)

(* The fields of buffers, fragments and of the bin have the values their   *)
(* types promise, after any sequence of calls.                             *)
THEOREM TypeCorrect == Spec => []TypeOK
<1>1. ASSUME IInv PROVE TypeOK
  <2>1. Shape /\ Ends /\ RecyclingBounded
    BY <1>1 DEF IInv, Core
  <2>2. num_recycled \in Nat
    <3>1. IsFiniteSet(bin)
      BY <2>1, ValueAssumption, FS_Subset DEF Shape
    <3> QED BY <2>1, <3>1, FS_CardinalityType DEF RecyclingBounded
  <2> QED BY <2>1, <2>2 DEF TypeOK, Shape, Ends, Lists, Fields, Kinds
<1>2. IInv => TypeOK
  BY <1>1
<1> QED BY <1>2, Inductive, PTL

(* verify_buffer, which debug builds run at the entry of every function,   *)
(* never aborts: the size field of a buffer in use is the sum of the       *)
(* lengths of its fragments, none of which is empty.                       *)
THEOREM SizesAddUp == Spec => []Integrity
<1>1. ASSUME IInv PROVE Integrity
  <2> SUFFICES ASSUME NEW b \in LiveBuffers
               PROVE  /\ size[b] = Offsets(chain[b], data)[Len(chain[b])]
                      /\ \A f \in Placed(chain[b]) : data[f] # <<>>
    BY DEF Integrity
  <2> QED BY <1>1, OfBuffer DEF IInv, Total
<1>2. IInv => Integrity
  BY <1>1
<1> QED BY <1>2, Inductive, PTL

(* Whatever the order in which fragments are spliced, copied, recycled and *)
(* taken again: no list has a cycle, no two lists share a fragment, and no *)
(* list reaches a fragment that is free or waits in the recycling bin.     *)
THEOREM Owned == Spec => []Ownership
<1>1. ASSUME IInv PROVE Ownership
  <2>1. \A b \in LiveBuffers : \A i, j \in 1 .. Len(chain[b]) :
          chain[b][i] = chain[b][j] => i = j
    BY <1>1 DEF IInv, Core, Good, Inj
  <2>2. \A b, d \in LiveBuffers : b # d => Placed(chain[b]) \cap Placed(chain[d]) = {}
    <3> SUFFICES ASSUME NEW b \in LiveBuffers, NEW d \in LiveBuffers, b # d
                 PROVE  Placed(chain[b]) \cap Placed(chain[d]) = {}
      OBVIOUS
    <3> QED BY <1>1, OfBuffer DEF IInv
  <2>3. \A b \in LiveBuffers : \A f \in Placed(chain[b]) : f \notin bin /\ kind[f] # FREE
    BY <1>1, OfBuffer DEF IInv
  <2>4. \A f \in bin : kind[f] = NATIVE
    BY <1>1 DEF IInv, Core, Sorted
  <2> QED BY <2>1, <2>2, <2>3, <2>4 DEF Ownership
<1>2. IInv => Ownership
  BY <1>1
<1> QED BY <1>2, Inductive, PTL

(* No call loses a fragment: what is allocated is in the list of a buffer  *)
(* in use or in the recycling bin.                                         *)
THEOREM NothingLeaks == Spec => []NoLeak
<1>1. ASSUME IInv PROVE NoLeak
  <2> SUFFICES ASSUME NEW f \in Frag, kind[f] # FREE
               PROVE  f \in bin \/ \E b \in LiveBuffers : f \in Placed(chain[b])
    BY DEF NoLeak
  <2>1. f \in bin \/ \E b \in LiveBuffers : f \in Held[b]
    BY <1>1 DEF IInv, Core, Sorted
  <2> QED BY <1>1, <2>1, OfBuffer DEF IInv
<1>2. IInv => NoLeak
  BY <1>1
<1> QED BY <1>2, Inductive, PTL

(* last_frag, through which bulp_buffer_append links and writes, is the    *)
(* end of its buffer's list, or NULL when the list is empty.               *)
THEOREM LastIsTail == Spec => []LastFragIsTail
<1>1. IInv => LastFragIsTail
  BY DEF IInv, Core, Good, LastFragIsTail
<1> QED BY <1>1, Inductive, PTL

(* num_recycled is the length of recycling_stack and stays within          *)
(* MAX_RECYCLED.                                                           *)
THEOREM BinBounded == Spec => []RecyclingBounded
<1>1. IInv => RecyclingBounded
  BY DEF IInv, Core
<1> QED BY <1>1, Inductive, PTL

(* A lent object is destroyed when, and not before, no buffer reaches it,  *)
(* and one fragment stands for it until then.                              *)
THEOREM LentUntilUnreachable == Spec => []LentIsReachable
<1>1. ASSUME IInv PROVE LentIsReachable
  <2>1. Sorted(LiveBuffers, Held, kind, bin, lent)
    BY <1>1 DEF IInv, Core
  <2>2. ASSUME NEW o \in Foreign, o \in lent PROVE \E f \in Frag : kind[f] = o
    BY <2>1, <2>2 DEF Sorted
  <2>3. ASSUME NEW o \in Foreign, NEW f \in Frag, kind[f] = o
        PROVE  /\ o \in lent
               /\ \A g \in Frag : kind[g] = o => g = f
               /\ \E b \in LiveBuffers : f \in Placed(chain[b])
    <3>1. o \in lent /\ \A g \in Frag : kind[g] = o => g = f
      BY <2>1, <2>3 DEF Sorted
    <3>2. kind[f] # FREE /\ kind[f] # NATIVE
      BY <2>3, ValueAssumption
    <3>3. \E b \in LiveBuffers : f \in Held[b]
      BY <2>1, <3>2 DEF Sorted
    <3>4. \E b \in LiveBuffers : f \in Placed(chain[b])
      BY <1>1, <3>3, OfBuffer DEF IInv
    <3> QED BY <3>1, <3>4
  <2> QED BY <2>2, <2>3 DEF LentIsReachable
<1>2. IInv => LentIsReachable
  BY <1>1
<1> QED BY <1>2, Inductive, PTL

(* The valid data of a native fragment never passes the end of its one     *)
(* allocation, so neither do the writes that made it.                      *)
THEOREM WithinAllocation == Spec => []InsideAllocation
<1>1. IInv => InsideAllocation
  BY DEF IInv, Core
<1> QED BY <1>1, Inductive, PTL

(***************************************************************************)
(* The scans.  A scan is a recursive function of the fragment its loop is  *)
(* at.  For each there is a lemma that such a function exists and unfolds, *)
(* and one that says what its value is, proved from the last fragment      *)
(* backwards; both compare bytes of a piece with the bytes of the whole    *)
(* buffer, by the number of bytes before the piece.                        *)
(***************************************************************************)
-----------------------------------------------------------------------------
(* Pieces, one after the other.                                            *)

PieceLists == Seq(Seq(Byte))

(* The bytes of a piece are bytes of the whole, after those before it.     *)
LEMMA Laid ==
  ASSUME NEW p \in PieceLists
  PROVE  /\ Len(p) \in Nat /\ FlattenSeq(p) \in Seq(Byte) /\ Len(FlattenSeq(p)) \in Nat
         /\ Before(p, 1) = 0 /\ Before(p, Len(p) + 1) = Len(FlattenSeq(p))
         /\ \A i \in 1 .. Len(p) + 1 :
              Before(p, i) \in Nat /\ Before(p, i) <= Len(FlattenSeq(p))
         /\ \A i \in 1 .. Len(p) :
              /\ p[i] \in Seq(Byte) /\ Len(p[i]) \in Nat
              /\ Before(p, i + 1) = Before(p, i) + Len(p[i])
              /\ \A k \in 1 .. Len(p[i]) :
                   p[i][k] \in Byte /\ FlattenSeq(p)[Before(p, i) + k] = p[i][k]
<1> DEFINE n == Len(p)
           f == FlattenSeq(p)
<1>0. p \in Seq(Seq(Byte)) /\ n \in Nat
  BY LenProperties DEF PieceLists
<1>1. f \in Seq(Byte) /\ Len(f) \in Nat
  BY <1>0, FlattenType, LenProperties
<1>2. \A i \in 1 .. n + 1 : Before(p, i) = Len(JoinedUpto(p, i - 1))
  BY <1>0 DEF Before, JoinedUpto
<1>3. /\ JoinedUpto(p, 0) = <<>> /\ JoinedUpto(p, n) = f
      /\ \A i \in 0 .. n : JoinedUpto(p, i) \in Seq(Byte)
  BY <1>0, UptoJoins
<1> HIDE DEF n, f
<1>4. Before(p, 1) = 0 /\ Before(p, n + 1) = Len(f)
  BY <1>0, <1>2, <1>3
<1>5. ASSUME NEW i \in 1 .. n
      PROVE  /\ p[i] \in Seq(Byte) /\ Len(p[i]) \in Nat
             /\ Before(p, i) \in Nat
             /\ Before(p, i + 1) = Before(p, i) + Len(p[i])
             /\ Before(p, i + 1) <= Len(f)
             /\ \A k \in 1 .. Len(p[i]) : p[i][k] \in Byte /\ f[Before(p, i) + k] = p[i][k]
  <2>1. p[i] \in Seq(Byte)
    BY <1>0, ElementOfSeq DEF n
  <2>2. Len(p[i]) \in Nat /\ \A k \in 1 .. Len(p[i]) : p[i][k] \in Byte
    BY <2>1, LenProperties, ElementOfSeq
  <2>3. Before(p, i) = Len(JoinedUpto(p, i - 1)) /\ Before(p, i + 1) = Len(JoinedUpto(p, i))
    BY <1>0, <1>2
  <2>4. /\ Len(JoinedUpto(p, i - 1)) \in Nat
        /\ Len(JoinedUpto(p, i)) = Len(JoinedUpto(p, i - 1)) + Len(p[i])
        /\ Len(JoinedUpto(p, i)) <= Len(f)
        /\ \A k \in 1 .. Len(p[i]) : f[Len(JoinedUpto(p, i - 1)) + k] = p[i][k]
    BY <1>0, UptoParts DEF n, f
  <2> QED BY <2>1, <2>2, <2>3, <2>4
<1>6. \A i \in 1 .. n + 1 : Before(p, i) \in Nat /\ Before(p, i) <= Len(f)
  <2>1. \A i \in 1 .. n : Before(p, i) <= Len(f)
    BY <1>0, <1>1, <1>5
  <2> QED BY <1>0, <1>1, <1>4, <1>5, <2>1
<1> QED BY <1>0, <1>1, <1>4, <1>5, <1>6 DEF n, f

LEMMA BeforeMonotone ==
  ASSUME NEW p \in PieceLists, NEW i \in 1 .. Len(p) + 1, NEW j \in i .. Len(p) + 1
  PROVE  Before(p, i) <= Before(p, j)
<1> DEFINE L == Len(p)
           m == j - i
           T == {k \in 0 .. m : Before(p, i) <= Before(p, i + k)}
<1>1. /\ L \in Nat /\ \A k \in 1 .. L + 1 : Before(p, k) \in Nat
      /\ \A k \in 1 .. L : Len(p[k]) \in Nat /\ Before(p, k + 1) = Before(p, k) + Len(p[k])
  BY Laid
<1>2. m \in Nat /\ i \in Nat /\ i + 0 = i
  BY <1>1
<1>3. 0 \in T
  BY <1>1, <1>2
<1>4. ASSUME NEW k \in 1 .. m, k - 1 \in T PROVE k \in T
  <2> DEFINE l == i + (k - 1)
  <2>1. l \in 1 .. L /\ l + 1 = i + k /\ l \in 1 .. L + 1 /\ k \in 0 .. m
    BY <1>1
  <2>2. Before(p, i) <= Before(p, l)
    BY <1>4
  <2> HIDE DEF l
  <2>3. Before(p, i) <= Before(p, l + 1)
    BY <1>1, <2>1, <2>2
  <2> QED BY <2>1, <2>3
<1>5. 0 .. m \subseteq T
  <2> HIDE DEF T
  <2> QED BY <1>2, <1>3, <1>4, IndexInduction
<1>6. m \in T /\ i + m = j
  <2>1. m \in 0 .. m /\ i + m = j
    BY <1>1, <1>2
  <2> HIDE DEF T, m
  <2> QED BY <1>5, <2>1
<1> HIDE DEF m
<1> QED BY <1>6

(* Every byte of the whole lies in a piece.                                *)
LEMMA PlaceOf ==
  ASSUME NEW p \in PieceLists, NEW n \in Nat, n < Len(FlattenSeq(p))
  PROVE  \E i \in 1 .. Len(p) : Before(p, i) <= n /\ n < Before(p, i) + Len(p[i])
<1> DEFINE L == Len(p)
           P(i) == \E j \in 1 .. L : Before(p, j) <= n /\ n < Before(p, j) + Len(p[j])
           T == {i \in 0 .. L : n < Before(p, i + 1) => P(i)}
<1>1. /\ L \in Nat /\ Before(p, 1) = 0 /\ Before(p, L + 1) = Len(FlattenSeq(p))
      /\ \A i \in 1 .. L : /\ Before(p, i) \in Nat /\ Len(p[i]) \in Nat
                           /\ Before(p, i + 1) = Before(p, i) + Len(p[i])
  BY Laid
<1> HIDE DEF L
<1>2. 0 \in T
  BY <1>1
<1>3. ASSUME NEW i \in 1 .. L, i - 1 \in T PROVE i \in T
  <2>1. (i - 1) + 1 = i /\ i \in 0 .. L
    BY <1>1
  <2>2. n < Before(p, i) => P(i)
    BY <1>3, <2>1
  <2>3. ASSUME n < Before(p, i + 1) PROVE P(i)
    <3>1. CASE n < Before(p, i)
      BY <2>2, <3>1
    <3>2. CASE ~ (n < Before(p, i))
      <4>1. Before(p, i) <= n /\ n < Before(p, i) + Len(p[i])
        BY <1>1, <2>3, <3>2
      <4> QED BY <4>1
    <3> QED BY <3>1, <3>2
  <2> QED BY <2>1, <2>3
<1>4. 0 .. L \subseteq T
  <2> HIDE DEF T
  <2> QED BY <1>1, <1>2, <1>3, IndexInduction
<1>5. L \in T
  BY <1>1, <1>4
<1> QED BY <1>1, <1>5 DEF L

(* A slice, element by element, of sequences over any set.                 *)
LEMMA AnySliceIs ==
  ASSUME NEW T, NEW s \in Seq(T), NEW from \in Nat, NEW n \in Nat, from + n <= Len(s)
  PROVE  /\ Slice(s, from, n) \in Seq(T) /\ Len(Slice(s, from, n)) = n
         /\ \A k \in 1 .. n : Slice(s, from, n)[k] = s[from + k]
<1>0. Len(s) \in Nat /\ \A i \in 1 .. Len(s) : s[i] \in T
  BY LenProperties, ElementOfSeq
<1>1. from + 1 \in Int /\ from + n \in Int /\ \A i \in from + 1 .. from + n : s[i] \in T
  BY <1>0
<1> DEFINE a == from + 1
           b == from + n
           z == SubSeq(s, a, b)
<1>2. a \in Int /\ b \in Int /\ \A i \in a .. b : s[i] \in T
  BY <1>1
<1> HIDE DEF a, b
<1>3. /\ z \in Seq(T) /\ Len(z) = IF a <= b THEN b - a + 1 ELSE 0
      /\ \A i \in 1 .. b - a + 1 : z[i] = s[a + i - 1]
  BY <1>2, SubSeqProperties
<1> HIDE DEF z
<1>4. b - a + 1 = n /\ (IF a <= b THEN b - a + 1 ELSE 0) = n
      /\ \A i \in 1 .. n : a + i - 1 = from + i
  BY DEF a, b
<1>5. Len(z) = n /\ \A i \in 1 .. n : z[i] = s[from + i]
  BY <1>3, <1>4
<1>6. z = Slice(s, from, n)
  BY DEF z, a, b, Slice
<1> QED BY <1>3, <1>5, <1>6

Alike(s, from, t, at, n) == \A k \in 1 .. n : s[from + k] = t[at + k]

(* Two slices are equal when they agree everywhere.                        *)
LEMMA AnySlicesEqual ==
  ASSUME NEW T, NEW s \in Seq(T), NEW t \in Seq(T), NEW from \in Nat, NEW at \in Nat,
         NEW n \in Nat, from + n <= Len(s), at + n <= Len(t),
         Alike(s, from, t, at, n)
  PROVE  Slice(s, from, n) = Slice(t, at, n)
<1>1. /\ Slice(s, from, n) \in Seq(T) /\ Len(Slice(s, from, n)) = n
      /\ \A k \in 1 .. n : Slice(s, from, n)[k] = s[from + k]
  BY AnySliceIs
<1>2. /\ Slice(t, at, n) \in Seq(T) /\ Len(Slice(t, at, n)) = n
      /\ \A k \in 1 .. n : Slice(t, at, n)[k] = t[at + k]
  BY AnySliceIs
<1>3. \A k \in 1 .. Len(Slice(s, from, n)) : Slice(s, from, n)[k] = Slice(t, at, n)[k]
  BY <1>1, <1>2 DEF Alike
<1> QED BY <1>1, <1>2, <1>3, SeqEqual

LEMMA AnySlicesAgree ==
  ASSUME NEW T, NEW s \in Seq(T), NEW t \in Seq(T), NEW from \in Nat, NEW at \in Nat,
         NEW n \in Nat, from + n <= Len(s), at + n <= Len(t),
         Slice(s, from, n) = Slice(t, at, n)
  PROVE  Alike(s, from, t, at, n)
<1>1. \A k \in 1 .. n : Slice(s, from, n)[k] = s[from + k]
  BY AnySliceIs
<1>2. \A k \in 1 .. n : Slice(t, at, n)[k] = t[at + k]
  BY AnySliceIs
<1> QED BY <1>1, <1>2 DEF Alike

LEMMA AnySliceWhole ==
  ASSUME NEW T, NEW s \in Seq(T)
  PROVE  Slice(s, 0, Len(s)) = s /\ \A from \in Nat : Slice(s, from, 0) = <<>>
<1>0. Len(s) \in Nat
  BY LenProperties
<1>1. /\ Slice(s, 0, Len(s)) \in Seq(T) /\ Len(Slice(s, 0, Len(s))) = Len(s)
      /\ \A k \in 1 .. Len(s) : Slice(s, 0, Len(s))[k] = s[0 + k]
  BY <1>0, AnySliceIs
<1>2. \A k \in 1 .. Len(s) : Slice(s, 0, Len(s))[k] = s[k]
  BY <1>0, <1>1
<1>3. Slice(s, 0, Len(s)) = s
  BY <1>1, <1>2, SeqEqual
<1>4. ASSUME NEW from \in Nat PROVE Slice(s, from, 0) = <<>>
  <2>1. from + 1 \in Int /\ from + 0 \in Int /\ from + 0 < from + 1
    OBVIOUS
  <2> QED BY <2>1, SubSeqEmpty DEF Slice
<1> QED BY <1>3, <1>4

(* The same of sequences of bytes.                                         *)
LEMMA SliceIs ==
  ASSUME NEW s \in Seq(Byte), NEW from \in Nat, NEW n \in Nat, from + n <= Len(s)
  PROVE  /\ Slice(s, from, n) \in Seq(Byte) /\ Len(Slice(s, from, n)) = n
         /\ \A k \in 1 .. n : Slice(s, from, n)[k] = s[from + k]
BY AnySliceIs

LEMMA SlicesEqual ==
  ASSUME NEW s \in Seq(Byte), NEW t \in Seq(Byte), NEW from \in Nat, NEW at \in Nat,
         NEW n \in Nat, from + n <= Len(s), at + n <= Len(t),
         Alike(s, from, t, at, n)
  PROVE  Slice(s, from, n) = Slice(t, at, n)
BY AnySlicesEqual

LEMMA SlicesAgree ==
  ASSUME NEW s \in Seq(Byte), NEW t \in Seq(Byte), NEW from \in Nat, NEW at \in Nat,
         NEW n \in Nat, from + n <= Len(s), at + n <= Len(t),
         Slice(s, from, n) = Slice(t, at, n)
  PROVE  Alike(s, from, t, at, n)
BY AnySlicesAgree

LEMMA SliceWhole ==
  ASSUME NEW s \in Seq(Byte)
  PROVE  Slice(s, 0, Len(s)) = s /\ \A from \in Nat : Slice(s, from, 0) = <<>>
BY AnySliceWhole

(* A slice of a piece is one of the whole.                                 *)
LEMMA SliceOfPiece ==
  ASSUME NEW p \in PieceLists, NEW i \in 1 .. Len(p), NEW off \in Nat, NEW n \in Nat,
         off + n <= Len(p[i])
  PROVE  /\ Slice(p[i], off, n) = Slice(FlattenSeq(p), Before(p, i) + off, n)
         /\ Before(p, i) + off \in Nat /\ Before(p, i) + off + n <= Len(FlattenSeq(p))
<1> DEFINE f == FlattenSeq(p)
           B == Before(p, i)
           c == p[i]
<1>1. /\ f \in Seq(Byte) /\ Len(f) \in Nat /\ B \in Nat /\ c \in Seq(Byte) /\ Len(c) \in Nat
      /\ B + Len(c) <= Len(f) /\ \A k \in 1 .. Len(c) : f[B + k] = c[k]
  <2>1. Len(p) \in Nat /\ i \in 1 .. Len(p) + 1 /\ i + 1 \in 1 .. Len(p) + 1
    BY Laid
  <2>2. Before(p, i + 1) <= Len(f) /\ Before(p, i + 1) = B + Len(c)
    BY <2>1, Laid
  <2> QED BY <2>1, <2>2, Laid
<1>2. off + n <= Len(c)
  OBVIOUS
<1> HIDE DEF f, B, c
<1>3. B + off \in Nat /\ B + off + n <= Len(f)
  BY <1>1, <1>2
<1>4. \A k \in 1 .. n : c[off + k] = f[(B + off) + k]
  <2> SUFFICES ASSUME NEW k \in 1 .. n PROVE c[off + k] = f[(B + off) + k]
    OBVIOUS
  <2>1. off + k \in 1 .. Len(c) /\ B + (off + k) = (B + off) + k
    BY <1>1, <1>2
  <2> QED BY <1>1, <2>1
<1>5. Slice(c, off, n) = Slice(f, B + off, n)
  <2> DEFINE at == B + off
  <2>1. at \in Nat /\ at + n <= Len(f) /\ \A k \in 1 .. n : c[off + k] = f[at + k]
    BY <1>3, <1>4
  <2> HIDE DEF at
  <2>2. /\ c \in Seq(Byte) /\ f \in Seq(Byte) /\ off \in Nat /\ at \in Nat /\ n \in Nat
        /\ off + n <= Len(c) /\ at + n <= Len(f)
    BY <1>1, <1>2, <2>1
  <2>3. Alike(c, off, f, at, n)
    BY <2>1 DEF Alike
  <2>4. Slice(c, off, n) = Slice(f, at, n)
    BY ONLY <2>2, <2>3, SlicesEqual
  <2> QED BY <2>4 DEF at
<1> QED BY <1>3, <1>5 DEF f, B, c

LEMMA SlicesJoin ==
  ASSUME NEW s \in Seq(Byte), NEW from \in Nat, NEW m \in Nat, NEW n \in Nat,
         from + m + n <= Len(s)
  PROVE  Slice(s, from, m) \o Slice(s, from + m, n) = Slice(s, from, m + n)
<1> DEFINE u == Slice(s, from, m)
           v == Slice(s, from + m, n)
           w == Slice(s, from, m + n)
<1>0. Len(s) \in Nat
  BY LenProperties
<1>1. u \in Seq(Byte) /\ Len(u) = m /\ \A k \in 1 .. m : u[k] = s[from + k]
  <2>1. s \in Seq(Byte) /\ from \in Nat /\ m \in Nat /\ from + m <= Len(s)
    BY <1>0
  <2> QED BY ONLY <2>1, SliceIs
<1>2. v \in Seq(Byte) /\ Len(v) = n /\ \A k \in 1 .. n : v[k] = s[(from + m) + k]
  <2>1. from + m \in Nat /\ (from + m) + n <= Len(s)
    BY <1>0
  <2> QED BY <2>1, SliceIs
<1>3. w \in Seq(Byte) /\ Len(w) = m + n /\ \A k \in 1 .. m + n : w[k] = s[from + k]
  <2>1. m + n \in Nat /\ from + (m + n) <= Len(s)
    BY <1>0
  <2> QED BY <2>1, SliceIs
<1> DEFINE z == u \o v
<1> HIDE DEF u, v, w
<1>4. /\ z \in Seq(Byte) /\ Len(z) = m + n
      /\ \A k \in 1 .. m + n : z[k] = IF k <= m THEN u[k] ELSE v[k - m]
  <2>1. /\ z \in Seq(Byte) /\ Len(z) = Len(u) + Len(v)
        /\ \A k \in 1 .. Len(u) + Len(v) : z[k] = IF k <= Len(u) THEN u[k] ELSE v[k - Len(u)]
    BY ONLY <1>1, <1>2, ConcatProperties
  <2> QED BY ONLY <1>1, <1>2, <2>1
<1> HIDE DEF z
<1>5. ASSUME NEW k \in 1 .. m + n PROVE z[k] = w[k]
  <2>0. k \in Int /\ m \in Int /\ n \in Int /\ from \in Int
    OBVIOUS
  <2>1. ASSUME k <= m PROVE z[k] = w[k]
    <3>1. k \in 1 .. m /\ z[k] = u[k] /\ w[k] = s[from + k]
      BY <1>3, <1>4, <2>0, <2>1
    <3> QED BY <1>1, <3>1
  <2>2. ASSUME ~ (k <= m) PROVE z[k] = w[k]
    <3>1. k - m \in 1 .. n /\ (from + m) + (k - m) = from + k
      BY <2>0, <2>2
    <3>2. z[k] = v[k - m] /\ w[k] = s[from + k]
      BY <1>3, <1>4, <2>2
    <3>3. v[k - m] = s[(from + m) + (k - m)]
      BY <1>2, <3>1
    <3> QED BY <3>1, <3>2, <3>3
  <2> QED BY <2>1, <2>2
<1>6. z = w
  BY <1>3, <1>4, <1>5, SeqEqual
<1> QED BY <1>6 DEF u, v, w, z

-----------------------------------------------------------------------------
(* peek.                                                                   *)

LEMMA LesserIs ==
  ASSUME NEW m \in Int, NEW n \in Int
  PROVE  /\ Lesser(m, n) \in Int /\ Lesser(m, n) <= m /\ Lesser(m, n) <= n
         /\ Lesser(m, n) = m \/ Lesser(m, n) = n
         /\ m <= n => Lesser(m, n) = m
         /\ n <= m => Lesser(m, n) = n
BY DEF Lesser

LEMMA PeekIs ==
  ASSUME NEW p \in PieceLists, NEW n \in Nat
  PROVE  peek(p, n) = Slice(FlattenSeq(p), 0, Lesser(n, Len(FlattenSeq(p))))
<1> DEFINE f == FlattenSeq(p)
           L == Len(p)
           Left(i) == Len(f) - Before(p, i)
           Body(h, i, rest) ==
             IF rest = 0 \/ i > L THEN <<>>
             ELSE IF Len(p[i]) <= rest THEN p[i] \o h[i + 1][rest - Len(p[i])]
             ELSE Slice(p[i], 0, rest)
           Step(h) == [i \in 1 .. L + 1 |-> [rest \in 0 .. n |-> Body(h, i, rest)]]
           Value(i, rest) == Slice(f, Before(p, i), Lesser(rest, Left(i)))
           g == [i \in 1 .. L + 1 |-> [rest \in 0 .. n |-> Value(i, rest)]]
<1>1. /\ L \in Nat /\ f \in Seq(Byte) /\ Len(f) \in Nat
      /\ Before(p, 1) = 0 /\ Before(p, L + 1) = Len(f)
      /\ \A i \in 1 .. L + 1 : Before(p, i) \in Nat /\ Before(p, i) <= Len(f)
      /\ \A i \in 1 .. L : /\ p[i] \in Seq(Byte) /\ Len(p[i]) \in Nat
                           /\ Before(p, i + 1) = Before(p, i) + Len(p[i])
  BY Laid
<1> HIDE DEF f
<1>2. ASSUME NEW h, NEW i \in 1 .. L + 1, \A j \in i + 1 .. L + 1 : h[j] = g[j],
             NEW rest \in 0 .. n
      PROVE  Body(h, i, rest) = Value(i, rest)
  <2> DEFINE B == Before(p, i)
  <2>0. B \in Nat /\ B <= Len(f) /\ rest \in Nat /\ Left(i) \in Nat
    BY <1>1
  <2>1. CASE rest = 0 \/ i > L
    <3>1. i > L => i = L + 1 /\ Left(i) = 0
      BY <1>1
    <3>2. Lesser(rest, Left(i)) = 0
      BY <2>0, <2>1, <3>1 DEF Lesser
    <3>3. Value(i, rest) = <<>>
      BY <1>1, <2>0, <3>2, SliceWhole
    <3> QED BY <2>1, <3>3
  <2>2. CASE ~ (rest = 0 \/ i > L)
    <3>0. i \in 1 .. L /\ i + 1 \in i + 1 .. L + 1 /\ i + 1 \in 1 .. L + 1
      BY <1>1, <2>2
    <3> DEFINE m == Len(p[i])
    <3>1. /\ m \in Nat /\ Before(p, i + 1) = B + m /\ B + m <= Len(f)
          /\ p[i] = Slice(p[i], 0, m)
      BY <1>1, <3>0, SliceWhole
    <3>2. CASE m <= rest
      <4>1. rest - m \in 0 .. n /\ h[i + 1] = g[i + 1]
        BY <1>2, <3>0, <3>1, <3>2
      <4>2. h[i + 1][rest - m] = Value(i + 1, rest - m)
        BY <3>0, <4>1
      <4> DEFINE k == Lesser(rest - m, Left(i + 1))
      <4>3. k \in Nat /\ B + m + k <= Len(f) /\ Lesser(rest, Left(i)) = m + k
        <5>1. Left(i + 1) = Left(i) - m /\ Left(i) - m \in Nat
          <6>1. /\ Left(i) = Len(f) - B /\ Left(i + 1) = Len(f) - Before(p, i + 1)
                /\ Len(f) \in Nat
            BY <1>1
          <6> HIDE DEF Left, m, B, f
          <6> QED BY <2>0, <3>1, <6>1
        <5>2. k = Lesser(rest - m, Left(i) - m)
          BY <5>1
        <5> HIDE DEF k, m
        <5>4. Left(i) = Len(f) - B /\ Len(f) \in Nat /\ B \in Nat /\ m \in Nat
          BY <1>1, <2>0, <3>1
        <5> HIDE DEF Left, B
        <5>3. k \in Nat /\ k <= Left(i) - m /\ Lesser(rest, Left(i)) = m + k
          <6>1. rest \in Nat /\ m \in Nat /\ m <= rest
            BY <2>0, <3>1, <3>2
          <6> QED BY ONLY <5>1, <5>2, <5>4, <6>1 DEF Lesser
        <5> QED BY ONLY <5>3, <5>4
      <4>4. Slice(p[i], 0, m) = Slice(f, B + 0, m)
        BY <3>0, <3>1, SliceOfPiece DEF f
      <4>5. p[i] = Slice(f, B, m)
        BY <2>0, <3>1, <4>4
      <4>6. h[i + 1][rest - m] = Slice(f, B + m, k)
        BY <3>1, <4>2
      <4> HIDE DEF B, m, k
      <4>7. Slice(f, B, m) \o Slice(f, B + m, k) = Slice(f, B, m + k)
        <5>1. /\ f \in Seq(Byte) /\ B \in Nat /\ m \in Nat /\ k \in Nat
              /\ B + m + k <= Len(f)
          BY <1>1, <2>0, <3>1, <4>3
        <5> QED BY ONLY <5>1, SlicesJoin
      <4>8. Body(h, i, rest) = Slice(f, B, m + k)
        BY <2>2, <3>2, <4>5, <4>6, <4>7 DEF m
      <4> QED BY <4>3, <4>8 DEF B
    <3>3. CASE ~ (m <= rest)
      <4>1. Lesser(rest, Left(i)) = rest /\ rest <= m
        <5>1. /\ rest \in Nat /\ rest < m /\ m \in Nat /\ B \in Nat
              /\ Left(i) = Len(f) - B /\ Len(f) \in Nat /\ B + m <= Len(f)
          BY <1>1, <2>0, <3>1, <3>3
        <5> HIDE DEF Left, m, B, f
        <5> QED BY ONLY <5>1 DEF Lesser
      <4>2. Slice(p[i], 0, rest) = Slice(f, B + 0, rest)
        BY <2>0, <3>0, <3>1, <4>1, SliceOfPiece DEF f
      <4>3. Slice(p[i], 0, rest) = Slice(f, B, rest)
        BY <2>0, <4>2
      <4> QED BY <2>2, <3>3, <4>1, <4>3
    <3> QED BY <3>2, <3>3
  <2> QED BY <2>1, <2>2
<1> HIDE DEF Body, Value
<1>3. g = Step(g)
  BY <1>2
<1>4. peek(p, n) = (CHOOSE h : h = Step(h))[1][n]
  BY DEF peek, Body
<1>5. ASSUME NEW h, h = Step(h) PROVE h[1][n] = Value(1, n)
  <2> DEFINE T == {i \in 1 .. L + 1 : h[i] = g[i]}
  <2>1. ASSUME NEW i \in 1 .. L + 1, \A j \in i + 1 .. L + 1 : j \in T
        PROVE  i \in T
    <3>1. \A j \in i + 1 .. L + 1 : h[j] = g[j]
      BY <2>1
    <3>2. h[i] = [rest \in 0 .. n |-> Body(h, i, rest)]
      BY <1>5
    <3>3. \A rest \in 0 .. n : Body(h, i, rest) = Value(i, rest)
      BY <1>2, <3>1
    <3>4. h[i] = g[i]
      BY <3>2, <3>3
    <3> QED BY <3>4
  <2> HIDE DEF T, g, Step
  <2>2. \A i \in 1 .. L + 1 : i \in T
    <3>1. 1 \in Nat /\ L + 1 \in Nat
      BY <1>1
    <3> QED BY ONLY <2>1, <3>1, WalkInduction
  <2>3. 1 \in 1 .. L + 1 /\ n \in 0 .. n
    BY <1>1
  <2>4. h[1] = g[1]
    BY <2>2, <2>3 DEF T
  <2> QED BY <2>3, <2>4 DEF g
<1>6. peek(p, n) = Value(1, n)
  <2> HIDE DEF Step, g
  <2> QED BY <1>3, <1>4, <1>5
<1>7. Left(1) = Len(f)
  BY <1>1
<1> QED BY <1>1, <1>6, <1>7 DEF Value, f

-----------------------------------------------------------------------------
(* index_of.                                                               *)

LEMMA FirstIs ==
  ASSUME NEW S \in SUBSET Nat, NEW m \in S, \A k \in S : m <= k
  PROVE  FirstOf(S) = m
<1>1. S # {} /\ Min(S) \in S /\ \A k \in S : Min(S) <= k
  BY LeastMember
<1>2. Min(S) = m
  <2>1. Min(S) \in Nat /\ m \in Nat /\ Min(S) <= m /\ m <= Min(S)
    BY <1>1
  <2> QED BY <2>1
<1> QED BY <1>1, <1>2 DEF FirstOf

LEMMA IndexIs ==
  ASSUME NEW p \in PieceLists, NEW byte \in Byte
  PROVE  index_of(p, byte) = FirstOf(Occurs(FlattenSeq(p), <<byte>>))
<1> DEFINE f == FlattenSeq(p)
           L == Len(p)
           Saught(i) == {k \in DOMAIN p[i] : p[i][k] = byte}
           Body(h, i) ==
             IF i > L THEN Absent
             ELSE IF Saught(i) # {} THEN Before(p, i) + Min(Saught(i)) - 1 ELSE h[i + 1]
           Step(h) == [i \in 1 .. L + 1 |-> Body(h, i)]
           After(i) == {n \in 0 .. Len(f) - 1 : Before(p, i) <= n /\ f[n + 1] = byte}
           g == [i \in 1 .. L + 1 |-> FirstOf(After(i))]
<1>1. /\ L \in Nat /\ f \in Seq(Byte) /\ Len(f) \in Nat
      /\ Before(p, 1) = 0 /\ Before(p, L + 1) = Len(f)
      /\ \A i \in 1 .. L + 1 : Before(p, i) \in Nat /\ Before(p, i) <= Len(f)
      /\ \A i \in 1 .. L : /\ p[i] \in Seq(Byte) /\ Len(p[i]) \in Nat
                           /\ Before(p, i + 1) = Before(p, i) + Len(p[i])
                           /\ \A k \in 1 .. Len(p[i]) : f[Before(p, i) + k] = p[i][k]
  BY Laid
<1> HIDE DEF f
<1>2. ASSUME NEW h, NEW i \in 1 .. L + 1, \A j \in i + 1 .. L + 1 : h[j] = g[j]
      PROVE  Body(h, i) = FirstOf(After(i))
  <2>1. CASE i > L
    <3>1. i = L + 1
      BY <1>1, <2>1
    <3>2. Before(p, i) = Len(f)
      BY <1>1, <3>1
    <3>3. After(i) = {}
      BY <1>1, <3>2
    <3> QED BY <2>1, <3>3 DEF FirstOf
  <2>2. CASE ~ (i > L)
    <3> DEFINE B == Before(p, i)
               m == Len(p[i])
               c == p[i]
               C == Before(p, i + 1)
    <3>0. i \in 1 .. L /\ i + 1 \in i + 1 .. L + 1 /\ i + 1 \in 1 .. L + 1
      BY <1>1, <2>2
    <3>1. /\ c \in Seq(Byte) /\ m \in Nat /\ B \in Nat /\ C = B + m
          /\ C <= Len(f) /\ DOMAIN c = 1 .. m
          /\ \A k \in 1 .. m : f[B + k] = c[k]
      BY <1>1, <3>0, LenProperties
    <3>s. Saught(i) = {k \in 1 .. m : c[k] = byte}
      BY <3>1
    <3>a. After(i) = {n \in 0 .. Len(f) - 1 : B <= n /\ f[n + 1] = byte}
      OBVIOUS
    <3>b. After(i + 1) = {n \in 0 .. Len(f) - 1 : C <= n /\ f[n + 1] = byte}
      OBVIOUS
    <3> DEFINE U == Saught(i)
               V == After(i)
               W == After(i + 1)
    <3> HIDE DEF B, m, c, C, U, V, W, After
    <3>2. \A n \in V : n < C => n - B + 1 \in U
      <4> SUFFICES ASSUME NEW n \in V, n < C PROVE n - B + 1 \in U
        OBVIOUS
      <4>1. n \in Nat /\ B <= n /\ f[n + 1] = byte
        BY <1>1, <3>a DEF V
      <4>2. n - B + 1 \in 1 .. m /\ B + (n - B + 1) = n + 1
        BY <3>1, <4>1
      <4> QED BY <3>1, <3>s, <4>1, <4>2 DEF U
    <3>3. CASE U # {}
      <4> DEFINE k == Min(U)
                 n == B + k - 1
      <4>1. U \in SUBSET Nat
        BY <3>1, <3>s DEF U
      <4>2. k \in U /\ \A l \in U : k <= l
        BY <3>3, <4>1, LeastMember
      <4>3. k \in 1 .. m /\ c[k] = byte
        BY <3>s, <4>2 DEF U
      <4> HIDE DEF k
      <4>4. n \in Nat /\ n + 1 = B + k /\ n < C /\ B <= n /\ n \in 0 .. Len(f) - 1
        BY <1>1, <3>1, <4>3
      <4>5. f[B + k] = byte
        BY <3>1, <4>3
      <4> HIDE DEF n
      <4>6. n \in V
        BY <3>a, <4>4, <4>5 DEF V
      <4>7. \A l \in V : n <= l
        <5> SUFFICES ASSUME NEW l \in V PROVE n <= l
          OBVIOUS
        <5>0. l \in Int
          BY <1>1, <3>a DEF V
        <5>1. CASE l < C
          <6>1. k <= l - B + 1
            BY <3>2, <4>2, <5>1
          <6> QED BY <3>1, <4>3, <4>4, <5>0, <6>1
        <5>2. CASE ~ (l < C)
          BY <3>1, <4>4, <5>0, <5>2
        <5> QED BY <5>1, <5>2
      <4>8. V \in SUBSET Nat
        BY <1>1, <3>a DEF V
      <4>9. FirstOf(V) = n
        BY <4>6, <4>7, <4>8, FirstIs
      <4>10. Body(h, i) = B + k - 1
        BY <2>2, <3>3 DEF U, k, B
      <4> QED BY <4>9, <4>10 DEF n, V
    <3>4. CASE U = {}
      <4>1. V = W
        <5>1. \A n \in V : C <= n
          <6> SUFFICES ASSUME NEW n \in V PROVE C <= n
            OBVIOUS
          <6>1. n \in Int /\ C \in Int /\ ~ (n < C)
            BY <1>1, <3>1, <3>2, <3>4, <3>a DEF V
          <6> QED BY <6>1
        <5>2. \A n \in W : B <= n
          <6> SUFFICES ASSUME NEW n \in W PROVE B <= n
            OBVIOUS
          <6>1. n \in Int /\ C <= n
            BY <1>1, <3>b DEF W
          <6> QED BY <3>1, <6>1
        <5> QED BY <3>a, <3>b, <5>1, <5>2 DEF V, W
      <4>2. Body(h, i) = h[i + 1]
        BY <2>2, <3>4 DEF U
      <4>3. h[i + 1] = FirstOf(W)
        BY <1>2, <3>0 DEF W
      <4> QED BY <4>1, <4>2, <4>3 DEF V
    <3> QED BY <3>3, <3>4
  <2> QED BY <2>1, <2>2
<1> HIDE DEF Body, After
<1>3. g = Step(g)
  BY <1>2
<1>4. index_of(p, byte) = (CHOOSE h : h = Step(h))[1]
  BY DEF index_of, Body
<1>5. ASSUME NEW h, h = Step(h) PROVE h[1] = FirstOf(After(1))
  <2> DEFINE T == {i \in 1 .. L + 1 : h[i] = g[i]}
  <2>1. ASSUME NEW i \in 1 .. L + 1, \A j \in i + 1 .. L + 1 : j \in T
        PROVE  i \in T
    <3>1. \A j \in i + 1 .. L + 1 : h[j] = g[j]
      BY <2>1
    <3>2. Body(h, i) = FirstOf(After(i))
      BY <1>2, <3>1
    <3>3. h[i] = Body(h, i)
      BY <1>5
    <3>4. h[i] = g[i]
      BY <3>2, <3>3
    <3> QED BY <3>4
  <2> HIDE DEF T, g, Step
  <2>2. \A i \in 1 .. L + 1 : i \in T
    <3>1. 1 \in Nat /\ L + 1 \in Nat
      BY <1>1
    <3> QED BY ONLY <2>1, <3>1, WalkInduction
  <2>3. 1 \in 1 .. L + 1
    BY <1>1
  <2>4. h[1] = g[1]
    BY <2>2, <2>3 DEF T
  <2> QED BY <2>3, <2>4 DEF g
<1>6. index_of(p, byte) = FirstOf(After(1))
  <2> HIDE DEF Step, g
  <2> QED BY <1>3, <1>4, <1>5
<1>7. After(1) = Occurs(f, <<byte>>)
  <2>1. After(1) = {n \in 0 .. Len(f) - 1 : f[n + 1] = byte}
    BY <1>1 DEF After
  <2>2. Len(<<byte>>) = 1
    OBVIOUS
  <2>3. ASSUME NEW n \in 0 .. Len(f) - 1
        PROVE  (Slice(f, n, 1) = <<byte>>) <=> f[n + 1] = byte
    <3>1. n \in Nat /\ 1 \in Nat /\ n + 1 <= Len(f)
      BY <1>1
    <3>2. /\ Slice(f, n, 1) \in Seq(Byte) /\ Len(Slice(f, n, 1)) = 1
          /\ \A k \in 1 .. 1 : Slice(f, n, 1)[k] = f[n + k]
      BY ONLY <1>1, <3>1, SliceIs
    <3> DEFINE u == Slice(f, n, 1)
               v == <<byte>>
    <3>3. u[1] = f[n + 1] /\ v \in Seq(Byte) /\ Len(v) = 1 /\ v[1] = byte
      BY <3>2
    <3> HIDE DEF u, v
    <3>4. ASSUME f[n + 1] = byte PROVE u = v
      <4>1. \A k \in 1 .. Len(u) : u[k] = v[k]
        BY <3>2, <3>3, <3>4 DEF u
      <4> QED BY <3>2, <3>3, <4>1, SeqEqual DEF u
    <3>5. u = v => f[n + 1] = byte
      BY <3>3
    <3> QED BY <3>4, <3>5 DEF u, v
  <2> QED BY <2>1, <2>2, <2>3 DEF Occurs
<1> QED BY <1>6, <1>7 DEF f

-----------------------------------------------------------------------------
(* str_index_of.                                                           *)

(* What a byte of a string may be when it is compared.                     *)
Letter == Byte \cup {Negative}

LEMMA BytesAreLetters == Seq(Byte) \subseteq Seq(Letter)
BY DEF Letter

(* From its byte k on, s lies in f at a.                                   *)
Fits(f, a, s, k) ==
  /\ Len(s) - k <= Len(f) - a
  /\ Slice(f, a, Len(s) - k) = Slice(s, k, Len(s) - k)

SameAt(f, a, s, k, n) == Slice(f, a, n) = Slice(s, k, n)

(* Comparing c bytes first, and then the rest.                             *)
LEMMA SlicesSplit ==
  ASSUME NEW f \in Seq(Letter), NEW s \in Seq(Letter), NEW a \in Nat, NEW k \in Nat,
         NEW c \in Nat, NEW n \in Nat, NEW m, m = c + n, a + m <= Len(f), k + m <= Len(s),
         NEW aa, aa = a + c, NEW kk, kk = k + c
  PROVE  SameAt(f, a, s, k, m) <=> SameAt(f, a, s, k, c) /\ SameAt(f, aa, s, kk, n)
<1>0. Len(f) \in Nat /\ Len(s) \in Nat
  BY LenProperties
<1>1. /\ aa \in Nat /\ kk \in Nat /\ m \in Nat /\ a + m <= Len(f) /\ k + m <= Len(s)
      /\ a + c <= Len(f) /\ k + c <= Len(s) /\ aa + n <= Len(f) /\ kk + n <= Len(s)
  BY <1>0
<1>2. /\ \A i \in 1 .. c : i \in 1 .. m
      /\ \A i \in 1 .. n : c + i \in 1 .. m /\ a + (c + i) = aa + i /\ k + (c + i) = kk + i
      /\ \A i \in 1 .. m : i \in 1 .. c \/ (i - c \in 1 .. n /\ c + (i - c) = i)
  BY <1>0
<1>3. ASSUME Slice(f, a, m) = Slice(s, k, m)
      PROVE  Slice(f, a, c) = Slice(s, k, c) /\ Slice(f, aa, n) = Slice(s, kk, n)
  <2>1. Alike(f, a, s, k, m)
    BY <1>1, <1>3, AnySlicesAgree
  <2>2. Alike(f, a, s, k, c)
    BY <1>2, <2>1 DEF Alike
  <2>3. Alike(f, aa, s, kk, n)
    <3> SUFFICES ASSUME NEW i \in 1 .. n PROVE f[aa + i] = s[kk + i]
      BY DEF Alike
    <3>1. f[a + (c + i)] = s[k + (c + i)]
      BY <1>2, <2>1 DEF Alike
    <3> QED BY <1>2, <3>1
  <2> QED BY <1>1, <2>2, <2>3, AnySlicesEqual
<1>4. ASSUME Slice(f, a, c) = Slice(s, k, c), Slice(f, aa, n) = Slice(s, kk, n)
      PROVE  Slice(f, a, m) = Slice(s, k, m)
  <2>1. Alike(f, a, s, k, c) /\ Alike(f, aa, s, kk, n)
    BY <1>1, <1>4, AnySlicesAgree
  <2>2. Alike(f, a, s, k, m)
    <3> SUFFICES ASSUME NEW i \in 1 .. m PROVE f[a + i] = s[k + i]
      BY DEF Alike
    <3>1. CASE i \in 1 .. c
      BY <2>1, <3>1 DEF Alike
    <3>2. CASE ~ (i \in 1 .. c)
      <4> DEFINE l == i - c
      <4>1. l \in 1 .. n /\ c + l = i
        BY <1>2, <3>2
      <4> HIDE DEF l
      <4>2. a + i = aa + l /\ k + i = kk + l
        BY <1>2, <4>1
      <4>3. f[aa + l] = s[kk + l]
        BY <2>1, <4>1 DEF Alike
      <4> QED BY <4>2, <4>3
    <3> QED BY <3>1, <3>2
  <2> QED BY <1>1, <2>2, AnySlicesEqual
<1> QED BY <1>3, <1>4 DEF SameAt

LEMMA FitsSplit ==
  ASSUME NEW f \in Seq(Letter), NEW s \in Seq(Letter), NEW a \in Nat, NEW k \in Nat,
         NEW c \in Nat, a + c <= Len(f), k + c <= Len(s)
  PROVE  Fits(f, a, s, k) <=> Slice(f, a, c) = Slice(s, k, c) /\ Fits(f, a + c, s, k + c)
<1>0. Len(f) \in Nat /\ Len(s) \in Nat
  BY LenProperties
<1> DEFINE n == Len(s) - (k + c)
           m == Len(s) - k
           aa == a + c
           kk == k + c
<1>1. /\ n \in Nat /\ m = c + n /\ aa = a + c /\ kk = k + c
      /\ (m <= Len(f) - a) <=> (a + m <= Len(f))
      /\ (n <= Len(f) - aa) <=> (a + m <= Len(f))
      /\ k + m <= Len(s)
  BY <1>0
<1>2. Fits(f, aa, s, kk) <=> n <= Len(f) - aa /\ Slice(f, aa, n) = Slice(s, kk, n)
  BY DEF Fits
<1>3. Fits(f, a, s, k) <=> m <= Len(f) - a /\ Slice(f, a, m) = Slice(s, k, m)
  BY DEF Fits
<1> HIDE DEF n, m, aa, kk
<1>4. ASSUME a + m <= Len(f)
      PROVE  SameAt(f, a, s, k, m) <=> SameAt(f, a, s, k, c) /\ SameAt(f, aa, s, kk, n)
  <2>1. /\ f \in Seq(Letter) /\ s \in Seq(Letter) /\ a \in Nat /\ k \in Nat
        /\ c \in Nat /\ n \in Nat /\ m = c + n /\ a + m <= Len(f) /\ k + m <= Len(s)
        /\ aa = a + c /\ kk = k + c
    BY <1>1, <1>4
  <2> QED BY ONLY <2>1, SlicesSplit
<1>5. Fits(f, a, s, k) <=> Slice(f, a, c) = Slice(s, k, c) /\ Fits(f, aa, s, kk)
  BY <1>1, <1>2, <1>3, <1>4 DEF SameAt
<1> QED BY <1>5 DEF aa, kk

LEMMA FitsAtEnd ==
  ASSUME NEW f \in Seq(Letter), NEW s \in Seq(Letter), NEW a \in Nat, a <= Len(f)
  PROVE  Fits(f, a, s, Len(s))
<1>1. Len(f) \in Nat /\ Len(s) \in Nat /\ Len(s) - Len(s) = 0 /\ 0 <= Len(f) - a
  BY LenProperties
<1>2. Slice(f, a, 0) = <<>> /\ Slice(s, Len(s), 0) = <<>>
  BY <1>1, AnySliceWhole
<1> QED BY <1>1, <1>2 DEF Fits

(* One step of the comparison, at `at' in piece j, k bytes of s found.     *)
LEMMA OneComparison ==
  ASSUME NEW p \in PieceLists, NEW s \in Seq(Letter), NEW j \in 1 .. Len(p),
         NEW at \in 0 .. Len(p[j]), NEW k \in 0 .. Len(s),
         NEW c, c = Lesser(Len(p[j]) - at, Len(s) - k)
  PROVE  /\ k + c \in 0 .. Len(s)
         /\ Fits(FlattenSeq(p), Before(p, j) + at, s, k)
              <=> /\ Slice(p[j], at, c) = Slice(s, k, c)
                  /\ Fits(FlattenSeq(p), Before(p, j + 1), s, k + c)
<1> DEFINE f == FlattenSeq(p)
           B == Before(p, j)
           C == Before(p, j + 1)
           m == Len(p[j])
<1>1. /\ f \in Seq(Letter) /\ Len(f) \in Nat /\ p[j] \in Seq(Byte) /\ m \in Nat
      /\ B \in Nat /\ C = B + m /\ C \in Nat /\ C <= Len(f)
  <2>1. Len(p) \in Nat /\ j \in 1 .. Len(p) + 1 /\ j + 1 \in 1 .. Len(p) + 1
    <3>1. Len(p) \in Nat
      BY Laid, BytesAreLetters
    <3> QED BY ONLY <3>1, j \in 1 .. Len(p)
  <2> QED BY <2>1, Laid, BytesAreLetters
<1>2. Len(s) \in Nat
  BY LenProperties
<1> HIDE DEF f, B, C
<1>3. c \in Nat /\ at + c <= m /\ k + c <= Len(s) /\ (at + c = m \/ k + c = Len(s))
  <2> DEFINE n == Len(s)
  <2>1. /\ m \in Nat /\ n \in Nat /\ at \in 0 .. m /\ k \in 0 .. n
        /\ c = Lesser(m - at, n - k)
    BY <1>1, <1>2
  <2> HIDE DEF m, n
  <2>2. c \in Nat /\ at + c <= m /\ k + c <= n /\ (at + c = m \/ k + c = n)
    BY ONLY <2>1 DEF Lesser
  <2> QED BY <2>2 DEF n
<1>4. Slice(p[j], at, c) = Slice(f, B + at, c) /\ B + at \in Nat /\ B + at + c <= Len(f)
  <2>1. at \in Nat /\ at + c <= Len(p[j])
    BY <1>1, <1>3
  <2> QED BY <1>3, <2>1, SliceOfPiece DEF f, B
<1>5. Fits(f, B + at, s, k) <=> Slice(f, B + at, c) = Slice(s, k, c) /\ Fits(f, B + at + c, s, k + c)
  <2>1. k \in Nat
    BY <1>2
  <2> DEFINE a == B + at
  <2>2. a \in Nat /\ a + c <= Len(f)
    BY <1>4
  <2> HIDE DEF a, m
  <2>3. Fits(f, a, s, k) <=> Slice(f, a, c) = Slice(s, k, c) /\ Fits(f, a + c, s, k + c)
    <3>1. /\ f \in Seq(Letter) /\ s \in Seq(Letter) /\ a \in Nat /\ k \in Nat /\ c \in Nat
          /\ a + c <= Len(f) /\ k + c <= Len(s)
      BY <1>1, <1>3, <2>1, <2>2
    <3> QED BY ONLY <3>1, FitsSplit
  <2> QED BY <2>3 DEF a
<1>6. Fits(f, B + at + c, s, k + c) <=> Fits(f, C, s, k + c)
  <2>1. CASE at + c = m
    <3>1. B \in Int /\ at \in Int /\ c \in Int /\ m \in Int /\ C = B + m
      BY <1>1, <1>3
    <3> HIDE DEF m
    <3>2. B + at + c = C
      BY ONLY <2>1, <3>1
    <3> QED BY <3>2
  <2>2. CASE k + c = Len(s)
    <3>0. /\ B \in Nat /\ at \in Nat /\ c \in Nat /\ Len(f) \in Nat
          /\ B + at + c <= Len(f)
      BY <1>1, <1>3, <1>4
    <3>1. B + at + c \in Nat /\ B + at + c <= Len(f)
      BY ONLY <3>0
    <3>2. Fits(f, B + at + c, s, Len(s))
      BY <1>1, <3>1, FitsAtEnd
    <3>3. Fits(f, C, s, Len(s))
      BY <1>1, FitsAtEnd
    <3> QED BY <2>2, <3>2, <3>3
  <2> QED BY <1>3, <2>1, <2>2
<1>7. k + c \in 0 .. Len(s)
  <2>1. k \in 0 .. Len(s) /\ c \in Nat /\ k + c <= Len(s) /\ Len(s) \in Nat
    BY <1>2, <1>3
  <2> QED BY ONLY <2>1
<1> QED BY <1>4, <1>5, <1>6, <1>7 DEF f, B, C

(* The comparison of a guess finds out whether the string is there.        *)
LEMMA GuessIs ==
  ASSUME NEW p \in PieceLists, NEW s \in Seq(Letter), NEW i \in 1 .. Len(p),
         NEW off \in 0 .. Len(p[i])
  PROVE  GuessHolds(p, i, off, s) <=> Fits(FlattenSeq(p), Before(p, i) + off, s, 0)
<1> DEFINE f == FlattenSeq(p)
           L == Len(p)
           Common(j, at, k) == Lesser(Len(p[j]) - at, Len(s) - k)
           Same(j, at, k) == Slice(p[j], at, Common(j, at, k)) = Slice(s, k, Common(j, at, k))
           Body(h, j, k) ==
             \/ k = Len(s)
             \/ j <= L /\ Same(j, 0, k) /\ h[j + 1][k + Common(j, 0, k)]
           Step(h) == [j \in i + 1 .. L + 1 |-> [k \in 0 .. Len(s) |-> Body(h, j, k)]]
           Value(j, k) == Fits(f, Before(p, j), s, k)
           g == [j \in i + 1 .. L + 1 |-> [k \in 0 .. Len(s) |-> Value(j, k)]]
<1>1. /\ L \in Nat /\ f \in Seq(Letter) /\ Len(f) \in Nat /\ Before(p, L + 1) = Len(f)
      /\ \A j \in 1 .. L + 1 : Before(p, j) \in Nat /\ Before(p, j) <= Len(f)
      /\ \A j \in 1 .. L : Len(p[j]) \in Nat
  BY Laid, BytesAreLetters
<1>2. Len(s) \in Nat
  BY LenProperties
<1> HIDE DEF f
<1>3. ASSUME NEW h, NEW j \in i + 1 .. L + 1, \A l \in j + 1 .. L + 1 : h[l] = g[l],
             NEW k \in 0 .. Len(s)
      PROVE  Body(h, j, k) = Value(j, k)
  <2>0. j \in 1 .. L + 1 /\ Before(p, j) \in Nat /\ Before(p, j) <= Len(f)
    BY <1>1
  <2>1. CASE k = Len(s)
    <3>1. Value(j, k)
      BY <1>1, <2>0, <2>1, FitsAtEnd
    <3> QED BY <2>1, <3>1 DEF Fits
  <2>2. CASE k # Len(s) /\ j > L
    <3>0. j = L + 1 /\ Before(p, j) = Len(f)
      <4>1. j \in 1 .. L + 1 /\ j > L /\ L \in Nat
        BY <1>1, <2>0, <2>2
      <4>2. j = L + 1
        BY ONLY <4>1
      <4> QED BY <1>1, <4>2
    <3>1. ~ (Len(s) - k <= Len(f) - Before(p, j))
      <4>1. k \in 0 .. Len(s) /\ k # Len(s) /\ Before(p, j) = Len(f) /\ Len(f) \in Nat
        BY <1>1, <2>2, <3>0
      <4> QED BY ONLY <1>2, <4>1
    <3>2. ~ Value(j, k)
      BY <3>1 DEF Fits
    <3>3. ~ (j <= L)
      BY <1>1, <2>2
    <3> QED BY <2>2, <3>2, <3>3 DEF Fits
  <2>3. CASE k # Len(s) /\ ~ (j > L)
    <3>1. j \in 1 .. L /\ j + 1 \in j + 1 .. L + 1 /\ j + 1 \in i + 1 .. L + 1 /\ 0 \in 0 .. Len(p[j])
          /\ j <= L
      <4>1. L \in Nat /\ i \in 1 .. L /\ j \in i + 1 .. L + 1 /\ ~ (j > L)
        BY <1>1, <2>3
      <4>2. /\ j \in 1 .. L /\ j + 1 \in j + 1 .. L + 1 /\ j + 1 \in i + 1 .. L + 1
            /\ j <= L
        BY ONLY <4>1
      <4>3. Len(p[j]) \in Nat
        BY <1>1, <4>2
      <4> QED BY ONLY <4>2, <4>3
    <3> DEFINE c == Common(j, 0, k)
    <3>2. /\ k + c \in 0 .. Len(s)
          /\ Fits(f, Before(p, j) + 0, s, k)
               <=> Slice(p[j], 0, c) = Slice(s, k, c) /\ Fits(f, Before(p, j + 1), s, k + c)
      <4>1. c = Lesser(Len(p[j]) - 0, Len(s) - k)
        OBVIOUS
      <4> HIDE DEF c
      <4> QED BY <3>1, <4>1, OneComparison DEF f
    <3>3. h[j + 1][k + c] = Value(j + 1, k + c)
      <4>1. h[j + 1] = g[j + 1]
        BY <1>3, <3>1
      <4> HIDE DEF c, Value
      <4>2. k + c \in 0 .. Len(s) /\ j + 1 \in i + 1 .. L + 1
        BY <3>1, <3>2
      <4>3. g[j + 1][k + c] = Value(j + 1, k + c)
        BY <4>2
      <4> QED BY <4>1, <4>3
    <3>4. Before(p, j) + 0 = Before(p, j)
      BY <2>0
    <3>5. Body(h, j, k) <=> Slice(p[j], 0, c) = Slice(s, k, c) /\ h[j + 1][k + c]
      BY <2>3, <3>1
    <3>6. Body(h, j, k) <=> Value(j, k)
      <4>1. Value(j, k) <=> Fits(f, Before(p, j) + 0, s, k)
        BY <3>4
      <4>2. h[j + 1][k + c] = Fits(f, Before(p, j + 1), s, k + c)
        BY <3>3
      <4> HIDE DEF Body, Value, c
      <4> QED BY ONLY <3>2, <3>5, <4>1, <4>2, Zenon
    <3> QED BY <3>6 DEF Fits
  <2> QED BY <2>1, <2>2, <2>3
<1> HIDE DEF Body, Value
<1>4. g = Step(g)
  BY <1>3
<1>5. GuessHolds(p, i, off, s)
        <=> Same(i, off, 0) /\ (CHOOSE h : h = Step(h))[i + 1][Common(i, off, 0)]
  BY DEF GuessHolds, Body
<1>6. ASSUME NEW h, h = Step(h) PROVE \A k \in 0 .. Len(s) : h[i + 1][k] = Value(i + 1, k)
  <2> DEFINE T == {j \in i + 1 .. L + 1 : h[j] = g[j]}
  <2>1. ASSUME NEW j \in i + 1 .. L + 1, \A l \in j + 1 .. L + 1 : l \in T
        PROVE  j \in T
    <3>1. \A l \in j + 1 .. L + 1 : h[l] = g[l]
      BY <2>1
    <3>2. h[j] = [k \in 0 .. Len(s) |-> Body(h, j, k)]
      BY <1>6
    <3>3. \A k \in 0 .. Len(s) : Body(h, j, k) = Value(j, k)
      BY <1>3, <3>1
    <3>4. h[j] = g[j]
      BY <3>2, <3>3
    <3> QED BY <3>4
  <2> HIDE DEF T, g, Step
  <2>2. \A j \in i + 1 .. L + 1 : j \in T
    <3>1. i + 1 \in Nat /\ L + 1 \in Nat
      BY <1>1
    <3> QED BY ONLY <2>1, <3>1, WalkInduction
  <2>3. i + 1 \in i + 1 .. L + 1
    BY <1>1
  <2>4. h[i + 1] = g[i + 1]
    BY <2>2, <2>3 DEF T
  <2> QED BY <2>3, <2>4 DEF g
<1> DEFINE c == Common(i, off, 0)
<1>7. /\ 0 + c \in 0 .. Len(s)
      /\ Fits(f, Before(p, i) + off, s, 0)
           <=> Slice(p[i], off, c) = Slice(s, 0, c) /\ Fits(f, Before(p, i + 1), s, 0 + c)
  <2>1. c = Lesser(Len(p[i]) - off, Len(s) - 0) /\ 0 \in 0 .. Len(s)
    BY <1>2
  <2> HIDE DEF c
  <2> QED BY <2>1, OneComparison DEF f
<1>8. 0 + c = c
  <2>1. Len(p[i]) - off \in Int /\ Len(s) - 0 \in Int
    BY <1>1, <1>2
  <2>2. c \in Int
    BY <2>1, LesserIs
  <2> HIDE DEF c
  <2> QED BY <2>2
<1>9. (CHOOSE h : h = Step(h))[i + 1][c] = Fits(f, Before(p, i + 1), s, c)
  <2> HIDE DEF Step, g
  <2>1. c \in 0 .. Len(s)
    BY <1>7, <1>8
  <2> HIDE DEF c
  <2>2. (CHOOSE h : h = Step(h))[i + 1][c] = Value(i + 1, c)
    BY <1>4, <1>6, <2>1
  <2> QED BY <2>2 DEF Value
<1>10. GuessHolds(p, i, off, s)
         <=> Slice(p[i], off, c) = Slice(s, 0, c) /\ (CHOOSE h : h = Step(h))[i + 1][c]
  BY <1>5
<1> HIDE DEF c, Step
<1> QED BY <1>7, <1>8, <1>9, <1>10 DEF f

(* The good guesses are the places where the string is.                    *)
LEMMA GoodGuessesAre ==
  ASSUME NEW p \in PieceLists, NEW s \in Seq(Letter), s # <<>>
  PROVE  GoodGuesses(p, s) = Occurs(FlattenSeq(p), s)
<1> DEFINE f == FlattenSeq(p)
<1>1. /\ Len(p) \in Nat /\ f \in Seq(Letter) /\ Len(f) \in Nat
      /\ \A i \in 1 .. Len(p) + 1 : Before(p, i) \in Nat /\ Before(p, i) <= Len(f)
      /\ \A i \in 1 .. Len(p) : /\ Len(p[i]) \in Nat
                                /\ Before(p, i + 1) = Before(p, i) + Len(p[i])
  BY Laid, BytesAreLetters
<1>2. Len(s) \in Nat \ {0} /\ Slice(s, 0, Len(s)) = s /\ Len(s) - 0 = Len(s)
  BY LenProperties, EmptySeq, AnySliceWhole
<1>3. DOMAIN p = 1 .. Len(p)
  BY LenProperties DEF PieceLists
<1>4. \A n : Fits(f, n, s, 0) <=> Len(s) <= Len(f) - n /\ Slice(f, n, Len(s)) = s
  BY <1>2 DEF Fits
<1>5. ASSUME NEW i \in 1 .. Len(p), NEW o \in 0 .. Len(p[i]) - 1
      PROVE  GuessHolds(p, i, o, s) <=> Fits(f, Before(p, i) + o, s, 0)
  <2>1. o \in 0 .. Len(p[i])
    BY <1>1
  <2> QED BY <2>1, GuessIs
<1> HIDE DEF f
<1>6. GoodGuesses(p, s) \subseteq Occurs(f, s)
  <2> SUFFICES ASSUME NEW i \in 1 .. Len(p), NEW o \in 0 .. Len(p[i]) - 1,
                      GuessHolds(p, i, o, s)
               PROVE  Before(p, i) + o \in Occurs(f, s)
    BY <1>3 DEF GoodGuesses
  <2> DEFINE n == Before(p, i) + o
  <2>1. n \in Nat
    <3>1. Before(p, i) \in Nat /\ o \in Nat
      BY <1>1
    <3> QED BY <3>1
  <2>2. Fits(f, n, s, 0)
    BY <1>5
  <2> HIDE DEF n
  <2>3. Len(s) <= Len(f) - n /\ Slice(f, n, Len(s)) = s
    BY <1>4, <2>2
  <2>4. n \in 0 .. Len(f) - Len(s)
    BY <1>1, <1>2, <2>1, <2>3
  <2> QED BY <2>3, <2>4 DEF Occurs, n
<1>7. Occurs(f, s) \subseteq GoodGuesses(p, s)
  <2> SUFFICES ASSUME NEW n \in Occurs(f, s) PROVE n \in GoodGuesses(p, s)
    OBVIOUS
  <2>1. n \in 0 .. Len(f) - Len(s) /\ Slice(f, n, Len(s)) = s
    BY DEF Occurs
  <2>2. n \in Nat /\ n < Len(f) /\ Len(s) <= Len(f) - n
    BY <1>1, <1>2, <2>1
  <2>3. PICK i \in 1 .. Len(p) : Before(p, i) <= n /\ n < Before(p, i) + Len(p[i])
    BY <2>2, PlaceOf DEF f
  <2> DEFINE o == n - Before(p, i)
  <2>4. o \in 0 .. Len(p[i]) - 1 /\ Before(p, i) + o = n
    <3> DEFINE B == Before(p, i)
               m == Len(p[i])
    <3>1. B \in Nat /\ m \in Nat
      BY <1>1
    <3>2. n \in Nat /\ B <= n /\ n < B + m
      BY <2>2, <2>3
    <3> HIDE DEF B, m
    <3>3. n - B \in 0 .. m - 1 /\ B + (n - B) = n
      BY ONLY <3>1, <3>2
    <3> QED BY <3>3 DEF B, m
  <2> HIDE DEF o
  <2>5. GuessHolds(p, i, o, s)
    BY <1>4, <1>5, <2>1, <2>2, <2>4
  <2>6. n \in {Before(p, i) + off : off \in {oo \in 0 .. Len(p[i]) - 1 : GuessHolds(p, i, oo, s)}}
    BY <2>4, <2>5
  <2> QED BY <1>3, <2>6 DEF GoodGuesses
<1>8. GoodGuesses(p, s) = Occurs(f, s)
  BY <1>6, <1>7
<1> QED BY <1>8 DEF f

(* As chars, a string of plain bytes is itself; another one is nowhere,    *)
(* because no byte of a buffer is negative.                                *)
LEMMA CharsAre ==
  ASSUME NEW s \in Seq(Byte), s # <<>>, High \subseteq Byte
  PROVE  /\ Chars(s) \in Seq(Letter) /\ Chars(s) # <<>>
         /\ Ascii(s) => Chars(s) = s
         /\ Negative \notin Byte /\ ~ Ascii(s) =>
              \A f \in Seq(Byte) : Occurs(f, Chars(s)) = {}
<1> DEFINE n == Len(s)
           c == Chars(s)
<1>1. n \in Nat \ {0} /\ DOMAIN s = 1 .. n /\ \A k \in 1 .. n : s[k] \in Byte
  BY LenProperties, EmptySeq, ElementOfSeq
<1>2. c = [k \in 1 .. n |-> IF s[k] \in High THEN Negative ELSE s[k]]
  BY DEF Chars
<1> HIDE DEF n, c
<1>3. c \in [1 .. n -> Letter]
  BY <1>1, <1>2 DEF Letter
<1>4. c \in Seq(Letter) /\ Len(c) = n
  BY <1>1, <1>3, FunctionIsSeq
<1>5. c # <<>>
  BY <1>1, <1>4, EmptySeq
<1>6. ASSUME Ascii(s) PROVE c = s
  <2>1. \A k \in 1 .. n : c[k] = s[k]
    BY <1>1, <1>2, <1>6 DEF Ascii
  <2>2. s \in Seq(Letter) /\ Len(s) = Len(c)
    BY <1>4, BytesAreLetters DEF n
  <2> QED BY <1>4, <2>1, <2>2, SeqEqual
<1>7. ASSUME NEW f \in Seq(Byte), Negative \notin Byte, ~ Ascii(s),
             NEW m \in Occurs(f, c)
      PROVE  FALSE
  <2>1. PICK k \in 1 .. n : s[k] \in High
    BY <1>1, <1>7 DEF Ascii
  <2>2. c[k] = Negative
    BY <1>2, <2>1
  <2>3. Len(f) \in Nat /\ m \in 0 .. Len(f) - n /\ Slice(f, m, n) = c
    BY <1>4, <1>7, LenProperties DEF Occurs
  <2>4. m \in Nat /\ m + n <= Len(f)
    BY <1>1, <2>3
  <2>5. Slice(f, m, n) \in Seq(Byte) /\ Len(Slice(f, m, n)) = n
    BY <1>1, <2>4, SliceIs
  <2>6. c[k] \in Byte
    BY <2>1, <2>3, <2>5, ElementOfSeq
  <2> QED BY <1>7, <2>2, <2>6
<1> QED BY <1>4, <1>5, <1>6, <1>7 DEF c

(* The first good guess is the first place where the string is.            *)
LEMMA StrIndexIs ==
  ASSUME NEW p \in PieceLists, NEW s \in Seq(Byte), s # <<>>,
         High \subseteq Byte, Negative \notin Byte
  PROVE  str_index_of(p, s) = IF Ascii(s) THEN FirstOf(Occurs(FlattenSeq(p), s)) ELSE Absent
<1>1. str_index_of(p, s) = FirstOf(Occurs(FlattenSeq(p), Chars(s)))
  <2>1. GoodGuesses(p, Chars(s)) = Occurs(FlattenSeq(p), Chars(s))
    BY CharsAre, GoodGuessesAre
  <2> QED BY <2>1 DEF str_index_of, FirstOf
<1>2. CASE Ascii(s)
  <2>1. Chars(s) = s
    BY <1>2, CharsAre
  <2> QED BY <1>1, <1>2, <2>1
<1>3. CASE ~ Ascii(s)
  <2>1. FlattenSeq(p) \in Seq(Byte)
    BY Laid
  <2>2. Occurs(FlattenSeq(p), Chars(s)) = {}
    BY <1>3, <2>1, CharsAre
  <2> QED BY <1>1, <1>3, <2>2 DEF FirstOf
<1> QED BY <1>2, <1>3

-----------------------------------------------------------------------------
(* find_fragment, and the calls that are given a place.                    *)

LEMMA FindIs ==
  ASSUME NEW p \in PieceLists, NEW n \in Nat, n < Len(FlattenSeq(p))
  PROVE  \E i \in 1 .. Len(p) :
           /\ find_fragment(p, n) = [frag |-> i, frag_offset |-> Before(p, i)]
           /\ Before(p, i) <= n /\ (n = Before(p, i) \/ n < Before(p, i) + Len(p[i]))
<1> DEFINE L == Len(p)
           D == 1 .. L + 1
           R == 0 .. n
           X == [frag : Int, frag_offset : Int]
           V == [R -> X]
           Body(h, i, k) ==
             IF k = n \/ (i <= L /\ n < k + Len(p[i])) THEN [frag |-> i, frag_offset |-> k]
             ELSE IF i > L THEN [frag |-> Wild, frag_offset |-> Wild]
             ELSE h[i + 1][k + Len(p[i])]
           Step(h) == [i \in D |-> [k \in R |-> Body(h, i, k)]]
           F == [h \in [D -> V] |-> Step(h)]
<1>1. /\ L \in Nat /\ Before(p, 1) = 0 /\ Before(p, L + 1) = Len(FlattenSeq(p))
      /\ \A i \in D : Before(p, i) \in Nat
      /\ \A i \in 1 .. L : Len(p[i]) \in Nat /\ Before(p, i + 1) = Before(p, i) + Len(p[i])
  BY Laid
<1>d. \A i \in D : i > L \/ (i \in 1 .. L /\ i + 1 \in D /\ i + 1 \in i + 1 .. L + 1)
  BY <1>1
<1>2. ASSUME NEW i \in D, NEW k \in R, ~ (k = n \/ (i <= L /\ n < k + Len(p[i]))), ~ (i > L)
      PROVE  i \in 1 .. L /\ i + 1 \in D /\ k + Len(p[i]) \in R
  <2>1. i \in 1 .. L /\ i + 1 \in D /\ i <= L
    BY <1>1, <1>2
  <2>2. Len(p[i]) \in Nat /\ ~ (n < k + Len(p[i]))
    BY <1>1, <1>2, <2>1
  <2> QED BY <2>1, <2>2
<1>3. ASSUME NEW h \in [D -> V], NEW i \in D, NEW k \in R
      PROVE  Body(h, i, k) \in X
  <2>1. i \in Int /\ k \in Int /\ Wild \in Int
    BY <1>1 DEF Wild
  <2>2. CASE k = n \/ (i <= L /\ n < k + Len(p[i]))
    BY <2>1, <2>2
  <2>3. CASE ~ (k = n \/ (i <= L /\ n < k + Len(p[i]))) /\ i > L
    BY <2>1, <2>3
  <2>4. CASE ~ (k = n \/ (i <= L /\ n < k + Len(p[i]))) /\ ~ (i > L)
    <3>1. i + 1 \in D /\ k + Len(p[i]) \in R
      BY <1>2, <2>4
    <3> HIDE DEF D, R, X
    <3>2. h[i + 1][k + Len(p[i])] \in X
      BY <3>1
    <3>3. Body(h, i, k) = h[i + 1][k + Len(p[i])]
      BY <2>4
    <3> QED BY <3>2, <3>3
  <2> QED BY <2>2, <2>3, <2>4
<1>4. ASSUME NEW h, NEW e, NEW i \in D, \A j \in i + 1 .. L + 1 : h[j] = e[j], NEW k \in R
      PROVE  Body(h, i, k) = Body(e, i, k)
  <2>1. ~ (i > L) => h[i + 1] = e[i + 1]
    BY <1>d, <1>4
  <2> HIDE DEF D, R, X
  <2> QED BY <2>1
<1>5. \E h \in [D -> V] : h = Step(h)
  <2>1. F \in [[D -> V] -> [D -> V]]
    <3> HIDE DEF Body, D, R, X
    <3> QED BY <1>3
  <2>2. ASSUME NEW h \in [D -> V], NEW e \in [D -> V], NEW i \in D,
               \A j \in i + 1 .. L + 1 : h[j] = e[j]
        PROVE  F[h][i] = F[e][i]
    <3> HIDE DEF Body, D, R, X, V
    <3>1. \A k \in R : Body(h, i, k) = Body(e, i, k)
      BY <1>4, <2>2
    <3> QED BY <3>1
  <2>3. V # {}
    <3>1. [k \in R |-> [frag |-> 0, frag_offset |-> 0]] \in V
      OBVIOUS
    <3> QED BY <3>1
  <2>4. \E h \in [D -> V] : h = F[h]
    <3>1. 1 \in Nat /\ L + 1 \in Nat
      BY <1>1
    <3> HIDE DEF F, V, L
    <3>2. Walks(F, 1, L + 1, V)
      BY <2>1, <2>2, <2>3 DEF Walks
    <3> QED BY ONLY <3>1, <3>2, WalkExists
  <2>5. \A h \in [D -> V] : F[h] = Step(h)
    <3> HIDE DEF Step, V
    <3> QED OBVIOUS
  <2> HIDE DEF F, Step, V
  <2> QED BY <2>4, <2>5
<1> DEFINE At == CHOOSE h : h = Step(h)
<1>6. find_fragment(p, n) = At[1][0]
  BY DEF find_fragment
<1>7. At = Step(At)
  <2> HIDE DEF Step
  <2> QED BY <1>5
<1> HIDE DEF At
<1>8. \A i \in D, k \in R : At[i][k] = Body(At, i, k)
  <2> HIDE DEF Body, D, R
  <2> QED BY <1>7
<1> DEFINE Right(i) ==
             Before(p, i) <= n =>
               \E j \in 1 .. L :
                 /\ At[i][Before(p, i)] = [frag |-> j, frag_offset |-> Before(p, j)]
                 /\ Before(p, j) <= n /\ (n = Before(p, j) \/ n < Before(p, j) + Len(p[j]))
           T == {i \in D : Right(i)}
<1>9. ASSUME NEW i \in D, \A j \in i + 1 .. L + 1 : j \in T, Before(p, i) <= n
      PROVE  Right(i)
  <2> DEFINE B == Before(p, i)
  <2>1. i \in 1 .. L /\ i + 1 \in D /\ i + 1 \in i + 1 .. L + 1 /\ i <= L /\ ~ (i > L)
    BY <1>1, <1>9
  <2>2. B \in R /\ B \in Nat /\ Len(p[i]) \in Nat /\ Before(p, i + 1) = B + Len(p[i])
    BY <1>1, <1>9, <2>1
  <2>3. At[i][B] = Body(At, i, B)
    BY <1>8, <2>2
  <2>4. CASE B = n \/ n < B + Len(p[i])
    <3>1. At[i][B] = [frag |-> i, frag_offset |-> B]
      BY <2>1, <2>3, <2>4
    <3> QED BY <1>9, <2>1, <2>4, <3>1
  <2>5. CASE ~ (B = n \/ n < B + Len(p[i]))
    <3>1. Before(p, i + 1) <= n
      BY <2>2, <2>5
    <3>2. At[i][B] = At[i + 1][Before(p, i + 1)]
      BY <2>1, <2>2, <2>3, <2>5
    <3>3. Right(i + 1)
      BY <1>9, <2>1
    <3> HIDE DEF D
    <3> QED BY <3>1, <3>2, <3>3
  <2> QED BY <2>4, <2>5
<1>10. \A i \in 1 .. L + 1 : i \in T
  <2>1. ASSUME NEW i \in 1 .. L + 1, \A j \in i + 1 .. L + 1 : j \in T PROVE i \in T
    <3> HIDE DEF Right
    <3>1. CASE Before(p, i) <= n
      BY <1>9, <2>1, <3>1
    <3>2. CASE ~ (Before(p, i) <= n)
      BY <3>2 DEF Right
    <3> QED BY <3>1, <3>2
  <2>2. 1 \in Nat /\ L + 1 \in Nat
    BY <1>1
  <2> HIDE DEF T
  <2> QED BY ONLY <2>1, <2>2, WalkInduction
<1>11. Right(1)
  <2>1. 1 \in 1 .. L + 1
    BY <1>1
  <2> HIDE DEF Right
  <2> QED BY <1>10, <2>1
<1> QED BY <1>1, <1>6, <1>11

(* A byte asked for by its place.                                          *)
LEMMA PlacesRight ==
  ASSUME NEW p \in PieceLists
  PROVE  PlacesAgree(p, FlattenSeq(p))
<1> DEFINE f == FlattenSeq(p)
<1>0. Len(f) \in Nat
  BY Laid
<1> SUFFICES ASSUME NEW n \in 0 .. Len(f) - 1
             PROVE  LET at == find_fragment(p, n)
                    IN /\ at.frag_offset = Before(p, at.frag)
                       /\ p[at.frag] # <<>> => get_byte_at(p, n) = f[n + 1]
  BY DEF PlacesAgree
<1>1. n \in Nat /\ n < Len(f)
  BY <1>0
<1>2. PICK i \in 1 .. Len(p) :
        /\ find_fragment(p, n) = [frag |-> i, frag_offset |-> Before(p, i)]
        /\ Before(p, i) <= n /\ (n = Before(p, i) \/ n < Before(p, i) + Len(p[i]))
  BY <1>1, FindIs
<1>3. /\ Len(p) \in Nat /\ p[i] \in Seq(Byte) /\ Len(p[i]) \in Nat /\ Before(p, i) \in Nat
      /\ \A k \in 1 .. Len(p[i]) : f[Before(p, i) + k] = p[i][k]
  BY Laid
<1> HIDE DEF f
<1>4. ASSUME p[i] # <<>> PROVE get_byte_at(p, n) = f[n + 1]
  <2>1. Len(p[i]) > 0
    BY <1>3, <1>4, EmptySeq
  <2> DEFINE off == n - Before(p, i)
  <2>2. off < Len(p[i]) /\ off + 1 \in 1 .. Len(p[i]) /\ Before(p, i) + (off + 1) = n + 1
    <3> DEFINE B == Before(p, i)
               m == Len(p[i])
    <3>1. /\ B \in Nat /\ m \in Nat /\ n \in Nat /\ m > 0
          /\ B <= n /\ (n = B \/ n < B + m)
      BY <1>1, <1>2, <1>3, <2>1
    <3> HIDE DEF B, m
    <3>2. n - B < m /\ (n - B) + 1 \in 1 .. m /\ B + ((n - B) + 1) = n + 1
      BY ONLY <3>1
    <3> QED BY <3>2 DEF B, m
  <2>3. get_byte_at(p, n) = ByteIn(p[i], off)
    BY <1>2 DEF get_byte_at
  <2> HIDE DEF off
  <2>4. ByteIn(p[i], off) = p[i][off + 1]
    BY <2>2 DEF ByteIn
  <2> QED BY <1>3, <2>2, <2>3, <2>4
<1> QED BY <1>2, <1>4

(* A copy, and a step, inside one fragment.                                *)
LEMMA CopiesRight ==
  ASSUME NEW p \in PieceLists
  PROVE  CopiesAgree(p, FlattenSeq(p))
<1> DEFINE f == FlattenSeq(p)
<1>1. Len(f) \in Nat /\ DOMAIN p = 1 .. Len(p)
  BY Laid, LenProperties DEF PieceLists
<1>2. \A n \in 0 .. Len(f) + 1 : peek(p, n) = Slice(f, 0, Lesser(n, Len(f)))
  <2>1. 0 .. Len(f) + 1 \subseteq Nat
    BY <1>1
  <2> QED BY <2>1, PeekIs
<1>3. ASSUME NEW i \in 1 .. Len(p), NEW off \in 0 .. Len(p[i]) - 1,
             NEW n \in 0 .. Len(p[i]) - off
      PROVE  /\ fragment_peek(p, i, off, n) = Slice(f, Before(p, i) + off, n)
             /\ fragment_advance(p, i, off, n) = [ok |-> TRUE, frag |-> i, offset |-> off + n]
  <2>1. Len(p[i]) \in Nat
    BY Laid
  <2>2. /\ off \in Nat /\ n \in Nat /\ Len(p[i]) # off
        /\ Len(p[i]) >= n + off /\ Len(p[i]) >= off + n /\ off + n <= Len(p[i])
    BY <2>1
  <2>3. fragment_peek(p, i, off, n) = Slice(p[i], off, n)
    BY <2>2 DEF fragment_peek
  <2>4. Slice(p[i], off, n) = Slice(f, Before(p, i) + off, n)
    BY <2>2, SliceOfPiece
  <2>5. fragment_advance(p, i, off, n) = [ok |-> TRUE, frag |-> i, offset |-> off + n]
    BY <2>2 DEF fragment_advance
  <2> QED BY <2>3, <2>4, <2>5
<1> QED BY <1>1, <1>2, <1>3 DEF CopiesAgree

-----------------------------------------------------------------------------
(* polystr_index_of.                                                       *)

Answers == {0, 1, Wild}

(* What fragment_n_str says of a place inside a fragment.                  *)
LEMMA FragmentStrIs ==
  ASSUME NEW p \in PieceLists, NEW i \in 1 .. Len(p), NEW o \in 0 .. Len(p[i]) - 1,
         NEW s \in Seq(Byte), s # <<>>
  PROVE  /\ fragment_n_str(p, i, o, s) \in Answers
         /\ Inside(p, i, o, s) => fragment_n_str(p, i, o, s) = 1
         /\ fragment_n_str(p, i, o, s) = 1 => Begins(p, i, o, s)
         /\ fragment_n_str(p, i, o, s) = Wild => Begins(p, i, o, s) /\ ~ Inside(p, i, o, s)
<1> DEFINE L == Len(p)
           D == i .. L + 1
           R == 0 .. Len(s)
           V == [Nat -> [R -> Answers]]
           test_len(j, at, k) == Lesser(Len(p[j]) - at, Len(s) - k)
           Body(h, j, at, k) ==
             IF j > L THEN 0
             ELSE IF test_len(j, at, k) < 0 THEN Wild
             ELSE IF Slice(p[j], at, test_len(j, at, k)) # Slice(s, k, test_len(j, at, k)) THEN 0
             ELSE IF k + test_len(j, at, k) = Len(s) THEN 1
             ELSE h[j + 1][at + test_len(j, at, k)][k + test_len(j, at, k)]
           Step(h) == [j \in D |-> [at \in Nat |-> [k \in R |-> Body(h, j, at, k)]]]
           F == [h \in [D -> V] |-> Step(h)]
<1>1. L \in Nat /\ Len(s) \in Nat \ {0} /\ \A j \in 1 .. L : Len(p[j]) \in Nat
  BY Laid, LenProperties, EmptySeq
<1>d. \A j \in D : j > L \/ (j \in 1 .. L /\ j + 1 \in D /\ j + 1 \in j + 1 .. L + 1)
  BY <1>1
<1>2. ASSUME NEW h, NEW j \in D, j > L \/ h[j + 1] \in V, NEW at \in Nat, NEW k \in R
      PROVE  Body(h, j, at, k) \in Answers
  <2> DEFINE t == test_len(j, at, k)
  <2>1. CASE j > L \/ t < 0 \/ Slice(p[j], at, t) # Slice(s, k, t) \/ k + t = Len(s)
    BY <2>1 DEF Answers
  <2>2. CASE ~ (j > L \/ t < 0 \/ Slice(p[j], at, t) # Slice(s, k, t) \/ k + t = Len(s))
    <3>1. Len(p[j]) - at \in Int /\ Len(s) - k \in Int
      <4>1. Len(p[j]) \in Nat
        BY <1>1, <1>d, <2>2
      <4> QED BY <1>1, <4>1
    <3>2. t \in Int /\ t <= Len(s) - k
      BY <3>1, LesserIs
    <3>3. at + t \in Nat /\ k + t \in R
      <4> HIDE DEF t
      <4>1. ~ (t < 0)
        BY <2>2
      <4> QED BY <1>1, <3>2, <4>1
    <3>4. Body(h, j, at, k) = h[j + 1][at + t][k + t]
      BY <2>2
    <3> HIDE DEF t, Body, R
    <3>5. h[j + 1][at + t][k + t] \in Answers
      BY <1>2, <2>2, <3>3
    <3> QED BY <3>4, <3>5
  <2> QED BY <2>1, <2>2
<1>3. ASSUME NEW h, NEW e, NEW j \in D, \A l \in j + 1 .. L + 1 : h[l] = e[l],
             NEW at \in Nat, NEW k \in R
      PROVE  Body(h, j, at, k) = Body(e, j, at, k)
  <2>1. ~ (j > L) => h[j + 1] = e[j + 1]
    BY <1>d, <1>3
  <2> HIDE DEF D, R, test_len
  <2> QED BY <2>1
<1>4. ASSUME NEW h, NEW j \in D, j > L \/ h[j + 1] \in V
      PROVE  [at \in Nat |-> [k \in R |-> Body(h, j, at, k)]] \in V
  <2> HIDE DEF Body, D, R
  <2> QED BY <1>2, <1>4
<1>5. \E h \in [D -> V] : h = Step(h)
  <2>1. F \in [[D -> V] -> [D -> V]]
    <3>1. ASSUME NEW h \in [D -> V] PROVE Step(h) \in [D -> V]
      <4>1. \A j \in D : j > L \/ h[j + 1] \in V
        BY <1>d
      <4> HIDE DEF Body, D, R, V
      <4> QED BY <1>4, <4>1
    <3> HIDE DEF Step, V
    <3> QED BY <3>1
  <2>2. ASSUME NEW h \in [D -> V], NEW e \in [D -> V], NEW j \in D,
               \A l \in j + 1 .. L + 1 : h[l] = e[l]
        PROVE  F[h][j] = F[e][j]
    <3> HIDE DEF Body, D, R, V
    <3>1. \A at \in Nat, k \in R : Body(h, j, at, k) = Body(e, j, at, k)
      BY <1>3, <2>2
    <3> QED BY <3>1
  <2>3. V # {}
    <3>1. [at \in Nat |-> [k \in R |-> 0]] \in V
      BY DEF Answers
    <3> QED BY <3>1
  <2>4. \E h \in [D -> V] : h = F[h]
    <3>1. i \in Nat /\ L + 1 \in Nat
      BY <1>1
    <3> HIDE DEF F, V, L
    <3>2. Walks(F, i, L + 1, V)
      BY <2>1, <2>2, <2>3 DEF Walks
    <3> QED BY ONLY <3>1, <3>2, WalkExists
  <2>5. \A h \in [D -> V] : F[h] = Step(h)
    <3> HIDE DEF Step, V
    <3> QED OBVIOUS
  <2> HIDE DEF F, Step, V
  <2> QED BY <2>4, <2>5
<1> DEFINE At == CHOOSE h : h = Step(h)
<1>6. fragment_n_str(p, i, o, s) = At[i][o][0]
  BY DEF fragment_n_str
<1>7. At = Step(At)
  <2> HIDE DEF Step
  <2> QED BY <1>5
<1> HIDE DEF At
<1>8. \A j \in D : At[j] = [at \in Nat |-> [k \in R |-> Body(At, j, at, k)]]
  <2> HIDE DEF Body, D, R
  <2> QED BY <1>7
<1>9. \A j \in i .. L + 1 : At[j] \in V
  <2> DEFINE T == {j \in D : At[j] \in V}
  <2>1. ASSUME NEW j \in i .. L + 1, \A l \in j + 1 .. L + 1 : l \in T PROVE j \in T
    <3>1. j > L \/ At[j + 1] \in V
      <4> HIDE DEF V
      <4> QED BY <1>d, <2>1
    <3> HIDE DEF V, Body, R
    <3>2. [at \in Nat |-> [k \in R |-> Body(At, j, at, k)]] \in V
      BY <1>4, <3>1
    <3>3. At[j] \in V
      BY <1>8, <3>2
    <3> QED BY <3>3
  <2>2. i \in Nat /\ L + 1 \in Nat
    BY <1>1
  <2> HIDE DEF T
  <2>3. \A j \in i .. L + 1 : j \in T
    BY ONLY <2>1, <2>2, WalkInduction
  <2> QED BY <2>3 DEF T
<1> DEFINE t == Part(p, i, o, s)
           a == fragment_n_str(p, i, o, s)
<1>10. i \in D /\ ~ (i > L) /\ o \in Nat /\ 0 \in R
  BY <1>1
<1>11. a = Body(At, i, o, 0)
  <2> HIDE DEF Body, D, R
  <2>1. At[i] = [at \in Nat |-> [k \in R |-> Body(At, i, at, k)]]
    BY <1>8, <1>10
  <2> QED BY <1>6, <1>10, <2>1
<1>12. a \in Answers
  <2>1. i > L \/ At[i + 1] \in V
    <3> HIDE DEF V
    <3> QED BY <1>9, <1>d, <1>10
  <2> HIDE DEF V, Body
  <2> QED BY <1>2, <1>10, <1>11, <2>1
<1>13. /\ t \in Nat \ {0} /\ test_len(i, o, 0) = t /\ 0 + t = t
       /\ ~ (t < 0)
  <2>1. Len(p[i]) \in Nat /\ Len(s) \in Nat \ {0} /\ o \in 0 .. Len(p[i]) - 1
    BY <1>1
  <2>2. test_len(i, o, 0) = t
    <3>1. test_len(i, o, 0) = Lesser(Len(p[i]) - o, Len(s) - 0)
      OBVIOUS
    <3>2. t = Lesser(Len(s), Len(p[i]) - o)
      BY DEF Part
    <3> QED BY ONLY <2>1, <3>1, <3>2 DEF Lesser
  <2>3. t \in Nat \ {0}
    BY <2>1 DEF Part, Lesser
  <2> HIDE DEF t, test_len
  <2> QED BY <2>2, <2>3
<1>14. a = IF Slice(p[i], o, t) # Slice(s, 0, t) THEN 0
           ELSE IF t = Len(s) THEN 1 ELSE At[i + 1][o + t][0 + t]
  <2> HIDE DEF t, test_len, a
  <2> QED BY <1>10, <1>11, <1>13
<1>15. Begins(p, i, o, s) <=> Slice(p[i], o, t) = Slice(s, 0, t)
  BY DEF Begins
<1>16. Inside(p, i, o, s) <=> Begins(p, i, o, s) /\ t = Len(s)
  BY DEF Inside
<1> HIDE DEF t, a
<1>17. Wild # 0 /\ Wild # 1
  BY DEF Wild
<1> QED BY <1>12, <1>14, <1>15, <1>16, <1>17 DEF a

(* A string that begins at a place has its first byte there.               *)
LEMMA FirstByte ==
  ASSUME NEW p \in PieceLists, NEW i \in 1 .. Len(p), NEW o \in 0 .. Len(p[i]) - 1,
         NEW s \in Seq(Byte), s # <<>>, Begins(p, i, o, s)
  PROVE  p[i][o + 1] = s[1]
<1> DEFINE t == Part(p, i, o, s)
<1>1. /\ p[i] \in Seq(Byte) /\ Len(p[i]) \in Nat /\ Len(s) \in Nat \ {0} /\ o \in Nat
      /\ 0 \in Nat
  BY Laid, LenProperties, EmptySeq
<1>2. t \in Nat /\ 1 \in 1 .. t /\ o + t <= Len(p[i]) /\ 0 + t <= Len(s)
  <2>1. Len(p[i]) - o \in Nat /\ Len(p[i]) - o >= 1
    BY <1>1
  <2> QED BY <1>1, <2>1 DEF Part, Lesser
<1>3. Slice(p[i], o, t) = Slice(s, 0, t)
  BY DEF Begins
<1> HIDE DEF t
<1>4. Alike(p[i], o, s, 0, t)
  BY ONLY <1>1, <1>2, <1>3, SlicesAgree, s \in Seq(Byte)
<1>5. p[i][o + 1] = s[0 + 1]
  BY <1>2, <1>4 DEF Alike
<1> QED BY <1>5

(* The strings that are looked for.                                        *)
StringLists == {l \in Seq(Seq(Byte)) : \A k \in 1 .. Len(l) : l[k] # <<>>}

LEMMA Strings ==
  ASSUME NEW strings \in StringLists
  PROVE  /\ DOMAIN strings = 1 .. Len(strings) /\ Len(strings) \in Nat
         /\ Range(strings) = {strings[k] : k \in 1 .. Len(strings)}
         /\ \A s \in Range(strings) : s \in Seq(Byte) /\ s # <<>>
<1>1. strings \in Seq(Seq(Byte)) /\ \A k \in 1 .. Len(strings) : strings[k] # <<>>
  BY DEF StringLists
<1>2. DOMAIN strings = 1 .. Len(strings) /\ Len(strings) \in Nat
  BY <1>1, LenProperties
<1>3. \A k \in 1 .. Len(strings) : strings[k] \in Seq(Byte)
  BY <1>1, ElementOfSeq
<1>4. Range(strings) = {strings[k] : k \in 1 .. Len(strings)}
  BY <1>2 DEF Range
<1> QED BY <1>1, <1>2, <1>3, <1>4

Tests(p, i, o, strings) == [k \in DOMAIN strings |-> fragment_n_str(p, i, o, strings[k])]
Told(tests) == SelectInSeq(tests, LAMBDA answer : answer # 0)

(* What the strings' answers say of a place inside a fragment.             *)
LEMMA ToldIs ==
  ASSUME NEW p \in PieceLists, NEW i \in 1 .. Len(p), NEW o \in 0 .. Len(p[i]) - 1,
         NEW strings \in StringLists,
         NEW tests, tests = Tests(p, i, o, strings), NEW told, told = Told(tests)
  PROVE  /\ told = 0 => \A s \in Range(strings) : ~ Inside(p, i, o, s)
         /\ told # 0 => /\ \E s \in Range(strings) : Begins(p, i, o, s)
                        /\ tests[told] = Wild =>
                             \E s \in Range(strings) : Begins(p, i, o, s) /\ ~ Inside(p, i, o, s)
<1> DEFINE n == Len(strings)
           I == {k \in 1 .. n : tests[k] # 0}
<1>1. /\ DOMAIN strings = 1 .. n /\ n \in Nat /\ Range(strings) = {strings[k] : k \in 1 .. n}
      /\ \A s \in Range(strings) : s \in Seq(Byte) /\ s # <<>>
  BY Strings
<1>2. \A k \in 1 .. n : tests[k] = fragment_n_str(p, i, o, strings[k])
  BY <1>1 DEF Tests
<1>3. Len(tests) = n
  <2>1. tests = [k \in 1 .. n |-> fragment_n_str(p, i, o, strings[k])]
    BY <1>1 DEF Tests
  <2> HIDE DEF n
  <2>2. DOMAIN tests = 1 .. n
    BY <2>1
  <2> QED BY <1>1, <2>1
<1>4. told = IF I # {} THEN Min(I) ELSE 0
  BY <1>3 DEF Told, SelectInSeq
<1>5. ASSUME NEW k \in 1 .. n
      PROVE  /\ strings[k] \in Range(strings) /\ tests[k] \in Answers
             /\ Inside(p, i, o, strings[k]) => tests[k] = 1
             /\ tests[k] = 1 => Begins(p, i, o, strings[k])
             /\ tests[k] = Wild => Begins(p, i, o, strings[k]) /\ ~ Inside(p, i, o, strings[k])
  <2>1. strings[k] \in Range(strings) /\ strings[k] \in Seq(Byte) /\ strings[k] # <<>>
    BY <1>1
  <2> QED BY <1>2, <2>1, FragmentStrIs
<1> HIDE DEF n
<1>6. I # {} => Min(I) \in I
  <2>1. I \in SUBSET Nat
    BY <1>1
  <2> HIDE DEF I
  <2> QED BY <2>1, LeastMember
<1>7. 0 \notin 1 .. n
  BY <1>1
<1>8. CASE I = {}
  <2>1. told = 0 /\ \A k \in 1 .. n : tests[k] = 0
    BY <1>4, <1>8
  <2>2. ASSUME NEW s \in Range(strings) PROVE ~ Inside(p, i, o, s)
    <3>1. PICK k \in 1 .. n : s = strings[k]
      BY <1>1
    <3>2. tests[k] = 0
      BY <2>1
    <3> QED BY <1>5, <3>1, <3>2
  <2> QED BY <2>1, <2>2
<1>9. CASE I # {}
  <2>1. told \in 1 .. n /\ tests[told] # 0
    BY <1>4, <1>6, <1>9
  <2>2. tests[told] = 1 \/ tests[told] = Wild
    BY <1>5, <2>1 DEF Answers
  <2> QED BY <1>5, <1>7, <2>1, <2>2
<1> QED BY <1>8, <1>9

Unlike(p, i, strings) ==
  \E off \in 0 .. Len(p[i]) - 1, s \in Range(strings) :
    p[i][off + 1] = s[1] /\ ~ Inside(p, i, off, s)
Outside(p, i, strings) ==
  \E off \in 0 .. Len(p[i]) - 1 :
    p[i][off + 1] \in BeyondMap({strings[k][1] : k \in DOMAIN strings})
Misses(p, i, strings) == Unlike(p, i, strings) \/ Outside(p, i, strings)
FoundFrom(p, i, strings, r) ==
  \E off \in 0 .. Len(p[i]) - 1, s \in Range(strings) :
    Before(p, i) + off = r /\ Begins(p, i, off, s)
Heeded(p, i, strings, at, r) ==
  \A off \in 0 .. Len(p[i]) - 1, s \in Range(strings) :
    at <= off /\ Inside(p, i, off, s) => r = Wild \/ r \in 0 .. Before(p, i) + off

(* What the search of a fragment from `at' on may answer.                  *)
FragmentAnswer(p, i, strings, later, at, r) ==
  /\ r = Wild => Misses(p, i, strings) \/ later = Wild
  /\ \/ r = later \/ r = Wild
     \/ r \in Nat /\ FoundFrom(p, i, strings, r) /\ r <= Before(p, i) + Len(p[i])
  /\ Heeded(p, i, strings, at, r)

LEMMA SearchWithin ==
  ASSUME NEW p \in PieceLists, NEW i \in 1 .. Len(p), NEW strings \in StringLists,
         NEW later \in Int
  PROVE  /\ polystr_fragment(p, i, strings, later) \in Int
         /\ FragmentAnswer(p, i, strings, later, 0, polystr_fragment(p, i, strings, later))
<1> DEFINE m == Len(p[i])
           R == 0 .. m
           V == [R -> Int]
           starts == {strings[k][1] : k \in DOMAIN strings}
           beyond == BeyondMap(starts)
           stops == starts \cup beyond
           Hits(at, remaining) ==
             {o \in at .. at + remaining - 1 : o >= m \/ p[i][o + 1] \in stops}
           First(at, remaining) == Min(Hits(at, remaining))
           Body(h, at, remaining) ==
             IF Hits(at, remaining) = {} THEN later
             ELSE IF First(at, remaining) >= m \/ p[i][First(at, remaining) + 1] \in beyond
                  THEN Wild
             ELSE IF Told(Tests(p, i, First(at, remaining), strings)) = 0
                  THEN h[First(at, remaining) + 1][remaining - (First(at, remaining) - at)]
             ELSE IF Tests(p, i, First(at, remaining), strings)
                       [Told(Tests(p, i, First(at, remaining), strings))] = Wild
                  THEN Wild ELSE Before(p, i) + First(at, remaining)
           Step(h) == [at \in R |-> [remaining \in R |-> Body(h, at, remaining)]]
           F == [h \in [R -> V] |-> Step(h)]
<1>1. m \in Nat /\ Before(p, i) \in Nat
  <2>1. i \in 1 .. Len(p) + 1
    BY Laid
  <2> QED BY <2>1, Laid
<1>2. /\ DOMAIN strings = 1 .. Len(strings)
      /\ Range(strings) = {strings[k] : k \in 1 .. Len(strings)}
      /\ starts = {s[1] : s \in Range(strings)}
      /\ \A s \in Range(strings) : s \in Seq(Byte) /\ s # <<>>
  BY Strings
<1>b. Outside(p, i, strings) <=> \E off \in 0 .. m - 1 : p[i][off + 1] \in beyond
  BY DEF Outside
<1>s. starts \subseteq stops /\ \A x \in stops : x \in starts \/ x \in beyond
  OBVIOUS
<1> HIDE DEF m, starts, beyond, stops
(* The first hit: none before it, and the loop goes on inside its bounds. *)
<1>3. ASSUME NEW at \in R, NEW remaining \in R, Hits(at, remaining) # {},
             NEW o, o = First(at, remaining)
      PROVE  /\ o \in at .. at + remaining - 1 /\ o \in Nat
             /\ o >= m \/ (o \in 0 .. m - 1 /\ p[i][o + 1] \in stops)
             /\ \A off \in at .. o - 1 : ~ (off >= m) /\ p[i][off + 1] \notin stops
             /\ ~ (o >= m) => o + 1 \in R /\ remaining - (o - at) \in R
  <2> DEFINE H == Hits(at, remaining)
  <2>1. H \in SUBSET Nat /\ H # {}
    BY <1>1, <1>3
  <2>2. o \in H /\ \A k \in H : o <= k
    <3> HIDE DEF H
    <3>1. Min(H) \in H /\ \A k \in H : Min(H) <= k
      BY <2>1, LeastMember
    <3> QED BY <1>3, <3>1 DEF H
  <2>3. o \in at .. at + remaining - 1 /\ (o >= m \/ p[i][o + 1] \in stops)
    BY <2>2
  <2>4. at \in Nat /\ at <= m /\ remaining \in Nat /\ remaining <= m
    BY <1>1
  <2>5. o \in Nat /\ (~ (o >= m) => o \in 0 .. m - 1 /\ o + 1 \in R /\ remaining - (o - at) \in R)
    BY ONLY <1>1, <2>3, <2>4
  <2>6. ASSUME NEW off \in at .. o - 1 PROVE ~ (off >= m) /\ p[i][off + 1] \notin stops
    <3>1. off \in at .. at + remaining - 1 /\ ~ (o <= off)
      BY <2>3, <2>4
    <3>2. off \notin H
      <4> HIDE DEF H
      <4> QED BY <2>2, <3>1
    <3> QED BY <3>1, <3>2
  <2> QED BY <2>3, <2>5, <2>6
<1>4. ASSUME NEW h, NEW at \in R, \A j \in at + 1 .. m : h[j] \in V, NEW remaining \in R
      PROVE  Body(h, at, remaining) \in Int
  <2> DEFINE o == First(at, remaining)
  <2>1. CASE Hits(at, remaining) = {}
    BY <2>1
  <2>2. CASE Hits(at, remaining) # {}
    <3>1. /\ o \in Nat /\ o >= at
          /\ ~ (o >= m) => o + 1 \in R /\ remaining - (o - at) \in R
      BY <1>3, <2>2
    <3> HIDE DEF o
    <3>2. ~ (o >= m) => o + 1 \in at + 1 .. m
      BY <1>1, <3>1
    <3>3. ~ (o >= m) => h[o + 1][remaining - (o - at)] \in Int
      <4> HIDE DEF R
      <4> QED BY <1>4, <3>1, <3>2
    <3>4. Wild \in Int /\ Before(p, i) + o \in Int
      BY <1>1, <3>1 DEF Wild
    <3> QED BY <2>2, <3>3, <3>4 DEF o
  <2> QED BY <2>1, <2>2
<1>5. ASSUME NEW h, NEW e, NEW at \in R, \A j \in at + 1 .. m : h[j] = e[j],
             NEW remaining \in R
      PROVE  Body(h, at, remaining) = Body(e, at, remaining)
  <2> DEFINE o == First(at, remaining)
  <2>1. CASE Hits(at, remaining) = {}
    BY <2>1
  <2>2. CASE Hits(at, remaining) # {}
    <3>1. o \in Nat /\ o >= at
      BY <1>3, <2>2
    <3> HIDE DEF o
    <3>2. ~ (o >= m) => h[o + 1] = e[o + 1]
      <4>1. ~ (o >= m) => o + 1 \in at + 1 .. m
        BY <1>1, <3>1
      <4> QED BY <1>5, <4>1
    <3> HIDE DEF Hits
    <3> QED BY <2>2, <3>2 DEF o
  <2> QED BY <2>1, <2>2
<1> HIDE DEF Body
<1>6. ASSUME NEW h, NEW at \in R, \A j \in at + 1 .. m : h[j] \in V
      PROVE  [remaining \in R |-> Body(h, at, remaining)] \in V
  <2>1. \A remaining \in R : Body(h, at, remaining) \in Int
    BY <1>4, <1>6
  <2> HIDE DEF R
  <2> QED BY <2>1
<1>7. \E h \in [R -> V] : h = Step(h)
  <2>1. F \in [[R -> V] -> [R -> V]]
    <3>1. ASSUME NEW h \in [R -> V] PROVE Step(h) \in [R -> V]
      <4>1. ASSUME NEW at \in R, NEW j \in at + 1 .. m PROVE h[j] \in V
        <5>1. j \in R
          BY <1>1
        <5> HIDE DEF R, V
        <5> QED BY <5>1
      <4> HIDE DEF V
      <4>2. \A at \in R : [remaining \in R |-> Body(h, at, remaining)] \in V
        BY <1>6, <4>1
      <4> HIDE DEF R
      <4> QED BY <4>2
    <3> HIDE DEF Step, V
    <3> QED BY <3>1
  <2>2. ASSUME NEW h \in [R -> V], NEW e \in [R -> V], NEW at \in R,
               \A l \in at + 1 .. m : h[l] = e[l]
        PROVE  F[h][at] = F[e][at]
    <3>1. \A remaining \in R : Body(h, at, remaining) = Body(e, at, remaining)
      BY <1>5, <2>2
    <3> HIDE DEF R, V
    <3> QED BY <3>1
  <2>3. V # {}
    <3>1. [remaining \in R |-> 0] \in V
      OBVIOUS
    <3> QED BY <3>1
  <2>4. \E h \in [R -> V] : h = F[h]
    <3>1. 0 \in Nat
      OBVIOUS
    <3> HIDE DEF F, V
    <3>2. Walks(F, 0, m, V)
      BY <2>1, <2>2, <2>3 DEF Walks
    <3> QED BY ONLY <1>1, <3>1, <3>2, WalkExists
  <2>5. \A h \in [R -> V] : F[h] = Step(h)
    <3> HIDE DEF Step, V
    <3> QED OBVIOUS
  <2> HIDE DEF F, Step, V
  <2> QED BY <2>4, <2>5
<1> DEFINE At == CHOOSE h : h = Step(h)
<1>8. polystr_fragment(p, i, strings, later) = At[0][m]
  BY DEF polystr_fragment, Body, First, Hits, Told, Tests, m, starts, beyond, stops
<1>9. At = Step(At)
  <2> HIDE DEF Step
  <2> QED BY <1>7
<1> HIDE DEF At
<1>10. \A at \in R : At[at] = [remaining \in R |-> Body(At, at, remaining)]
  <2> HIDE DEF R
  <2> QED BY <1>9
(* A string inside the fragment begins at a hit.                           *)
<1>11. ASSUME NEW off \in 0 .. m - 1, NEW s \in Range(strings), Begins(p, i, off, s)
       PROVE  p[i][off + 1] = s[1] /\ p[i][off + 1] \in stops
  <2>1. s \in Seq(Byte) /\ s # <<>> /\ off \in 0 .. Len(p[i]) - 1
    BY <1>2 DEF m
  <2>2. p[i][off + 1] = s[1]
    BY <1>11, <2>1, FirstByte
  <2>3. p[i][off + 1] \in starts
    BY <1>2, <2>2
  <2> QED BY <1>s, <2>2, <2>3
<1> DEFINE Answer(at, r) == FragmentAnswer(p, i, strings, later, at, r)
           Met(at, remaining) ==
             remaining >= m - at /\ (remaining = m - at \/ Misses(p, i, strings))
               => At[at][remaining] \in Int /\ Answer(at, At[at][remaining])
           T == {at \in R : \A remaining \in R : Met(at, remaining)}
<1>12. ASSUME NEW at \in R, \A j \in at + 1 .. m : j \in T, NEW remaining \in R,
              remaining >= m - at, remaining = m - at \/ Misses(p, i, strings)
       PROVE  At[at][remaining] \in Int /\ Answer(at, At[at][remaining])
  <2> DEFINE r == At[at][remaining]
             H == Hits(at, remaining)
             o == First(at, remaining)
             tests == Tests(p, i, o, strings)
             told == Told(tests)
             B == Before(p, i)
  <2>0. /\ at \in Nat /\ at <= m /\ remaining \in Nat
        /\ B \in Nat /\ Wild \in Int /\ ~ (Wild \in Nat)
    BY <1>1 DEF Wild
  <2>1. r = IF H = {} THEN later
            ELSE IF o >= m \/ p[i][o + 1] \in beyond THEN Wild
            ELSE IF told = 0 THEN At[o + 1][remaining - (o - at)]
            ELSE IF tests[told] = Wild THEN Wild ELSE B + o
    <3>1. r = Body(At, at, remaining)
      <4> HIDE DEF R
      <4> QED BY <1>10
    <3> QED BY <3>1 DEF Body
  <2>2. Unlike(p, i, strings)
          <=> \E off \in 0 .. m - 1, s \in Range(strings) :
                p[i][off + 1] = s[1] /\ ~ Inside(p, i, off, s)
    BY DEF Unlike, m
  <2>3. \A q : FoundFrom(p, i, strings, q)
                 <=> \E off \in 0 .. m - 1, s \in Range(strings) :
                       B + off = q /\ Begins(p, i, off, s)
    BY DEF FoundFrom, m
  <2>4. \A q, c : Heeded(p, i, strings, c, q)
                 <=> \A off \in 0 .. m - 1, s \in Range(strings) :
                       c <= off /\ Inside(p, i, off, s) => q = Wild \/ q \in 0 .. B + off
    BY DEF Heeded, m
  <2>5. \A off, s : Inside(p, i, off, s) => Begins(p, i, off, s)
    BY DEF Inside
  <2> HIDE DEF r, B
  <2>6. CASE H = {}
    <3>1. ASSUME NEW off \in 0 .. m - 1, NEW s \in Range(strings), at <= off, Inside(p, i, off, s)
          PROVE  FALSE
      <4>1. p[i][off + 1] \in stops
        BY <1>11, <2>5, <3>1
      <4>2. off \in at .. at + remaining - 1
        BY <1>1, <1>12, <2>0, <3>1
      <4>3. off \in H
        BY <4>1, <4>2 DEF Hits
      <4> QED BY <2>6, <4>3
    <3>2. r = later /\ Heeded(p, i, strings, at, r)
      BY <2>1, <2>4, <2>6, <3>1
    <3> QED BY <3>2 DEF FragmentAnswer, r
  <2>7. CASE H # {}
    <3>1. /\ o \in at .. at + remaining - 1 /\ o \in Nat
          /\ o >= m \/ (o \in 0 .. m - 1 /\ p[i][o + 1] \in stops)
          /\ \A off \in at .. o - 1 : ~ (off >= m) /\ p[i][off + 1] \notin stops
          /\ ~ (o >= m) => o + 1 \in R /\ remaining - (o - at) \in R
      BY <1>3, <2>7
    <3>2. ASSUME ~ (o >= m)
          PROVE  /\ told = 0 => \A s \in Range(strings) : ~ Inside(p, i, o, s)
                 /\ told # 0 => /\ \E s \in Range(strings) : Begins(p, i, o, s)
                                /\ tests[told] = Wild =>
                                     \E s \in Range(strings) :
                                       Begins(p, i, o, s) /\ ~ Inside(p, i, o, s)
      <4>1. o \in 0 .. Len(p[i]) - 1
        BY <3>1, <3>2 DEF m
      <4> HIDE DEF o
      <4> QED BY <4>1, ToldIs
    <3> HIDE DEF H, o, tests, told
    (* Nothing inside the fragment lies between at and the hit.            *)
    <3>3. ASSUME NEW off \in 0 .. m - 1, NEW s \in Range(strings), at <= off,
                 Inside(p, i, off, s)
          PROVE  o <= off
      <4>1. p[i][off + 1] \in stops
        BY <1>11, <2>5, <3>3
      <4>2. ~ (off \in at .. o - 1)
        BY <3>1, <4>1
      <4> QED BY <2>0, <3>1, <3>3, <4>2
    <3>4. CASE o >= m
      <4>1. r = Wild
        BY <2>1, <2>7, <3>4
      <4>2. remaining # m - at
        BY <1>1, <2>0, <3>1, <3>4
      <4>3. Misses(p, i, strings)
        BY <1>12, <4>2
      <4>4. Heeded(p, i, strings, at, r)
        BY <2>4, <4>1
      <4> QED BY <2>0, <4>1, <4>3, <4>4 DEF FragmentAnswer, r
    (* The map is looked into where it has no bit.                         *)
    <3>8. CASE ~ (o >= m) /\ p[i][o + 1] \in beyond
      <4>1. r = Wild
        BY <2>1, <2>7, <3>8
      <4>2. o \in 0 .. m - 1
        BY <3>1, <3>8
      <4>3. Misses(p, i, strings)
        BY <1>b, <3>8, <4>2 DEF Misses
      <4>4. Heeded(p, i, strings, at, r)
        BY <2>4, <4>1
      <4> QED BY <2>0, <4>1, <4>3, <4>4 DEF FragmentAnswer, r
    <3>5. CASE ~ (o >= m) /\ ~ (p[i][o + 1] \in beyond) /\ told = 0
      <4> DEFINE q == remaining - (o - at)
      <4>1. o \in 0 .. m - 1 /\ o + 1 \in R /\ q \in R
            /\ o + 1 \in at + 1 .. m /\ q >= m - (o + 1)
        BY <1>1, <1>12, <2>0, <3>1, <3>5
      <4>2. Misses(p, i, strings)
        <5>0. p[i][o + 1] \in starts
          BY <1>s, <3>1, <3>5
        <5>1. PICK s \in Range(strings) : p[i][o + 1] = s[1]
          BY <1>2, <5>0
        <5>2. ~ Inside(p, i, o, s)
          BY <3>2, <3>5
        <5> QED BY <2>2, <4>1, <5>1, <5>2 DEF Misses
      <4>3. r = At[o + 1][q]
        BY <2>1, <2>7, <3>5
      <4> HIDE DEF q
      <4>4. o + 1 \in T
        BY <1>12, <4>1
      <4>5. Met(o + 1, q)
        <5> HIDE DEF Met, R
        <5> QED BY <4>1, <4>4
      <4>6. r \in Int /\ Answer(o + 1, r)
        <5> HIDE DEF Answer
        <5> QED BY <4>1, <4>2, <4>3, <4>5
      <4>7. Heeded(p, i, strings, at, r)
        <5> SUFFICES ASSUME NEW off \in 0 .. m - 1, NEW s \in Range(strings), at <= off,
                            Inside(p, i, off, s)
                     PROVE  r = Wild \/ r \in 0 .. B + off
          BY <2>4
        <5>1. o <= off /\ off # o
          BY <3>2, <3>3, <3>5
        <5>2. o + 1 <= off
          BY <3>1, <5>1
        <5>3. Heeded(p, i, strings, o + 1, r)
          BY <4>6 DEF FragmentAnswer
        <5> QED BY <2>4, <5>2, <5>3
      <4> QED BY <4>6, <4>7 DEF FragmentAnswer, r
    <3>6. CASE ~ (o >= m) /\ ~ (p[i][o + 1] \in beyond) /\ told # 0 /\ tests[told] = Wild
      <4>1. r = Wild
        BY <2>1, <2>7, <3>6
      <4>2. PICK s \in Range(strings) : Begins(p, i, o, s) /\ ~ Inside(p, i, o, s)
        BY <3>2, <3>6
      <4>3. o \in 0 .. m - 1
        BY <3>1, <3>6
      <4>4. p[i][o + 1] = s[1]
        BY <1>11, <4>2, <4>3
      <4>5. Misses(p, i, strings)
        BY <2>2, <4>2, <4>3, <4>4 DEF Misses
      <4>6. Heeded(p, i, strings, at, r)
        BY <2>4, <4>1
      <4> QED BY <2>0, <4>1, <4>5, <4>6 DEF FragmentAnswer, r
    <3>7. CASE ~ (o >= m) /\ ~ (p[i][o + 1] \in beyond) /\ told # 0 /\ tests[told] # Wild
      <4>1. r = B + o
        BY <2>1, <2>7, <3>7
      <4>2. o \in 0 .. m - 1 /\ r \in Nat /\ r <= B + m
        <5>1. o \in 0 .. m - 1 /\ o <= m
          BY <1>1, <3>1, <3>7
        <5>2. B \in Nat /\ m \in Nat /\ o \in Nat
          BY <1>1, <2>0, <3>1
        <5> QED BY ONLY <4>1, <5>1, <5>2
      <4>3. FoundFrom(p, i, strings, r)
        BY <2>3, <3>2, <3>7, <4>1, <4>2
      <4>4. Heeded(p, i, strings, at, r)
        <5> SUFFICES ASSUME NEW off \in 0 .. m - 1, NEW s \in Range(strings), at <= off,
                            Inside(p, i, off, s)
                     PROVE  r = Wild \/ r \in 0 .. B + off
          BY <2>4
        <5>1. o <= off
          BY <3>3
        <5> QED BY <2>0, <3>1, <4>1, <4>2, <5>1
      <4>5. r # Wild /\ r \in Int
        BY <2>0, <4>2
      <4> QED BY <4>2, <4>3, <4>4, <4>5 DEF FragmentAnswer, r, m, B
    <3> QED BY <3>4, <3>5, <3>6, <3>7, <3>8
  <2> QED BY <2>6, <2>7
<1>13. \A at \in 0 .. m : at \in T
  <2>1. ASSUME NEW at \in 0 .. m, \A j \in at + 1 .. m : j \in T PROVE at \in T
    <3> HIDE DEF Answer
    <3>1. \A remaining \in R : Met(at, remaining)
      BY <1>12, <2>1
    <3> QED BY <3>1
  <2>2. 0 \in Nat
    OBVIOUS
  <2> HIDE DEF T
  <2> QED BY ONLY <1>1, <2>1, <2>2, WalkInduction
<1>14. Met(0, m)
  <2>1. 0 \in 0 .. m /\ m \in R
    BY <1>1
  <2> HIDE DEF Met
  <2>2. 0 \in T
    BY <1>13, <2>1
  <2> HIDE DEF R
  <2> QED BY <2>1, <2>2
<1>15. m >= m - 0 /\ m = m - 0
  BY <1>1
<1> QED BY <1>8, <1>14, <1>15

(* The whole search.                                                       *)
LEMMA PolystrRight ==
  ASSUME NEW p \in PieceLists, NEW strings \in StringLists
  PROVE  PolystrAgrees(p, strings)
<1> DEFINE L == Len(p)
           D == 1 .. L + 1
           Body(h, i) == IF i > L THEN Absent ELSE polystr_fragment(p, i, strings, h[i + 1])
           Step(h) == [i \in D |-> Body(h, i)]
           F == [h \in [D -> Int] |-> Step(h)]
<1>1. /\ L \in Nat /\ DOMAIN p = 1 .. L
      /\ \A i \in 1 .. L + 1 : Before(p, i) \in Nat
      /\ \A i \in 1 .. L : Len(p[i]) \in Nat /\ Before(p, i + 1) = Before(p, i) + Len(p[i])
  BY Laid, LenProperties DEF PieceLists
<1>d. \A i \in D : i > L \/ (i \in 1 .. L /\ i + 1 \in D /\ i + 1 \in i + 1 .. L + 1)
  BY <1>1
<1>2. ASSUME NEW h, NEW i \in D, i > L \/ h[i + 1] \in Int
      PROVE  Body(h, i) \in Int
  <2>1. CASE i > L
    BY <2>1 DEF Absent
  <2>2. CASE ~ (i > L)
    <3>1. i \in 1 .. L /\ h[i + 1] \in Int
      BY <1>d, <1>2, <2>2
    <3>2. polystr_fragment(p, i, strings, h[i + 1]) \in Int
      BY <3>1, SearchWithin
    <3> QED BY <2>2, <3>2
  <2> QED BY <2>1, <2>2
<1>3. ASSUME NEW h, NEW e, NEW i \in D, \A j \in i + 1 .. L + 1 : h[j] = e[j]
      PROVE  Body(h, i) = Body(e, i)
  <2>1. ~ (i > L) => h[i + 1] = e[i + 1]
    BY <1>d, <1>3
  <2> QED BY <2>1
<1> HIDE DEF Body
<1>4. \E h \in [D -> Int] : h = Step(h)
  <2>1. F \in [[D -> Int] -> [D -> Int]]
    <3>1. ASSUME NEW h \in [D -> Int] PROVE Step(h) \in [D -> Int]
      <4>1. \A i \in D : i > L \/ h[i + 1] \in Int
        BY <1>d
      <4> HIDE DEF D
      <4> QED BY <1>2, <4>1
    <3> HIDE DEF Step
    <3> QED BY <3>1
  <2>2. ASSUME NEW h \in [D -> Int], NEW e \in [D -> Int], NEW i \in D,
               \A l \in i + 1 .. L + 1 : h[l] = e[l]
        PROVE  F[h][i] = F[e][i]
    <3>1. Body(h, i) = Body(e, i)
      BY <1>3, <2>2
    <3> HIDE DEF D
    <3> QED BY <3>1
  <2>3. \E h \in [D -> Int] : h = F[h]
    <3>1. 1 \in Nat /\ L + 1 \in Nat /\ Int # {}
      BY <1>1
    <3> HIDE DEF F, L
    <3>2. Walks(F, 1, L + 1, Int)
      BY <2>1, <2>2, <3>1 DEF Walks
    <3> QED BY ONLY <3>1, <3>2, WalkExists
  <2>4. \A h \in [D -> Int] : F[h] = Step(h)
    <3> HIDE DEF Step, D
    <3> QED OBVIOUS
  <2> HIDE DEF F, Step, D
  <2> QED BY <2>3, <2>4
<1> DEFINE At == CHOOSE h : h = Step(h)
           r == polystr_index_of(p, strings)
<1>5. r = IF strings = <<>> THEN 0
          ELSE IF \E k \in DOMAIN strings : strings[k][1] \in High THEN Wild ELSE At[1]
  BY DEF polystr_index_of, Body
<1>6. At = Step(At)
  <2> HIDE DEF Step
  <2> QED BY <1>4
<1> HIDE DEF At, r
<1>7. \A i \in D : At[i] = Body(At, i)
  <2> HIDE DEF D
  <2> QED BY <1>6
<1> DEFINE Answer(i, q) ==
             /\ q \in Int
             /\ q = Wild => \E j \in 1 .. L : Misses(p, j, strings)
             /\ q >= 0 => \E j \in 1 .. L : FoundFrom(p, j, strings, q)
             /\ \A j \in i .. L : Heeded(p, j, strings, 0, q)
           Right(i) == Answer(i, At[i])
           T == {i \in D : Right(i)}
<1>8. ASSUME NEW i \in D, \A j \in i + 1 .. L + 1 : j \in T
      PROVE  Right(i)
  <2>1. CASE i > L
    <3>1. At[i] = -1
      BY <1>7, <2>1 DEF Body, Absent
    <3>2. \A j \in i .. L : FALSE
      BY <1>1, <2>1
    <3> QED BY <3>1, <3>2 DEF Wild
  <2>2. CASE ~ (i > L)
    <3> DEFINE q == At[i]
               later == At[i + 1]
    <3>1. i \in 1 .. L /\ i + 1 \in D /\ i + 1 \in i + 1 .. L + 1
      BY <1>d, <2>2
    <3>2. Answer(i + 1, later)
      <4> HIDE DEF Answer
      <4> QED BY <1>8, <3>1
    <3>3. q = polystr_fragment(p, i, strings, later)
      BY <1>7, <2>2 DEF Body
    <3> HIDE DEF q, later
    <3>4. q \in Int /\ FragmentAnswer(p, i, strings, later, 0, q)
      BY <3>1, <3>2, <3>3, SearchWithin
    <3>5. q = Wild => \E j \in 1 .. L : Misses(p, j, strings)
      BY <3>1, <3>2, <3>4 DEF FragmentAnswer
    <3>6. q >= 0 => \E j \in 1 .. L : FoundFrom(p, j, strings, q)
      <4>1. ASSUME q >= 0, q # later PROVE FoundFrom(p, i, strings, q)
        BY <3>4, <4>1 DEF FragmentAnswer, Wild
      <4> QED BY <3>1, <3>2, <4>1
    <3>7. ASSUME NEW j \in i .. L PROVE Heeded(p, j, strings, 0, q)
      <4>1. CASE j = i
        BY <3>4, <4>1 DEF FragmentAnswer
      <4>2. CASE j # i
        <5>1. j \in i + 1 .. L /\ j \in 1 .. L
          BY <1>1, <4>2
        <5>2. Heeded(p, j, strings, 0, later)
          BY <3>2, <5>1
        <5>3. q = later \/ q = Wild \/ (q \in Nat /\ q <= Before(p, i) + Len(p[i]))
          BY <3>4 DEF FragmentAnswer
        <5>4. CASE q = later
          BY <5>2, <5>4
        <5>5. CASE q = Wild
          BY <5>5 DEF Heeded
        <5>6. CASE q \in Nat /\ q <= Before(p, i) + Len(p[i])
          <6>1. Before(p, i + 1) <= Before(p, j)
            BY <5>1, BeforeMonotone, <3>1
          <6>2. q <= Before(p, j) /\ Before(p, j) \in Nat
            BY <1>1, <3>1, <5>1, <5>6, <6>1
          <6>3. \A off \in Nat : q \in 0 .. Before(p, j) + off
            BY <5>6, <6>2
          <6>4. \A off \in 0 .. Len(p[j]) - 1 : off \in Nat
            BY <1>1, <5>1
          <6> QED BY <6>3, <6>4 DEF Heeded
        <5> QED BY <5>3, <5>4, <5>5, <5>6
      <4> QED BY <4>1, <4>2
    <3> QED BY <3>4, <3>5, <3>6, <3>7 DEF q
  <2> QED BY <2>1, <2>2
<1>9. \A i \in 1 .. L + 1 : i \in T
  <2>1. ASSUME NEW i \in 1 .. L + 1, \A j \in i + 1 .. L + 1 : j \in T PROVE i \in T
    <3> HIDE DEF Right
    <3> QED BY <1>8, <2>1
  <2>2. 1 \in Nat /\ L + 1 \in Nat
    BY <1>1
  <2> HIDE DEF T
  <2> QED BY ONLY <2>1, <2>2, WalkInduction
<1>10. Answer(1, At[1])
  <2>1. 1 \in 1 .. L + 1
    BY <1>1
  <2>2. Right(1)
    <3> HIDE DEF Right
    <3> QED BY <1>9, <2>1
  <2> QED BY <2>2
(* With no strings there is nothing to heed, and the answer is 0.          *)
<1>11. Len(strings) \in Nat /\ Range(strings) = {strings[k] : k \in 1 .. Len(strings)}
  BY Strings
<1>12. /\ r = Wild => \/ \E k \in DOMAIN strings : strings[k][1] \in High
                      \/ \E j \in 1 .. L : Misses(p, j, strings)
       /\ r >= 0 /\ strings # <<>> => \E j \in 1 .. L : FoundFrom(p, j, strings, r)
       /\ \A j \in 1 .. L : Heeded(p, j, strings, 0, r)
  <2>1. CASE strings = <<>>
    <3>1. r = 0 /\ r # Wild
      BY <1>5, <2>1 DEF Wild
    <3>2. Range(strings) = {}
      BY <1>11, <2>1
    <3> QED BY <2>1, <3>1, <3>2 DEF Heeded
  <2>2. CASE strings # <<>> /\ \E k \in DOMAIN strings : strings[k][1] \in High
    <3>1. r = Wild /\ ~ (r >= 0)
      BY <1>5, <2>2 DEF Wild
    <3> QED BY <2>2, <3>1 DEF Heeded
  <2>3. CASE strings # <<>> /\ ~ (\E k \in DOMAIN strings : strings[k][1] \in High)
    BY <1>5, <1>10, <2>3
  <2> QED BY <2>1, <2>2, <2>3
<1>13. ASSUME NEW j \in 1 .. L, NEW off \in 0 .. Len(p[j]) - 1, NEW s \in Range(strings),
              Inside(p, j, off, s)
       PROVE  r = Wild \/ r \in 0 .. Before(p, j) + off
  <2>1. 0 <= off
    BY <1>1
  <2> QED BY <1>12, <1>13, <2>1 DEF Heeded
<1>14. r = Wild =>
         \/ MapIsLeft(p, strings)
         \/ \E i \in DOMAIN p : \E off \in 0 .. Len(p[i]) - 1, s \in Range(strings) :
              p[i][off + 1] = s[1] /\ ~ Inside(p, i, off, s)
  <2>1. \A j \in 1 .. L : Outside(p, j, strings) => MapIsLeft(p, strings)
    BY <1>1 DEF Outside, MapIsLeft
  <2>2. (\E k \in DOMAIN strings : strings[k][1] \in High) => MapIsLeft(p, strings)
    BY DEF MapIsLeft
  <2> QED BY <1>1, <1>12, <2>1, <2>2 DEF Misses, Unlike
<1>15. r >= 0 /\ strings # <<>> =>
         \E i \in DOMAIN p : \E off \in 0 .. Len(p[i]) - 1, s \in Range(strings) :
           Before(p, i) + off = r /\ Begins(p, i, off, s)
  BY <1>1, <1>12 DEF FoundFrom
<1> QED BY <1>1, <1>13, <1>14, <1>15 DEF PolystrAgrees, r

-----------------------------------------------------------------------------
(* A set of strings makes a list of them.                                  *)
LEMMA SetMakesList ==
  ASSUME NEW P, IsFiniteSet(P), \A s \in P : s \in Seq(Byte) /\ s # <<>>
  PROVE  SetToSeq(P) \in StringLists
<1> DEFINE n == Cardinality(P)
<1>1. n \in Nat /\ \E f : f \in Bijection(1 .. n, P)
  BY FS_CardinalityType DEF ExistsBijection
<1>2. \E f \in [1 .. n -> P] : IsInjective(f)
  <2>1. PICK f : f \in Bijection(1 .. n, P)
    BY <1>1
  <2>2. f \in [1 .. n -> P] /\ \A a, b \in 1 .. n : f[a] = f[b] => a = b
    BY <2>1 DEF Bijection, Injection, IsInjective
  <2>3. IsInjective(f)
    BY <2>2 DEF IsInjective
  <2> QED BY <2>2, <2>3
<1>3. SetToSeq(P) \in [1 .. n -> P]
  BY <1>2 DEF SetToSeq
<1> DEFINE l == SetToSeq(P)
<1> HIDE DEF n, l
<1>4. l \in Seq(P) /\ Len(l) = n
  BY <1>1, <1>3, FunctionIsSeq DEF l
<1>5. \A k \in 1 .. n : l[k] \in Seq(Byte) /\ l[k] # <<>>
  BY <1>3 DEF l
<1>6. l \in [1 .. n -> Seq(Byte)]
  BY <1>3, <1>5 DEF l
<1>7. l \in Seq(Seq(Byte)) /\ Len(l) = n
  BY <1>1, <1>6, FunctionIsSeq
<1>8. l \in StringLists
  BY <1>5, <1>7 DEF StringLists
<1> QED BY <1>8 DEF l

-----------------------------------------------------------------------------
(* The buffers of the program.                                             *)

(* get_last_byte looks at the last fragment, which ends the buffer's bytes *)
(* unless it is empty.                                                     *)
LEMMA LastByteIs ==
  ASSUME NEW p \in PieceLists, p # <<>>, p[Len(p)] # <<>>
  PROVE  ByteIn(p[Len(p)], Len(p[Len(p)]) - 1) = Last(FlattenSeq(p))
<1> DEFINE L == Len(p)
           f == FlattenSeq(p)
           m == Len(p[L])
<1>1. L \in Nat \ {0}
  BY Laid, EmptySeq DEF PieceLists
<1>2. /\ L \in 1 .. L /\ Before(p, L + 1) = Len(f) /\ p[L] \in Seq(Byte)
      /\ Before(p, L) \in Nat /\ m \in Nat /\ Before(p, L + 1) = Before(p, L) + m
      /\ \A k \in 1 .. m : f[Before(p, L) + k] = p[L][k]
  <2>1. L \in 1 .. L /\ L \in 1 .. L + 1
    BY <1>1
  <2> QED BY <2>1, Laid
<1>3. m \in Nat \ {0}
  BY <1>2, EmptySeq
<1> HIDE DEF m, f
<1>4. Last(f) = f[Before(p, L) + m]
  BY <1>2 DEF Last
<1>5. f[Before(p, L) + m] = p[L][m]
  BY <1>2, <1>3
<1>6. ByteIn(p[L], m - 1) = p[L][m]
  <2>1. m - 1 < m /\ (m - 1) + 1 = m
    BY <1>3
  <2> QED BY <2>1 DEF ByteIn, m
<1> QED BY <1>4, <1>5, <1>6 DEF m, f

LEMMA ScansOfState ==
  ASSUME TypeOK, LastFragIsTail
  PROVE  ScansAgree
<1> SUFFICES ASSUME NEW b \in Buffers, live[b]
             PROVE  \E p \in {Pieces(b)} : \E f \in {FlattenSeq(p)} :
                      /\ CopiesAgree(p, f)
                      /\ SearchesAgree(p, f)
                      /\ PlacesAgree(p, f)
                      /\ chain[b] # <<>> /\ data[last[b]] # <<>> => get_last_byte(b) = Last(f)
                      /\ \A S \in SUBSET Patterns : PolystrAgrees(p, SetToSeq(S))
  BY DEF ScansAgree
<1> DEFINE c == chain[b]
           p == Pieces(b)
           f == FlattenSeq(p)
           L == Len(c)
<1>1. c \in Seq(Frag) /\ data \in [Frag -> Seq(Byte)]
  BY DEF TypeOK
<1>2. L \in Nat /\ DOMAIN c = 1 .. L /\ \A i \in 1 .. L : c[i] \in Frag
  BY <1>1, LenProperties, ElementOfSeq
<1>3. p = [i \in 1 .. L |-> data[c[i]]]
  BY <1>2 DEF Pieces
<1> HIDE DEF p, L
<1>4. p \in PieceLists /\ Len(p) = L
  <2>1. p \in [1 .. L -> Seq(Byte)]
    BY <1>1, <1>2, <1>3
  <2> QED BY <1>2, <2>1, FunctionIsSeq DEF PieceLists
<1>5. CopiesAgree(p, f)
  BY <1>4, CopiesRight
<1>6. SearchesAgree(p, f)
  <2>1. ASSUME NEW byte \in Byte
        PROVE  index_of(p, byte) = FirstOf(Occurs(f, <<byte>>))
    <3>1. index_of(p, byte) = FirstOf(Occurs(FlattenSeq(p), <<byte>>))
      BY ONLY <1>4, IndexIs, byte \in Byte
    <3> QED BY <3>1
  <2>2. \A s \in Patterns :
          str_index_of(p, s) = IF Ascii(s) THEN FirstOf(Occurs(f, s)) ELSE Absent
    BY <1>4, StrIndexIs, PatternsAssumption
  <2> QED BY <2>1, <2>2 DEF SearchesAgree
<1>7. PlacesAgree(p, f)
  BY <1>4, PlacesRight
<1>8. ASSUME c # <<>>, data[last[b]] # <<>> PROVE get_last_byte(b) = Last(f)
  <2>1. L \in 1 .. L
    BY <1>1, <1>2, <1>8, EmptySeq DEF L
  <2>2. last[b] = c[L]
    BY <1>8 DEF LastFragIsTail, LiveBuffers, L
  <2>3. p[L] = data[last[b]]
    BY <1>3, <2>1, <2>2
  <2>4. p # <<>>
    BY <1>2, <1>4, <2>1
  <2>5. ByteIn(p[L], Len(p[L]) - 1) = Last(f)
    BY <1>4, <1>8, <2>3, <2>4, LastByteIs
  <2> QED BY <2>3, <2>5 DEF get_last_byte
<1>9. ASSUME NEW S \in SUBSET Patterns PROVE PolystrAgrees(p, SetToSeq(S))
  <2>1. IsFiniteSet(S) /\ \A s \in S : s \in Seq(Byte) /\ s # <<>>
    BY PatternsAssumption, FS_Subset
  <2>2. SetToSeq(S) \in StringLists
    BY <2>1, SetMakesList
  <2> QED BY <1>4, <2>2, PolystrRight
<1> HIDE DEF f, c
<1> QED BY <1>5, <1>6, <1>7, <1>8, <1>9 DEF p, f, c

(* In every state of the program, for every buffer and every text that may *)
(* be looked for, the calls that copy, search and step through the bytes   *)
(* answer as they would for the same bytes in one fragment.                *)
THEOREM ScansAlwaysAgree == Spec => []ScansAgree
<1>1. TypeOK /\ LastFragIsTail => ScansAgree
  BY ScansOfState
<1> QED BY <1>1, TypeCorrect, LastIsTail, PTL
=============================================================================
