---------------------------- MODULE SequenceFacts ----------------------------
(***************************************************************************)
(* Facts about numbers, sequences and the operators of SequencesExt that   *)
(* the proofs of several components rest on.                               *)
(***************************************************************************)
EXTENDS Integers, Sequences, FiniteSets, SequencesExt, TLAPS, SequenceTheorems,
        FiniteSetTheorems, WellFoundedInduction

(* Every non-empty set of natural numbers has a least element: what the    *)
(* inductive arguments below rest on (a least counterexample).             *)
LEMMA NatMin ==
  ASSUME NEW T \in SUBSET Nat, T # {}
  PROVE  \E n \in T : \A m \in T : n <= m
<1> DEFINE R == OpToRel(<, Nat)
<1>1. IsWellFoundedOn(R, Nat)
  BY NatLessThanWellFounded
<1>2. PICK n \in T : \A m \in T : ~ (<<m, n>> \in R)
  <2> HIDE DEF R
  <2> QED BY <1>1, WFMin
<1>3. \A m \in T : ~ (m < n)
  BY <1>2 DEF OpToRel
<1> QED BY <1>3

(* Induction over the indices of a list, as a fact about a set.            *)
LEMMA IndexInduction ==
  ASSUME NEW L \in Nat, NEW T,
         0 \in T, \A n \in 1 .. L : n - 1 \in T => n \in T
  PROVE  0 .. L \subseteq T
<1> DEFINE Bad == (0 .. L) \ T
<1> SUFFICES ASSUME Bad # {} PROVE FALSE
  OBVIOUS
<1>1. PICK n \in Bad : \A m \in Bad : n <= m
  <2>1. Bad \in SUBSET Nat
    BY 0 .. L \subseteq Nat
  <2> HIDE DEF Bad
  <2> QED BY <2>1, NatMin
<1>2. n \in 1 .. L /\ n - 1 \in 0 .. L
  OBVIOUS
<1>3. n - 1 \notin Bad
  <2> HIDE DEF Bad
  <2> QED BY <1>1, <1>2
<1> QED BY <1>2, <1>3

(* A set of indices that holds the predecessor of each of its members is   *)
(* an initial segment, as long as the set is large.                        *)
LEMMA Prefix ==
  ASSUME NEW L \in Nat, NEW S \in SUBSET (1 .. L),
         \A i \in S : i > 1 => i - 1 \in S
  PROVE  /\ Cardinality(S) \in 0 .. L
         /\ S = 1 .. Cardinality(S)
<1> DEFINE Out == {i \in 1 .. L + 1 : i \notin S}
<1>1. L + 1 \in Out
  OBVIOUS
<1>2. PICK n \in Out : \A m \in Out : n <= m
  <2>1. Out \in SUBSET Nat /\ Out # {}
    BY <1>1
  <2> HIDE DEF Out
  <2> QED BY <2>1, NatMin
<1>3. 1 .. n - 1 \subseteq S
  BY <1>2
<1>4. S \subseteq 1 .. n - 1
  <2> DEFINE Late == {i \in S : i >= n}
  <2> SUFFICES ASSUME Late # {} PROVE FALSE
    OBVIOUS
  <2>1. PICK j \in Late : \A m \in Late : j <= m
    <3>1. Late \in SUBSET Nat
      BY 1 .. L \subseteq Nat
    <3> HIDE DEF Late
    <3> QED BY <3>1, NatMin
  <2>2. j > n /\ j > 1
    BY <2>1
  <2>3. j - 1 \in S /\ j - 1 >= n
    BY <2>1, <2>2
  <2> QED BY <2>1, <2>3
<1>5. S = 1 .. n - 1
  BY <1>3, <1>4
<1>6. Cardinality(1 .. n - 1) = n - 1
  BY FS_Interval
<1> QED BY <1>5, <1>6

(* The least member of a set of numbers, 0 when there is none.              *)
LEMMA LeastNat ==
  ASSUME NEW I \in SUBSET Nat
  PROVE  (IF I # {} THEN Min(I) ELSE 0) \in Nat
<1>1. I # {} => \E i \in I : \A j \in I : i <= j
  BY NatMin
<1>2. I # {} => Min(I) \in I
  BY <1>1 DEF Min
<1> QED BY <1>2

(* A function on 1 .. n is a sequence.                                      *)
LEMMA FunctionIsSeq ==
  ASSUME NEW n \in Nat, NEW S, NEW g \in [1 .. n -> S]
  PROVE  g \in Seq(S) /\ Len(g) = n
OBVIOUS


-----------------------------------------------------------------------------
(* Cutting and joining.                                                    *)

LEMMA CutSeq ==
  ASSUME NEW S, NEW s \in Seq(S), NEW k \in 0 .. Len(s)
  PROVE  /\ SubSeq(s, 1, k) \in Seq(S) /\ Len(SubSeq(s, 1, k)) = k
         /\ \A i \in 1 .. k : SubSeq(s, 1, k)[i] = s[i]
         /\ SubSeq(s, k + 1, Len(s)) \in Seq(S) /\ Len(SubSeq(s, k + 1, Len(s))) = Len(s) - k
         /\ \A i \in 1 .. Len(s) - k : SubSeq(s, k + 1, Len(s))[i] = s[k + i]
         /\ SubSeq(s, 1, k) \o SubSeq(s, k + 1, Len(s)) = s
<1>0. Len(s) \in Nat /\ \A i \in 1 .. Len(s) : s[i] \in S
  BY LenProperties, ElementOfSeq
<1> DEFINE n == Len(s)
<1> HIDE DEF n
<1>1. n \in Nat /\ k \in 0 .. n /\ \A i \in 1 .. n : s[i] \in S
  BY <1>0 DEF n
<1>2. /\ SubSeq(s, 1, k) \in Seq(S)
      /\ Len(SubSeq(s, 1, k)) = IF 1 <= k THEN k - 1 + 1 ELSE 0
      /\ \A i \in 1 .. k - 1 + 1 : SubSeq(s, 1, k)[i] = s[1 + i - 1]
  <2>1. 1 \in Int /\ k \in Int /\ \A i \in 1 .. k : s[i] \in S
    BY <1>1
  <2> QED BY <2>1, SubSeqProperties
<1>3. /\ SubSeq(s, k + 1, n) \in Seq(S)
      /\ Len(SubSeq(s, k + 1, n)) = IF k + 1 <= n THEN n - (k + 1) + 1 ELSE 0
      /\ \A i \in 1 .. n - (k + 1) + 1 : SubSeq(s, k + 1, n)[i] = s[(k + 1) + i - 1]
  <2>1. k + 1 \in Int /\ n \in Int /\ \A i \in k + 1 .. n : s[i] \in S
    BY <1>1
  <2> QED BY <2>1, SubSeqProperties
<1>4. Len(SubSeq(s, 1, k)) = k /\ \A i \in 1 .. k : SubSeq(s, 1, k)[i] = s[i]
  BY <1>1, <1>2
<1>5. /\ Len(SubSeq(s, k + 1, n)) = n - k
      /\ \A i \in 1 .. n - k : SubSeq(s, k + 1, n)[i] = s[k + i]
  <2>1. Len(SubSeq(s, k + 1, n)) = n - k
    BY <1>1, <1>3
  <2>2. ASSUME NEW i \in 1 .. n - k PROVE SubSeq(s, k + 1, n)[i] = s[k + i]
    <3>1. i \in 1 .. n - (k + 1) + 1 /\ (k + 1) + i - 1 = k + i
      BY <1>1
    <3> QED BY <1>3, <3>1
  <2> QED BY <2>1, <2>2
<1>6. SubSeq(s, 1, k) \o SubSeq(s, k + 1, n) = s
  <2> DEFINE a == SubSeq(s, 1, k)
             b == SubSeq(s, k + 1, n)
  <2>1. a \in Seq(S) /\ b \in Seq(S) /\ Len(a) = k /\ Len(b) = n - k
        /\ (\A i \in 1 .. k : a[i] = s[i]) /\ \A i \in 1 .. n - k : b[i] = s[k + i]
    BY <1>2, <1>3, <1>4, <1>5
  <2> HIDE DEF a, b
  <2>2. /\ a \o b \in Seq(S) /\ Len(a \o b) = n
        /\ \A i \in 1 .. n : (a \o b)[i] = IF i <= k THEN a[i] ELSE b[i - k]
    <3>1. k + (n - k) = n /\ Len(a) + Len(b) = n
      BY <1>1, <2>1
    <3>2. /\ a \o b \in Seq(S) /\ Len(a \o b) = Len(a) + Len(b)
          /\ \A i \in 1 .. Len(a) + Len(b) :
               (a \o b)[i] = IF i <= Len(a) THEN a[i] ELSE b[i - Len(a)]
      BY ONLY <2>1, ConcatProperties
    <3> QED BY ONLY <2>1, <3>1, <3>2
  <2>3. ASSUME NEW i \in 1 .. n PROVE (a \o b)[i] = s[i]
    <3>1. CASE i <= k
      <4>1. i \in 1 .. k
        BY <1>1, <3>1
      <4> QED BY <2>1, <2>2, <3>1, <4>1
    <3>2. CASE ~(i <= k)
      <4>1. i - k \in 1 .. n - k /\ k + (i - k) = i
        BY <1>1, <3>2
      <4>2. (a \o b)[i] = b[i - k] /\ b[i - k] = s[k + (i - k)]
        BY <2>1, <2>2, <3>2, <4>1
      <4> QED BY <4>1, <4>2
    <3> QED BY <1>1, <3>1, <3>2
  <2>4. Len(s) = n
    BY DEF n
  <2>5. a \o b = s
    BY <2>2, <2>3, <2>4, SeqEqual
  <2> QED BY <2>5 DEF a, b
<1> QED BY <1>2, <1>3, <1>4, <1>5, <1>6 DEF n

(* What is cut from the front of a concatenation, when the cut is in its   *)
(* first part.                                                             *)
LEMMA CutConcat ==
  ASSUME NEW S, NEW a \in Seq(S), NEW b \in Seq(S), NEW k \in 0 .. Len(a)
  PROVE  /\ SubSeq(a \o b, 1, k) = SubSeq(a, 1, k)
         /\ SubSeq(a \o b, k + 1, Len(a \o b)) = SubSeq(a, k + 1, Len(a)) \o b
<1> DEFINE s == a \o b
           m == SubSeq(a, k + 1, Len(a))
<1>1. Len(a) \in Nat /\ Len(b) \in Nat
  BY LenProperties
<1>2. /\ s \in Seq(S) /\ Len(s) = Len(a) + Len(b)
      /\ \A i \in 1 .. Len(a) + Len(b) : s[i] = IF i <= Len(a) THEN a[i] ELSE b[i - Len(a)]
  BY ConcatProperties
<1>3. /\ SubSeq(a, 1, k) \in Seq(S) /\ Len(SubSeq(a, 1, k)) = k
      /\ \A i \in 1 .. k : SubSeq(a, 1, k)[i] = a[i]
      /\ m \in Seq(S) /\ Len(m) = Len(a) - k
      /\ \A i \in 1 .. Len(a) - k : m[i] = a[k + i]
  BY CutSeq
<1> HIDE DEF s, m
<1>4. k \in 0 .. Len(s)
  BY <1>1, <1>2
<1>5. /\ SubSeq(s, 1, k) \in Seq(S) /\ Len(SubSeq(s, 1, k)) = k
      /\ \A i \in 1 .. k : SubSeq(s, 1, k)[i] = s[i]
      /\ SubSeq(s, k + 1, Len(s)) \in Seq(S) /\ Len(SubSeq(s, k + 1, Len(s))) = Len(s) - k
      /\ \A i \in 1 .. Len(s) - k : SubSeq(s, k + 1, Len(s))[i] = s[k + i]
  BY <1>2, <1>4, CutSeq
<1>6. SubSeq(s, 1, k) = SubSeq(a, 1, k)
  <2>1. \A i \in 1 .. k : SubSeq(s, 1, k)[i] = SubSeq(a, 1, k)[i]
    BY <1>1, <1>2, <1>3, <1>5
  <2> QED BY <1>3, <1>5, <2>1, SeqEqual
<1>7. SubSeq(s, k + 1, Len(s)) = m \o b
  <2> DEFINE z == SubSeq(s, k + 1, Len(s))
  <2> HIDE DEF z
  <2>1. /\ z \in Seq(S) /\ Len(z) = Len(a) + Len(b) - k
        /\ \A i \in 1 .. Len(a) + Len(b) - k : z[i] = s[k + i]
    BY <1>2, <1>5 DEF z
  <2>2. /\ m \o b \in Seq(S) /\ Len(m \o b) = Len(m) + Len(b)
        /\ \A i \in 1 .. Len(m) + Len(b) : (m \o b)[i] = IF i <= Len(m) THEN m[i]
                                                         ELSE b[i - Len(m)]
    BY <1>3, ConcatProperties
  <2>3. Len(z) = Len(m \o b)
    BY <1>1, <1>3, <2>1, <2>2
  <2>4. ASSUME NEW i \in 1 .. Len(z) PROVE z[i] = (m \o b)[i]
    <3>1. z[i] = s[k + i] /\ k + i \in 1 .. Len(a) + Len(b)
      BY <1>1, <2>1
    <3>2. CASE i <= Len(m)
      <4>1. k + i <= Len(a) /\ i \in 1 .. Len(a) - k /\ i \in 1 .. Len(m) + Len(b)
        BY <1>1, <1>3, <2>1, <3>2
      <4> QED BY <1>2, <1>3, <2>2, <3>1, <3>2, <4>1
    <3>3. CASE ~(i <= Len(m))
      <4>1. ~(k + i <= Len(a)) /\ k + i - Len(a) = i - Len(m) /\ i \in 1 .. Len(m) + Len(b)
        <5>1. k \in 0 .. Len(a) /\ Len(m) = Len(a) - k /\ Len(z) = Len(a) + Len(b) - k
          BY <1>1, <1>3, <2>1
        <5> QED BY ONLY <1>1, <3>3, <5>1, i \in 1 .. Len(z)
      <4> DEFINE t == k + i - Len(a)
                 r == i - Len(m)
      <4>2. s[k + i] = b[t]
        <5> DEFINE p == k + i
        <5>1. /\ p \in 1 .. Len(a) + Len(b) /\ ~(p <= Len(a)) /\ t = p - Len(a)
              /\ s[p] = s[k + i]
          BY ONLY <3>1, <4>1
        <5> HIDE DEF p, t
        <5> QED BY ONLY <1>2, <5>1
      <4>3. (m \o b)[i] = b[r]
        BY ONLY <2>2, <3>3, <4>1
      <4>4. t = r
        BY ONLY <4>1
      <4> HIDE DEF t, r
      <4> QED BY ONLY <3>1, <4>2, <4>3, <4>4
    <3> QED BY <3>2, <3>3
  <2>5. z = m \o b
    BY <2>1, <2>2, <2>3, <2>4, SeqEqual
  <2> QED BY <2>5 DEF z
<1> QED BY <1>6, <1>7 DEF s, m

(* The two parts of a concatenation.                                       *)
LEMMA PartsOfConcat ==
  ASSUME NEW S, NEW a \in Seq(S), NEW b \in Seq(S)
  PROVE  /\ SubSeq(a \o b, 1, Len(a)) = a
         /\ SubSeq(a \o b, Len(a) + 1, Len(a \o b)) = b
<1>1. Len(a) \in Nat /\ Len(a) \in 0 .. Len(a)
  BY LenProperties
<1>2. SubSeq(a, 1, Len(a)) = a
  BY SubSeqFull
<1>3. SubSeq(a, Len(a) + 1, Len(a)) = <<>>
  BY <1>1, SubSeqEmpty
<1>4. <<>> \o b = b
  BY ConcatEmptySeq
<1>5. /\ SubSeq(a \o b, 1, Len(a)) = SubSeq(a, 1, Len(a))
      /\ SubSeq(a \o b, Len(a) + 1, Len(a \o b)) = SubSeq(a, Len(a) + 1, Len(a)) \o b
  BY <1>1, CutConcat
<1> QED BY <1>2, <1>3, <1>4, <1>5

(* The same, when the cut is in its second part.                           *)

LEMMA CutConcatLater ==
  ASSUME NEW S, NEW a \in Seq(S), NEW b \in Seq(S), NEW k \in 0 .. Len(b)
  PROVE  /\ Len(a) + k \in 0 .. Len(a \o b)
         /\ SubSeq(a \o b, 1, Len(a) + k) = a \o SubSeq(b, 1, k)
         /\ SubSeq(a \o b, Len(a) + k + 1, Len(a \o b)) = SubSeq(b, k + 1, Len(b))
<1> DEFINE u == SubSeq(b, 1, k)
           v == SubSeq(b, k + 1, Len(b))
           w == a \o u
<1>1. Len(a) \in Nat /\ Len(b) \in Nat /\ Len(a \o b) = Len(a) + Len(b)
  BY LenProperties, ConcatProperties
<1>2. u \in Seq(S) /\ Len(u) = k /\ v \in Seq(S) /\ u \o v = b
  BY CutSeq
<1>s. (a \o u) \o v = a \o (u \o v)
  <2> HIDE DEF u, v
  <2>1. a \in Seq(S) /\ u \in Seq(S) /\ v \in Seq(S)
    BY <1>2
  <2>2. \A e, f, g \in Seq(S) : (e \o f) \o g = e \o (f \o g)
    BY ONLY ConcatAssociative, SMTT(30)
  <2> QED BY ONLY <2>1, <2>2, Zenon
<1>3. w \in Seq(S) /\ Len(w) = Len(a) + k /\ w \o v = a \o b
  <2>1. w \in Seq(S) /\ Len(w) = Len(a) + Len(u)
    <3> HIDE DEF u
    <3> QED BY <1>2, ConcatProperties
  <2> QED BY <1>2, <1>s, <2>1
<1> HIDE DEF u, v, w
<1>4. SubSeq(w \o v, 1, Len(w)) = w /\ SubSeq(w \o v, Len(w) + 1, Len(w \o v)) = v
  BY <1>2, <1>3, PartsOfConcat
<1>5. SubSeq(a \o b, 1, Len(a) + k) = w /\ SubSeq(a \o b, Len(a) + k + 1, Len(a \o b)) = v
  BY <1>3, <1>4
<1> QED BY <1>1, <1>5 DEF u, v, w

-----------------------------------------------------------------------------
(* FlattenSeq.                                                             *)

(* g runs through what the sequences s give, concatenated from the first.  *)
Joins(g, s, n) ==
  /\ g[0] = <<>>
  /\ \A i \in 1 .. n : g[i] = g[i - 1] \o s[i]

LEMMA JoinsExist ==
  ASSUME NEW S, NEW s \in Seq(Seq(S))
  PROVE  \E g \in [0 .. Len(s) -> Seq(S)] : Joins(g, s, Len(s))
<1> DEFINE L == Len(s)
<1>0. L \in Nat
  BY LenProperties
<1> HIDE DEF L
<1> DEFINE P(n) == \E g \in [0 .. n -> Seq(S)] : Joins(g, s, n)
<1>1. P(0)
  <2> DEFINE g == [i \in 0 .. 0 |-> <<>>]
  <2>1. g \in [0 .. 0 -> Seq(S)]
    BY EmptySeq
  <2>2. Joins(g, s, 0)
    BY DEF Joins
  <2> QED BY <2>1, <2>2
<1>2. ASSUME NEW n \in 1 .. L, P(n - 1)
      PROVE  P(n)
  <2>1. PICK g \in [0 .. n - 1 -> Seq(S)] : Joins(g, s, n - 1)
    BY <1>2
  <2> DEFINE h == [i \in 0 .. n |-> IF i = n THEN g[n - 1] \o s[n] ELSE g[i]]
  <2>2. s[n] \in Seq(S) /\ n - 1 \in 0 .. n - 1
    BY <1>0, ElementOfSeq DEF L
  <2>3. g[n - 1] \o s[n] \in Seq(S)
    BY <2>2, ConcatProperties
  <2>4. h \in [0 .. n -> Seq(S)]
    BY <2>3, <1>0
  <2>5. Joins(h, s, n)
    <3>1. h[0] = <<>>
      BY <2>1, <1>0 DEF Joins
    <3>2. ASSUME NEW i \in 1 .. n PROVE h[i] = h[i - 1] \o s[i]
      <4>0. i - 1 \in 0 .. n /\ i \in 0 .. n /\ i - 1 # n
        BY <1>0
      <4>1. CASE i = n
        BY <4>0, <4>1
      <4>2. CASE i # n
        <5>1. i \in 1 .. n - 1
          BY <1>0, <4>2
        <5>2. g[i] = g[i - 1] \o s[i]
          BY <2>1, <5>1 DEF Joins
        <5> QED BY <4>0, <4>2, <5>2
      <4> QED BY <4>1, <4>2
    <3> QED BY <3>1, <3>2 DEF Joins
  <2> QED BY <2>4, <2>5
<1>3. P(L)
  <2> DEFINE T == {n \in 0 .. L : P(n)}
  <2> HIDE DEF P
  <2>1. 0 \in T
    BY <1>0, <1>1
  <2>2. \A n \in 1 .. L : n - 1 \in T => n \in T
    BY <1>0, <1>2
  <2> HIDE DEF T
  <2>3. 0 .. L \subseteq T
    BY <1>0, <2>1, <2>2, IndexInduction
  <2> QED BY <1>0, <2>3 DEF T
<1> QED BY <1>3 DEF L

(* FlattenSeq(s) is the last of those concatenations.                      *)
LEMMA FlattenIsJoin ==
  ASSUME NEW S, NEW s \in Seq(Seq(S)), NEW g, Joins(g, s, Len(s))
  PROVE  FlattenSeq(s) = g[Len(s)]
<1> DEFINE L == Len(s)
           Step(f) == [i \in 1 .. L |-> IF i = 1 THEN s[i] ELSE f[i - 1] \o s[i]]
           f == CHOOSE f : f = Step(f)
<1>0. L \in Nat /\ (L = 0 => s = <<>>) /\ Joins(g, s, L)
  BY LenProperties, EmptySeq
<1>1. FlattenSeq(s) = IF L = 0 THEN s ELSE f[L]
  BY DEF FlattenSeq
<1>2. g[0] = <<>>
  BY DEF Joins
<1>s. \A i \in 1 .. L : s[i] \in Seq(S)
  BY ElementOfSeq
<1> HIDE DEF L
<1>3. CASE L = 0
  BY <1>0, <1>1, <1>2, <1>3 DEF L
<1>4. CASE L # 0
  <2>1. s[1] \in Seq(S) /\ 1 \in 1 .. L
    BY <1>0, <1>4, <1>s
  <2>2. g[1] = s[1]
    <3>1. g[1] = g[1 - 1] \o s[1]
      BY <1>0, <2>1 DEF Joins
    <3>2. <<>> \o s[1] = s[1] /\ 1 - 1 = 0
      BY <2>1, ConcatEmptySeq
    <3> QED BY <1>2, <3>1, <3>2
  <2> DEFINE h == [i \in 1 .. L |-> g[i]]
  <2>3. h = Step(h)
    <3>1. ASSUME NEW i \in 1 .. L PROVE h[i] = IF i = 1 THEN s[i] ELSE h[i - 1] \o s[i]
      <4>1. CASE i = 1
        BY <2>2, <4>1
      <4>2. CASE i # 1
        <5>1. i - 1 \in 1 .. L
          BY <1>0, <4>2
        <5> QED BY <1>0, <4>2, <5>1 DEF Joins
      <4> QED BY <4>1, <4>2
    <3> QED BY <3>1
  <2>4. f = Step(f)
    <3> HIDE DEF Step, h
    <3> QED BY <2>3
  <2> HIDE DEF f
  <2>5. \A i \in 1 .. L : f[i] = IF i = 1 THEN s[i] ELSE f[i - 1] \o s[i]
    BY <2>4
  <2> DEFINE T == {i \in 0 .. L : i = 0 \/ f[i] = g[i]}
  <2>6. 0 \in T
    BY <1>0
  <2>7. ASSUME NEW i \in 1 .. L, i - 1 \in T PROVE i \in T
    <3>1. CASE i = 1
      BY <2>2, <2>5, <3>1
    <3>2. CASE i # 1
      <4>1. f[i - 1] = g[i - 1] /\ i \in 0 .. L
        BY <1>0, <2>7, <3>2
      <4>2. f[i] = f[i - 1] \o s[i] /\ g[i] = g[i - 1] \o s[i]
        BY <1>0, <2>5, <3>2 DEF Joins
      <4> QED BY <4>1, <4>2
    <3> QED BY <3>1, <3>2
  <2>8. 0 .. L \subseteq T
    <3> HIDE DEF T
    <3> QED BY <1>0, <2>6, <2>7, IndexInduction
  <2>9. f[L] = g[L]
    BY <1>0, <1>4, <2>8
  <2> QED BY <1>1, <1>4, <2>9 DEF L
<1> QED BY <1>3, <1>4

LEMMA FlattenType ==
  ASSUME NEW S, NEW s \in Seq(Seq(S))
  PROVE  FlattenSeq(s) \in Seq(S)
<1>1. PICK g \in [0 .. Len(s) -> Seq(S)] : Joins(g, s, Len(s))
  BY JoinsExist
<1>2. FlattenSeq(s) = g[Len(s)]
  BY <1>1, FlattenIsJoin
<1> QED BY <1>2, LenProperties

LEMMA FlattenFew ==
  ASSUME NEW S
  PROVE  /\ FlattenSeq(<<>>) = <<>>
         /\ \A e \in Seq(S) : FlattenSeq(<<e>>) = e
<1>1. FlattenSeq(<<>>) = <<>>
  <2> DEFINE g == [i \in {0} |-> <<>>]
  <2>1. <<>> \in Seq(Seq(S)) /\ Len(<<>>) = 0
    BY EmptySeq
  <2>2. Joins(g, <<>>, 0)
    BY DEF Joins
  <2>3. g[0] = <<>>
    OBVIOUS
  <2> HIDE DEF g
  <2> QED BY <2>1, <2>2, <2>3, FlattenIsJoin
<1>2. ASSUME NEW e \in Seq(S)
      PROVE  FlattenSeq(<<e>>) = e
  <2> DEFINE g == [i \in {0, 1} |-> IF i = 0 THEN <<>> ELSE e]
             s == <<e>>
  <2>1. s \in Seq(Seq(S)) /\ Len(s) = 1 /\ s[1] = e
    OBVIOUS
  <2>2. g[0] = <<>> /\ g[1] = e
    OBVIOUS
  <2>3. <<>> \o e = e
    BY ConcatEmptySeq
  <2> HIDE DEF g, s
  <2>4. \A i \in 1 .. 1 : g[i] = g[i - 1] \o s[i]
    <3>1. g[1] = g[0] \o s[1] /\ 1 - 1 = 0 /\ \A i \in 1 .. 1 : i = 1
      BY <2>1, <2>2, <2>3
    <3> QED BY <3>1
  <2>5. Joins(g, s, 1)
    BY <2>2, <2>4 DEF Joins
  <2>6. FlattenSeq(s) = e
    BY <2>1, <2>2, <2>5, FlattenIsJoin
  <2> QED BY <2>6 DEF s
<1> QED BY <1>1, <1>2

LEMMA FlattenConcat ==
  ASSUME NEW S, NEW s \in Seq(Seq(S)), NEW t \in Seq(Seq(S))
  PROVE  FlattenSeq(s \o t) = FlattenSeq(s) \o FlattenSeq(t)
<1> DEFINE L == Len(s)
           M == Len(t)
           z == s \o t
<1>a. \A a, b, c \in Seq(S) : (a \o b) \o c = a \o (b \o c)
  OBVIOUS
<1>0. L \in Nat /\ M \in Nat
  BY LenProperties
<1>1. /\ z \in Seq(Seq(S)) /\ Len(z) = L + M
      /\ \A i \in 1 .. L + M : z[i] = IF i <= L THEN s[i] ELSE t[i - L]
  BY ConcatProperties
<1>2. PICK g \in [0 .. L -> Seq(S)] : Joins(g, s, L)
  BY JoinsExist
<1>3. PICK h \in [0 .. M -> Seq(S)] : Joins(h, t, M)
  BY JoinsExist
<1>4. FlattenSeq(s) = g[L] /\ FlattenSeq(t) = h[M]
  BY <1>2, <1>3, FlattenIsJoin
<1>5. \A i \in 1 .. M : t[i] \in Seq(S)
  BY ElementOfSeq
<1> HIDE DEF L, M, z
<1> DEFINE w == [i \in 0 .. L + M |-> IF i <= L THEN g[i] ELSE g[L] \o h[i - L]]
<1>6. /\ \A i \in 0 .. L + M : i <= L => w[i] = g[i]
      /\ \A i \in 0 .. M : w[L + i] = g[L] \o h[i]
  <2>1. ASSUME NEW i \in 0 .. M PROVE w[L + i] = g[L] \o h[i]
    <3>1. L + i \in 0 .. L + M /\ (L + i) - L = i /\ (L + i <= L <=> i = 0)
      BY <1>0
    <3>2. CASE i # 0
      BY <3>1, <3>2
    <3>3. CASE i = 0
      <4>1. h[0] = <<>> /\ g[L] \in Seq(S) /\ w[L + i] = g[L + i] /\ L + i = L
        BY <1>0, <1>2, <1>3, <3>1, <3>3 DEF Joins
      <4> QED BY <4>1, <3>3, ConcatEmptySeq
    <3> QED BY <3>2, <3>3
  <2> QED BY <2>1
<1> HIDE DEF w
<1>7. w[0] = <<>> /\ w[L + M] = g[L] \o h[M]
  <2>1. 0 \in 0 .. L + M /\ 0 <= L /\ M \in 0 .. M
    BY <1>0
  <2>2. g[0] = <<>>
    BY <1>2 DEF Joins
  <2> QED BY <1>6, <2>1, <2>2
<1>8. ASSUME NEW i \in 1 .. L + M PROVE w[i] = w[i - 1] \o z[i]
  <2>1. CASE i <= L
    <3>1. i \in 1 .. L /\ i - 1 <= L /\ i \in 0 .. L + M /\ i - 1 \in 0 .. L + M
      BY <1>0, <2>1
    <3>2. g[i] = g[i - 1] \o s[i]
      BY <1>2, <3>1 DEF Joins
    <3> QED BY <1>1, <1>6, <2>1, <3>1, <3>2
  <2>2. CASE ~(i <= L)
    <3>1. PICK j \in 1 .. M : j = i - L
      BY <1>0, <2>2
    <3>2. L + j = i /\ L + (j - 1) = i - 1 /\ j \in 0 .. M /\ j - 1 \in 0 .. M
      BY <1>0, <3>1
    <3>3. h[j] = h[j - 1] \o t[j]
      BY <1>3 DEF Joins
    <3>4. w[i] = g[L] \o h[j] /\ w[i - 1] = g[L] \o h[j - 1] /\ z[i] = t[j]
      <4>1. w[L + j] = g[L] \o h[j] /\ w[L + (j - 1)] = g[L] \o h[j - 1]
        BY <1>6, <3>2
      <4> QED BY <1>1, <2>2, <3>1, <3>2, <4>1
    <3>5. g[L] \in Seq(S) /\ h[j - 1] \in Seq(S) /\ t[j] \in Seq(S)
      BY <1>0, <1>2, <1>3, <1>5, <3>2
    <3>6. (g[L] \o h[j - 1]) \o t[j] = g[L] \o (h[j - 1] \o t[j])
      BY ONLY <1>a, <3>5
    <3> QED BY <3>3, <3>4, <3>6
  <2> QED BY <2>1, <2>2
<1>9. Joins(w, z, Len(z))
  BY <1>1, <1>7, <1>8 DEF Joins
<1>10. FlattenSeq(z) = w[Len(z)]
  BY <1>1, <1>9, FlattenIsJoin
<1> QED BY <1>1, <1>4, <1>7, <1>10 DEF z

(* An element of a sequence between what is in front of and behind it.     *)
LEMMA Middle ==
  ASSUME NEW S, NEW s \in Seq(S), NEW i \in 1 .. Len(s)
  PROVE  /\ SubSeq(s, 1, i - 1) \in Seq(S) /\ SubSeq(s, i + 1, Len(s)) \in Seq(S)
         /\ s[i] \in S /\ <<s[i]>> \in Seq(S)
         /\ s = SubSeq(s, 1, i - 1) \o (<<s[i]>> \o SubSeq(s, i + 1, Len(s)))
<1> DEFINE n == Len(s)
           a == SubSeq(s, 1, i - 1)
           b == SubSeq(s, i + 1, n)
<1>1. n \in Nat /\ i \in 1 .. n /\ i - 1 \in 0 .. n /\ i \in 0 .. n /\ s[i] \in S
  BY LenProperties, ElementOfSeq
<1>2. a \in Seq(S) /\ b \in Seq(S) /\ <<s[i]>> \in Seq(S)
  BY <1>1, CutSeq
<1>3. SubSeq(s, i, n) = <<s[i]>> \o b
  <2>1. i \in 1 .. Len(s) /\ Len(s) \in i .. Len(s)
    BY <1>1
  <2> QED BY <2>1, SubSeqRecursiveFirst
<1>4. a \o SubSeq(s, i, n) = s
  <2>1. /\ 1 \in 1 .. Len(s) + 1 /\ i - 1 \in 1 - 1 .. Len(s)
        /\ Len(s) \in i - 1 .. Len(s) /\ (i - 1) + 1 = i
    BY <1>1
  <2>2. SubSeq(s, 1, i - 1) \o SubSeq(s, (i - 1) + 1, Len(s)) = SubSeq(s, 1, Len(s))
    BY <2>1, ConcatAdjacentSubSeq
  <2> QED BY <2>1, <2>2, SubSeqFull
<1> QED BY <1>1, <1>2, <1>3, <1>4

(* The length of a flattened sequence, by one of its elements.             *)
LEMMA FlattenAround ==
  ASSUME NEW S, NEW s \in Seq(Seq(S)), NEW i \in 1 .. Len(s)
  PROVE  /\ FlattenSeq(SubSeq(s, 1, i - 1)) \in Seq(S)
         /\ FlattenSeq(SubSeq(s, i + 1, Len(s))) \in Seq(S)
         /\ s[i] \in Seq(S)
         /\ FlattenSeq(s) = FlattenSeq(SubSeq(s, 1, i - 1))
                              \o (s[i] \o FlattenSeq(SubSeq(s, i + 1, Len(s))))
<1> DEFINE T == Seq(S)
           a == SubSeq(s, 1, i - 1)
           b == SubSeq(s, i + 1, Len(s))
           y == s[i]
           m == <<y>>
<1>1. s \in Seq(T)
  OBVIOUS
<1>2. a \in Seq(T) /\ b \in Seq(T) /\ y \in T /\ m \in Seq(T) /\ s = a \o (m \o b)
  <2> HIDE DEF T
  <2> QED BY <1>1, Middle
<1> HIDE DEF a, b, m
<1>3. m \o b \in Seq(T)
  <2> HIDE DEF T
  <2> QED BY <1>2, ConcatProperties
<1>4. FlattenSeq(s) = FlattenSeq(a) \o FlattenSeq(m \o b)
  BY <1>2, <1>3, FlattenConcat
<1>5. FlattenSeq(m \o b) = FlattenSeq(m) \o FlattenSeq(b)
  BY <1>2, FlattenConcat
<1>6. FlattenSeq(m) = y
  BY <1>2, FlattenFew DEF m
<1>7. FlattenSeq(a) \in Seq(S) /\ FlattenSeq(b) \in Seq(S)
  BY <1>2, FlattenType
<1> QED BY <1>2, <1>4, <1>5, <1>6, <1>7 DEF a, b

(* One element more, or another one in place of an empty one.              *)
LEMMA FlattenLonger ==
  ASSUME NEW S, NEW s \in Seq(Seq(S)), NEW y \in Seq(S)
  PROVE  /\ FlattenSeq(Append(s, y)) = FlattenSeq(s) \o y
         /\ \A i \in 1 .. Len(s) : s[i] = <<>> =>
              Len(FlattenSeq([s EXCEPT ![i] = y])) = Len(FlattenSeq(s)) + Len(y)
<1> DEFINE T == Seq(S)
           n == Len(s)
<1>1. s \in Seq(T) /\ y \in T /\ <<>> \in T /\ Len(<<>>) = 0 /\ n \in Nat
  BY LenProperties
<1>2. FlattenSeq(Append(s, y)) = FlattenSeq(s) \o y
  <2>1. Append(s, y) = s \o <<y>> /\ <<y>> \in Seq(T)
    <3> HIDE DEF T
    <3> QED BY <1>1
  <2>2. FlattenSeq(s \o <<y>>) = FlattenSeq(s) \o FlattenSeq(<<y>>)
    BY <2>1, FlattenConcat
  <2>3. FlattenSeq(<<y>>) = y
    BY FlattenFew
  <2> QED BY <2>1, <2>2, <2>3
<1>3. ASSUME NEW i \in 1 .. n, s[i] = <<>>
      PROVE  Len(FlattenSeq([s EXCEPT ![i] = y])) = Len(FlattenSeq(s)) + Len(y)
  <2> DEFINE z == [s EXCEPT ![i] = y]
             a == SubSeq(s, 1, i - 1)
             b == SubSeq(s, i + 1, n)
             fa == FlattenSeq(a)
             fb == FlattenSeq(b)
  <2>1. z \in Seq(T) /\ Len(z) = n /\ z[i] = y /\ \A j \in 1 .. n : j # i => z[j] = s[j]
    <3> HIDE DEF T
    <3> QED BY <1>1
  <2> HIDE DEF z
  <2>2. SubSeq(z, 1, i - 1) = a /\ SubSeq(z, i + 1, n) = b
    <3> DEFINE za == SubSeq(z, 1, i - 1)
               zb == SubSeq(z, i + 1, n)
    <3> HIDE DEF T, n
    <3>0. i - 1 \in 0 .. n /\ i \in 0 .. n /\ Len(s) = n
      BY <1>1 DEF n
    <3>1. /\ a \in Seq(T) /\ Len(a) = i - 1 /\ \A j \in 1 .. i - 1 : a[j] = s[j]
          /\ b \in Seq(T) /\ Len(b) = n - i /\ \A j \in 1 .. n - i : b[j] = s[i + j]
      BY <1>1, <3>0, CutSeq
    <3>2. /\ za \in Seq(T) /\ Len(za) = i - 1 /\ \A j \in 1 .. i - 1 : za[j] = z[j]
          /\ zb \in Seq(T) /\ Len(zb) = n - i /\ \A j \in 1 .. n - i : zb[j] = z[i + j]
      <4>1. z \in Seq(T) /\ Len(z) = n
        BY <2>1
      <4>2. za \in Seq(T) /\ Len(za) = i - 1 /\ \A j \in 1 .. i - 1 : za[j] = z[j]
        BY ONLY <3>0, <4>1, CutSeq
      <4>3. zb \in Seq(T) /\ Len(zb) = n - i /\ \A j \in 1 .. n - i : zb[j] = z[i + j]
        BY ONLY <3>0, <4>1, CutSeq
      <4> QED BY <4>2, <4>3
    <3> HIDE DEF a, b, za, zb
    <3>3. \A j \in 1 .. i - 1 : j \in 1 .. n /\ j # i
      BY <1>1
    <3>4. \A j \in 1 .. n - i : i + j \in 1 .. n /\ i + j # i
      BY <1>1
    <3>5. Len(za) = Len(a) /\ \A j \in 1 .. Len(za) : za[j] = a[j]
      <4>1. \A j \in 1 .. i - 1 : z[j] = s[j]
        BY ONLY <2>1, <3>3
      <4> QED BY ONLY <3>1, <3>2, <4>1
    <3>6. Len(zb) = Len(b) /\ \A j \in 1 .. Len(zb) : zb[j] = b[j]
      <4>1. \A j \in 1 .. n - i : z[i + j] = s[i + j]
        BY ONLY <2>1, <3>4
      <4> QED BY ONLY <3>1, <3>2, <4>1
    <3>7. za = a
      BY <3>1, <3>2, <3>5, SeqEqual
    <3>8. zb = b
      BY <3>1, <3>2, <3>6, SeqEqual
    <3> QED BY <3>7, <3>8 DEF za, zb
  <2>3. fa \in Seq(S) /\ fb \in Seq(S) /\ FlattenSeq(s) = fa \o (<<>> \o fb)
    BY <1>3, FlattenAround
  <2>4. FlattenSeq(z) = fa \o (y \o fb)
    <3>1. z \in Seq(Seq(S)) /\ i \in 1 .. Len(z)
      BY <2>1
    <3>2. FlattenSeq(z) = FlattenSeq(SubSeq(z, 1, i - 1))
                              \o (z[i] \o FlattenSeq(SubSeq(z, i + 1, Len(z))))
      BY <3>1, FlattenAround
    <3> QED BY <2>1, <2>2, <3>2
  <2> HIDE DEF fa, fb
  <2>5. Len(fa) \in Nat /\ Len(fb) \in Nat /\ Len(y) \in Nat
    BY <2>3, LenProperties
  <2>6. y \o fb \in Seq(S) /\ Len(y \o fb) = Len(y) + Len(fb) /\ <<>> \o fb = fb
    BY <2>3, ConcatProperties, ConcatEmptySeq
  <2>7. Len(fa \o (y \o fb)) = Len(fa) + (Len(y) + Len(fb)) /\ Len(fa \o fb) = Len(fa) + Len(fb)
    BY <2>3, <2>6, ConcatProperties
  <2>8. Len(FlattenSeq(z)) = Len(FlattenSeq(s)) + Len(y)
    BY <2>3, <2>4, <2>5, <2>6, <2>7
  <2> QED BY <2>8 DEF z
<1> QED BY <1>2, <1>3

-----------------------------------------------------------------------------
(* Steps repeated.                                                         *)

(* What comes of taking a step n times, the i-th of them F[i, _], exists.  *)
LEMMA Iterated ==
  ASSUME NEW X, NEW b \in X, NEW n \in Nat, NEW F \in [1 .. n -> [X -> X]]
  PROVE  \E g \in [0 .. n -> X] : g[0] = b /\ \A i \in 1 .. n : g[i] = F[i][g[i - 1]]
<1> DEFINE P(k) == \E g \in [0 .. k -> X] :
                     g[0] = b /\ \A i \in 1 .. k : g[i] = F[i][g[i - 1]]
<1>1. P(0)
  <2> DEFINE g == [i \in 0 .. 0 |-> b]
  <2>1. g \in [0 .. 0 -> X] /\ g[0] = b /\ \A i \in 1 .. 0 : g[i] = F[i][g[i - 1]]
    OBVIOUS
  <2> QED BY <2>1
<1>2. ASSUME NEW k \in 1 .. n, P(k - 1)
      PROVE  P(k)
  <2>1. PICK g \in [0 .. k - 1 -> X] :
          g[0] = b /\ \A i \in 1 .. k - 1 : g[i] = F[i][g[i - 1]]
    BY <1>2
  <2> DEFINE h == [i \in 0 .. k |-> IF i = k THEN F[k][g[k - 1]] ELSE g[i]]
  <2>2. k - 1 \in 0 .. k - 1 /\ g[k - 1] \in X /\ F[k][g[k - 1]] \in X
    BY <2>1
  <2>3. h \in [0 .. k -> X]
    BY <2>1, <2>2
  <2>4. h[0] = b
    <3>1. 0 \in 0 .. k /\ 0 # k
      OBVIOUS
    <3> QED BY <2>1, <3>1
  <2>5. ASSUME NEW i \in 1 .. k PROVE h[i] = F[i][h[i - 1]]
    <3>1. i - 1 \in 0 .. k /\ i - 1 # k /\ i \in 0 .. k
      OBVIOUS
    <3>2. CASE i = k
      BY <3>1, <3>2
    <3>3. CASE i # k
      <4>1. i \in 1 .. k - 1
        BY <3>3
      <4>2. g[i] = F[i][g[i - 1]]
        BY <2>1, <4>1
      <4> QED BY <3>1, <3>3, <4>2
    <3> QED BY <3>2, <3>3
  <2> HIDE DEF h
  <2> QED BY <2>3, <2>4, <2>5
<1>3. P(n)
  <2> DEFINE T == {k \in 0 .. n : P(k)}
  <2> HIDE DEF P
  <2>1. 0 \in T
    BY <1>1
  <2>2. \A k \in 1 .. n : k - 1 \in T => k \in T
    BY <1>2
  <2> HIDE DEF T
  <2>3. 0 .. n \subseteq T
    BY <2>1, <2>2, IndexInduction
  <2> QED BY <2>3 DEF T
<1> QED BY <1>3

-----------------------------------------------------------------------------
(* What comes of joining the first i of a list of sequences.               *)
JoinedUpto(s, i) == FlattenSeq(SubSeq(s, 1, i))

LEMMA UptoJoins ==
  ASSUME NEW S, NEW s \in Seq(Seq(S))
  PROVE  /\ JoinedUpto(s, 0) = <<>> /\ JoinedUpto(s, Len(s)) = FlattenSeq(s)
         /\ \A i \in 0 .. Len(s) : JoinedUpto(s, i) \in Seq(S)
         /\ \A i \in 1 .. Len(s) : JoinedUpto(s, i) = JoinedUpto(s, i - 1) \o s[i]
<1> DEFINE T == Seq(S)
           n == Len(s)
<1>1. s \in Seq(T) /\ n \in Nat
  BY LenProperties
<1>2. JoinedUpto(s, 0) = <<>>
  <2>1. SubSeq(s, 1, 0) = <<>>
    BY SubSeqEmpty
  <2> QED BY <2>1, FlattenFew DEF JoinedUpto
<1>3. JoinedUpto(s, n) = FlattenSeq(s)
  <2>1. SubSeq(s, 1, n) = s
    BY SubSeqFull
  <2> QED BY <2>1 DEF JoinedUpto
<1>4. ASSUME NEW i \in 0 .. n PROVE SubSeq(s, 1, i) \in Seq(T)
  <2> HIDE DEF T
  <2> QED BY <1>1, <1>4, CutSeq
<1>5. ASSUME NEW i \in 0 .. n PROVE JoinedUpto(s, i) \in Seq(S)
  BY <1>4, FlattenType DEF JoinedUpto
<1>6. ASSUME NEW i \in 1 .. n PROVE JoinedUpto(s, i) = JoinedUpto(s, i - 1) \o s[i]
  <2>1. i - 1 \in 0 .. n /\ 1 \in 1 .. Len(s) /\ i \in 1 .. Len(s) /\ s[i] \in T
    BY <1>1, ElementOfSeq
  <2>2. SubSeq(s, 1, i) = Append(SubSeq(s, 1, i - 1), s[i])
    <3>1. SubSeq(s, 1, i) = SubSeq(s, 1, i - 1) \o <<s[i]>>
      <4> HIDE DEF T
      <4> QED BY <1>1, <2>1, SubSeqRecursiveSecond
    <3>2. SubSeq(s, 1, i - 1) \in Seq(T)
      BY <1>4, <2>1
    <3>3. Append(SubSeq(s, 1, i - 1), s[i]) = SubSeq(s, 1, i - 1) \o <<s[i]>>
      <4> HIDE DEF T
      <4> QED BY <2>1, <3>2
    <3> QED BY <3>1, <3>3
  <2>3. FlattenSeq(Append(SubSeq(s, 1, i - 1), s[i])) = FlattenSeq(SubSeq(s, 1, i - 1)) \o s[i]
    BY <1>4, <2>1, FlattenLonger
  <2> QED BY <2>2, <2>3 DEF JoinedUpto
<1> QED BY <1>2, <1>3, <1>5, <1>6

(* Where the i-th of them is in the whole.                                 *)
LEMMA UptoParts ==
  ASSUME NEW S, NEW s \in Seq(Seq(S)), NEW i \in 1 .. Len(s)
  PROVE  /\ Len(JoinedUpto(s, i - 1)) \in Nat /\ Len(s[i]) \in Nat
         /\ Len(JoinedUpto(s, i)) = Len(JoinedUpto(s, i - 1)) + Len(s[i])
         /\ Len(JoinedUpto(s, i)) <= Len(FlattenSeq(s)) /\ Len(FlattenSeq(s)) \in Nat
         /\ \A k \in 1 .. Len(s[i]) : FlattenSeq(s)[Len(JoinedUpto(s, i - 1)) + k] = s[i][k]
<1> DEFINE a == JoinedUpto(s, i - 1)
           y == s[i]
           b == FlattenSeq(SubSeq(s, i + 1, Len(s)))
           z == FlattenSeq(s)
           w == y \o b
<1>1. a \in Seq(S) /\ b \in Seq(S) /\ y \in Seq(S) /\ z = a \o w
  BY FlattenAround DEF JoinedUpto
<1>2. JoinedUpto(s, i) = a \o y
  BY UptoJoins
<1> HIDE DEF a, b, y, z
<1>3. Len(a) \in Nat /\ Len(b) \in Nat /\ Len(y) \in Nat
  BY <1>1, LenProperties
<1>4. Len(a \o y) = Len(a) + Len(y)
  BY <1>1, ConcatProperties
<1>5. /\ w \in Seq(S) /\ Len(w) = Len(y) + Len(b)
      /\ \A k \in 1 .. Len(y) + Len(b) : w[k] = IF k <= Len(y) THEN y[k] ELSE b[k - Len(y)]
  BY <1>1, ConcatProperties
<1> HIDE DEF w
<1>6. /\ Len(z) = Len(a) + Len(w)
      /\ \A k \in 1 .. Len(a) + Len(w) : z[k] = IF k <= Len(a) THEN a[k] ELSE w[k - Len(a)]
  <2>1. /\ Len(a \o w) = Len(a) + Len(w)
        /\ \A k \in 1 .. Len(a) + Len(w) :
             (a \o w)[k] = IF k <= Len(a) THEN a[k] ELSE w[k - Len(a)]
    <3>1. a \in Seq(S) /\ w \in Seq(S)
      BY <1>1, <1>5
    <3> QED BY ONLY <3>1, ConcatProperties
  <2> QED BY <1>1, <2>1
<1>7. ASSUME NEW k \in 1 .. Len(y) PROVE z[Len(a) + k] = y[k]
  <2> DEFINE m == Len(a) + k
  <2>1. /\ m \in 1 .. Len(a) + Len(w) /\ ~(m <= Len(a)) /\ m - Len(a) = k
        /\ k \in 1 .. Len(y) + Len(b) /\ k <= Len(y)
    BY <1>3, <1>5
  <2> HIDE DEF m
  <2>2. z[m] = w[k]
    BY <1>6, <2>1
  <2> QED BY <1>5, <2>1, <2>2 DEF m
<1>8. Len(JoinedUpto(s, i)) <= Len(z) /\ Len(z) \in Nat
  BY <1>2, <1>3, <1>4, <1>5, <1>6
<1> QED BY <1>2, <1>3, <1>4, <1>7, <1>8 DEF a, y, z

(* Sequences that are all as long.                                         *)
LEMMA UptoAlike ==
  ASSUME NEW S, NEW s \in Seq(Seq(S)), NEW E \in Nat, \A i \in 1 .. Len(s) : Len(s[i]) = E
  PROVE  \A i \in 0 .. Len(s) : Len(JoinedUpto(s, i)) = i * E
<1> DEFINE n == Len(s)
           T == {i \in 0 .. n : Len(JoinedUpto(s, i)) = i * E}
<1>0. n \in Nat
  BY LenProperties
<1>1. 0 \in T
  <2>1. JoinedUpto(s, 0) = <<>>
    BY UptoJoins
  <2>2. Len(<<>>) = 0 /\ 0 * E = 0 /\ 0 \in 0 .. n
    BY <1>0
  <2> QED BY <2>1, <2>2
<1>2. ASSUME NEW i \in 1 .. n, i - 1 \in T PROVE i \in T
  <2>1. Len(JoinedUpto(s, i)) = Len(JoinedUpto(s, i - 1)) + E
    BY UptoParts
  <2>2. Len(JoinedUpto(s, i - 1)) = (i - 1) * E
    BY <1>2
  <2>3. (i - 1) * E + E = i * E
    BY <1>0
  <2>4. Len(JoinedUpto(s, i)) = i * E /\ i \in 0 .. n
    <3> DEFINE p == (i - 1) * E
               q == i * E
    <3>1. i \in 0 .. n
      BY <1>0
    <3>2. p + E = q /\ Len(JoinedUpto(s, i - 1)) = p
      BY <2>2, <2>3
    <3> HIDE DEF p, q
    <3>3. Len(JoinedUpto(s, i)) = q
      BY <2>1, <3>2
    <3> QED BY <3>1, <3>3 DEF q
  <2> QED BY <2>4
<1> HIDE DEF T, n
<1>3. 0 .. n \subseteq T
  BY <1>0, <1>1, <1>2, IndexInduction
<1> QED BY <1>3 DEF T, n

-----------------------------------------------------------------------------
(* Walks towards the end of a list: what is so at an index if it is so at  *)
(* all later ones is so everywhere.                                        *)
LEMMA WalkInduction ==
  ASSUME NEW a \in Nat, NEW b \in Nat, NEW T,
         \A i \in a .. b : (\A j \in i + 1 .. b : j \in T) => i \in T
  PROVE  \A i \in a .. b : i \in T
<1> DEFINE Bad == {n \in Nat : b - n \in a .. b /\ b - n \notin T}
<1>1. ASSUME Bad # {} PROVE FALSE
  <2>1. PICK n \in Bad : \A m \in Bad : n <= m
    <3>1. Bad \in SUBSET Nat
      OBVIOUS
    <3> HIDE DEF Bad
    <3> QED BY <1>1, <3>1, NatMin
  <2>2. ASSUME NEW j \in (b - n) + 1 .. b PROVE j \in T
    <3>1. b - j \in Nat /\ b - j < n /\ b - (b - j) = j /\ j \in a .. b
      BY <2>1
    <3>2. b - j \notin Bad
      <4> HIDE DEF Bad
      <4>1. n \in Nat
        BY <2>1 DEF Bad
      <4> QED BY <2>1, <3>1, <4>1
    <3> QED BY <3>1, <3>2
  <2> QED BY <2>1, <2>2
<1>2. ASSUME NEW i \in a .. b, i \notin T PROVE FALSE
  <2>1. b - i \in Nat /\ b - (b - i) = i
    OBVIOUS
  <2>2. b - i \in Bad
    BY <1>2, <2>1
  <2> QED BY <1>1, <2>2
<1> QED BY <1>2

(* F makes of a function on a .. b another, whose value at an index depends *)
(* on the values at later ones only.                                       *)
Walks(F, a, b, V) ==
  /\ V # {} /\ F \in [[a .. b -> V] -> [a .. b -> V]]
  /\ \A f, g \in [a .. b -> V], i \in a .. b :
       (\A j \in i + 1 .. b : f[j] = g[j]) => F[f][i] = F[g][i]

(* A recursive function whose value at an index depends on its values at   *)
(* later ones exists.                                                      *)
LEMMA WalkExists ==
  ASSUME NEW a \in Nat, NEW b \in Nat, NEW V, NEW F, Walks(F, a, b, V)
  PROVE  \E f \in [a .. b -> V] : f = F[f]
<1> DEFINE X == [a .. b -> V]
           N == b + 2
<1>0. F \in [X -> X]
  BY DEF Walks
<1>1. PICK v : v \in V
  BY DEF Walks
<1> DEFINE f0 == [i \in a .. b |-> v]
           G == [k \in 1 .. N |-> F]
<1>2. f0 \in X /\ N \in Nat /\ G \in [1 .. N -> [X -> X]]
  BY <1>0, <1>1
<1>3. PICK g \in [0 .. N -> X] : g[0] = f0 /\ \A k \in 1 .. N : g[k] = G[k][g[k - 1]]
  <2>1. PICK Y, n, H, y : Y = X /\ n = N /\ H = G /\ y = f0
    OBVIOUS
  <2> HIDE DEF X, N, G, f0
  <2>2. y \in Y /\ n \in Nat /\ H \in [1 .. n -> [Y -> Y]]
    BY ONLY <1>2, <2>1
  <2>3. \E g \in [0 .. n -> Y] : g[0] = y /\ \A k \in 1 .. n : g[k] = H[k][g[k - 1]]
    BY ONLY <2>2, Iterated
  <2> QED BY ONLY <2>1, <2>3
<1>4. \A k \in 1 .. N : g[k] = F[g[k - 1]]
  BY <1>3
<1> DEFINE P(k) == \A i \in a .. b : i > b - k => g[k][i] = g[k + 1][i]
           T == {k \in 0 .. b + 1 : P(k)}
<1>5. 0 \in T
  OBVIOUS
<1>6. ASSUME NEW k \in 1 .. b + 1, k - 1 \in T PROVE k \in T
  <2>1. /\ k \in 1 .. N /\ k + 1 \in 1 .. N /\ k - 1 \in 0 .. N /\ k \in 0 .. N
        /\ (k + 1) - 1 = k /\ (k - 1) + 1 = k
    OBVIOUS
  <2>2. g[k - 1] \in X /\ g[k] \in X
    BY <1>3, <2>1
  <2>3. g[k] = F[g[k - 1]] /\ g[k + 1] = F[g[k]]
    BY <1>4, <2>1
  <2>4. ASSUME NEW i \in a .. b, i > b - k PROVE g[k][i] = g[k + 1][i]
    <3>1. ASSUME NEW j \in i + 1 .. b PROVE g[k - 1][j] = g[k][j]
      <4>1. j \in a .. b /\ j > b - (k - 1)
        BY <2>4
      <4> QED BY <1>6, <2>1, <4>1
    <3>2. F[g[k - 1]][i] = F[g[k]][i]
      BY ONLY <2>2, <2>4, <3>1, i \in a .. b,
           Walks(F, a, b, V) DEF Walks
    <3> QED BY <2>3, <3>2
  <2> QED BY <2>4
<1>7. b + 1 \in T
  <2>1. b + 1 \in Nat /\ b + 1 \in 0 .. b + 1
    OBVIOUS
  <2>2. 0 .. b + 1 \subseteq T
    <3> HIDE DEF T
    <3> QED BY ONLY <1>5, <1>6, <2>1, IndexInduction
  <2> QED BY <2>1, <2>2
<1> DEFINE f == g[b + 1]
<1>8. /\ b + 1 \in 0 .. N /\ b + 2 \in 0 .. N /\ b + 2 \in 1 .. N /\ (b + 2) - 1 = b + 1
      /\ (b + 1) + 1 = b + 2
  OBVIOUS
<1>9. f \in X /\ g[b + 2] \in X /\ g[b + 2] = F[f]
  BY <1>3, <1>4, <1>8
<1>10. \A i \in a .. b : f[i] = g[b + 2][i]
  BY <1>7, <1>8
<1>11. f = F[f]
  BY <1>9, <1>10
<1> QED BY <1>9, <1>11

(* The least member of a set of numbers.                                   *)
LEMMA LeastMember ==
  ASSUME NEW I \in SUBSET Nat, I # {}
  PROVE  Min(I) \in I /\ \A i \in I : Min(I) <= i
<1>1. \E i \in I : \A j \in I : i <= j
  BY NatMin
<1> QED BY <1>1 DEF Min
=============================================================================
