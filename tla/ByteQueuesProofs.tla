-------------------------- MODULE ByteQueuesProofs --------------------------
(***************************************************************************)
(* The bytes that wait in the fragments of a BulpBuffer, taken together,   *)
(* are those of a FIFO queue: every call of module BulpBuffer is a call of *)
(* module ByteQueues or leaves the queues alone (BuffersAreQueues).  That  *)
(* filling a placeholder in supplies the bytes reserved for it, and not    *)
(* others, needs that it still describes them (PhInv); that it finds them  *)
(* follows from it as well (PlaceholderFound).                             *)
(***************************************************************************)
EXTENDS BulpBufferProofs

(* Bytes, and lists of fragments, are joined in any order.                 *)
LEMMA BytesAssociate ==
  \A q, r, s \in Seq(Byte) : (q \o r) \o s = q \o (r \o s)
BY ConcatAssociative

LEMMA FragmentsAssociate ==
  \A a, b, z \in Seq(Frag) : (a \o b) \o z = a \o (b \o z)
BY ConcatAssociative

(* What module ByteQueues sees.                                            *)
Waiting == [b \in Buffers |-> IF live[b] THEN Bytes(b) ELSE <<>>]

LEMMA PutByQueues ==
  ASSUME io'.op = "put", Waiting' = [Waiting EXCEPT ![io'.buf] = @ \o io'.bytes]
  PROVE  Queues!Put
BY DEF Queues!Put, Waiting

LEMMA SilentByQueues ==
  ASSUME io'.op = "idle", Waiting' = Waiting
  PROVE  Queues!Silent
BY DEF Queues!Silent, Waiting, Queues!Idle

LEMMA TakeByQueues ==
  ASSUME NEW b \in Buffers, NEW n \in Nat, NEW m \in Nat,
         m = IF n <= Len(Waiting[b]) THEN n ELSE Len(Waiting[b]),
         io' = Call("take", b, NULL, n, SubSeq(Waiting[b], 1, m)),
         Waiting' = [Waiting EXCEPT ![b] = SubSeq(@, m + 1, Len(@))]
  PROVE  Queues!Take
<1>1. io'.op = "take" /\ io'.buf = b /\ io'.want = n /\ io'.bytes = SubSeq(Waiting[b], 1, m)
  BY DEF Call
<1>2. /\ m = IF n <= Len(Waiting[b]) THEN n ELSE Len(Waiting[b])
      /\ Waiting' = [Waiting EXCEPT ![b] = SubSeq(@, m + 1, Len(@))]
  OBVIOUS
<1>3. LET q == Waiting[io'.buf]
          k == IF io'.want <= Len(q) THEN io'.want ELSE Len(q)
      IN /\ io'.bytes = SubSeq(q, 1, k)
         /\ Waiting' = [Waiting EXCEPT ![io'.buf] = SubSeq(@, k + 1, Len(@))]
  BY ONLY <1>1, <1>2
<1> QED BY ONLY <1>1, <1>3 DEF Queues!Take, Waiting
-----------------------------------------------------------------------------
(* The bytes of a list.                                                    *)

Parts(c, d) == [i \in 1 .. Len(c) |-> d[c[i]]]

LEMMA PartsTyped ==
  ASSUME NEW c \in Lists, NEW d \in Fields
  PROVE  /\ Parts(c, d) \in Seq(Seq(Byte)) /\ Len(Parts(c, d)) = Len(c)
         /\ \A i \in 1 .. Len(c) : Parts(c, d)[i] = d[c[i]] /\ d[c[i]] \in Seq(Byte)
<1>1. Len(c) \in Nat
  BY LenProperties DEF Lists
<1>2. \A i \in 1 .. Len(c) : d[c[i]] \in Seq(Byte)
  BY LenOfFragment, LengthZero
<1>3. Parts(c, d) \in [1 .. Len(c) -> Seq(Byte)]
  BY <1>2 DEF Parts
<1>4. Parts(c, d) \in Seq(Seq(Byte)) /\ Len(Parts(c, d)) = Len(c)
  BY <1>1, <1>3, FunctionIsSeq
<1> QED BY <1>2, <1>4 DEF Parts

(* A list holds as many bytes as its fragments.                            *)
LEMMA ContentsTyped ==
  ASSUME NEW c \in Lists, NEW d \in Fields
  PROVE  /\ Contents(c, d) \in Seq(Byte)
         /\ Len(Contents(c, d)) = Total(c, d) /\ Total(c, d) \in Nat
<1> DEFINE s == Parts(c, d)
           L == Len(c)
<1>1. s \in Seq(Seq(Byte)) /\ Len(s) = L /\ \A i \in 1 .. L : s[i] = d[c[i]] /\ d[c[i]] \in Seq(Byte)
  BY PartsTyped
<1>2. L \in Nat /\ Total(c, d) \in Nat
  BY TotalType
<1>3. Contents(c, d) = FlattenSeq(s)
  BY DEF Contents, Parts
<1> HIDE DEF s, L
<1>4. PICK g \in [0 .. L -> Seq(Byte)] : Joins(g, s, L)
  BY <1>1, JoinsExist
<1>5. Contents(c, d) = g[L]
  BY <1>1, <1>3, <1>4, FlattenIsJoin
<1> DEFINE h == [i \in 0 .. L |-> Len(g[i])]
<1>6. Sums(h, c, d, L)
  <2>1. h[0] = 0
    BY <1>2, <1>4, EmptySeq DEF Joins
  <2>2. ASSUME NEW i \in 1 .. L PROVE h[i] = h[i - 1] + Len(d[c[i]])
    <3>1. i \in 0 .. L /\ i - 1 \in 0 .. L
      BY <1>2
    <3>2. g[i] = g[i - 1] \o s[i] /\ g[i - 1] \in Seq(Byte) /\ s[i] \in Seq(Byte)
      BY <1>1, <1>4, <3>1 DEF Joins
    <3>3. Len(g[i]) = Len(g[i - 1]) + Len(s[i])
      BY <3>2, ConcatProperties
    <3> QED BY <1>1, <3>1, <3>3
  <2> HIDE DEF h
  <2> QED BY <2>1, <2>2 DEF Sums
<1>7. L \in 0 .. L /\ h[L] = Len(g[L])
  BY <1>2
<1>8. Offsets(c, d)[L] = h[L]
  <2> HIDE DEF h
  <2> QED BY <1>2, <1>6, SumsUnique DEF L
<1> QED BY <1>2, <1>4, <1>5, <1>7, <1>8 DEF Total, L

LEMMA ContentsFew ==
  ASSUME NEW d \in Fields
  PROVE  /\ Contents(<<>>, d) = <<>>
         /\ \A f \in Frag : <<f>> \in Lists /\ Contents(<<f>>, d) = d[f]
<1>1. Contents(<<>>, d) = <<>>
  <2>1. <<>> \in Lists /\ Len(<<>>) = 0
    BY DEF Lists
  <2>2. Parts(<<>>, d) = <<>>
    BY <2>1, PartsTyped, EmptySeq
  <2> QED BY <2>2, FlattenFew DEF Contents, Parts
<1>2. ASSUME NEW f \in Frag PROVE <<f>> \in Lists /\ Contents(<<f>>, d) = d[f]
  <2> DEFINE c == <<f>>
             e == <<d[f]>>
  <2>1. c \in Lists /\ Len(c) = 1 /\ c[1] = f
    BY DEF Lists
  <2>2. d[f] \in Seq(Byte)
    BY LengthZero
  <2>3. e \in Seq(Seq(Byte)) /\ Len(e) = 1 /\ e[1] = d[f]
    BY <2>2
  <2> HIDE DEF c, e
  <2>4. /\ Parts(c, d) \in Seq(Seq(Byte)) /\ Len(Parts(c, d)) = 1
        /\ \A i \in 1 .. 1 : Parts(c, d)[i] = d[c[i]]
    BY <2>1, PartsTyped
  <2>5. Parts(c, d) = e
    <3>1. \A i \in 1 .. 1 : Parts(c, d)[i] = e[i]
      BY <2>1, <2>3, <2>4
    <3> QED BY <2>3, <2>4, <3>1, SeqEqual
  <2>6. FlattenSeq(<<d[f]>>) = d[f]
    BY <2>2, FlattenFew
  <2> QED BY <2>1, <2>5, <2>6 DEF Contents, Parts, c, e
<1> QED BY <1>1, <1>2

LEMMA ContentsConcat ==
  ASSUME NEW c \in Lists, NEW e \in Lists, NEW d \in Fields
  PROVE  Contents(c \o e, d) = Contents(c, d) \o Contents(e, d)
<1> DEFINE z == c \o e
<1>1. /\ z \in Lists /\ Len(z) = Len(c) + Len(e) /\ Len(c) \in Nat /\ Len(e) \in Nat
      /\ \A i \in 1 .. Len(c) + Len(e) : z[i] = IF i <= Len(c) THEN c[i] ELSE e[i - Len(c)]
  BY ConcatProperties, LenProperties DEF Lists
<1> HIDE DEF z
<1>2. /\ Parts(z, d) \in Seq(Seq(Byte)) /\ Len(Parts(z, d)) = Len(z)
      /\ \A i \in 1 .. Len(z) : Parts(z, d)[i] = d[z[i]]
  BY <1>1, PartsTyped
<1>3. /\ Parts(c, d) \in Seq(Seq(Byte)) /\ Len(Parts(c, d)) = Len(c)
      /\ \A i \in 1 .. Len(c) : Parts(c, d)[i] = d[c[i]]
  BY PartsTyped
<1>4. /\ Parts(e, d) \in Seq(Seq(Byte)) /\ Len(Parts(e, d)) = Len(e)
      /\ \A i \in 1 .. Len(e) : Parts(e, d)[i] = d[e[i]]
  BY PartsTyped
<1>5. Parts(z, d) = Parts(c, d) \o Parts(e, d)
  <2> DEFINE p == Parts(z, d)
             q == Parts(c, d)
             r == Parts(e, d)
             w == q \o r
  <2> HIDE DEF p, q, r
  <2>1. /\ w \in Seq(Seq(Byte)) /\ Len(w) = Len(q) + Len(r)
        /\ \A i \in 1 .. Len(q) + Len(r) : w[i] = IF i <= Len(q) THEN q[i] ELSE r[i - Len(q)]
    <3>1. q \in Seq(Seq(Byte)) /\ r \in Seq(Seq(Byte))
      BY <1>3, <1>4 DEF q, r
    <3> QED BY ONLY <3>1, ConcatProperties
  <2> HIDE DEF w
  <2>2. Len(q) = Len(c) /\ Len(r) = Len(e) /\ Len(p) = Len(c) + Len(e)
    BY <1>1, <1>2, <1>3, <1>4 DEF p, q, r
  <2>3. ASSUME NEW i \in 1 .. Len(p) PROVE p[i] = w[i]
    <3>1. CASE i <= Len(c)
      <4>1. i \in 1 .. Len(c) /\ i \in 1 .. Len(c) + Len(e)
        BY <1>1, <2>2, <3>1
      <4>2. z[i] = c[i] /\ i \in 1 .. Len(z)
        BY ONLY <1>1, <3>1, <4>1
      <4>3. p[i] = d[z[i]] /\ q[i] = d[c[i]]
        BY <1>2, <1>3, <4>1, <4>2 DEF p, q
      <4>4. w[i] = q[i]
        BY ONLY <2>1, <2>2, <3>1, <4>1
      <4> QED BY ONLY <4>2, <4>3, <4>4
    <3>2. CASE ~(i <= Len(c))
      <4>1. i - Len(c) \in 1 .. Len(e) /\ i \in 1 .. Len(c) + Len(e)
        BY <1>1, <2>2, <3>2
      <4> DEFINE j == i - Len(c)
      <4>2. z[i] = e[j] /\ i \in 1 .. Len(z) /\ j \in 1 .. Len(e)
        BY ONLY <1>1, <3>2, <4>1
      <4>3. p[i] = d[z[i]]
        BY <1>2, <4>2 DEF p
      <4>4. w[i] = r[j]
        BY ONLY <2>1, <2>2, <3>2, <4>1
      <4> HIDE DEF j
      <4>5. r[j] = d[e[j]]
        BY <1>4, <4>2 DEF r
      <4> QED BY ONLY <4>2, <4>3, <4>4, <4>5
    <3> QED BY <3>1, <3>2
  <2>4. p \in Seq(Seq(Byte)) /\ Len(p) = Len(w)
    BY <1>2, <2>1, <2>2 DEF p
  <2>5. p = w
    BY <2>1, <2>3, <2>4, SeqEqual
  <2> QED BY <2>5 DEF p, q, r, w
<1>6. FlattenSeq(Parts(c, d) \o Parts(e, d)) = FlattenSeq(Parts(c, d)) \o FlattenSeq(Parts(e, d))
  BY <1>3, <1>4, FlattenConcat
<1> QED BY <1>5, <1>6 DEF Contents, Parts, z

LEMMA ContentsSame ==
  ASSUME NEW c \in Lists, NEW d \in Fields, NEW x \in Fields,
         \A f \in Placed(c) : x[f] = d[f]
  PROVE  Contents(c, x) = Contents(c, d)
<1>1. Parts(c, x) = Parts(c, d)
  BY DEF Parts, Placed
<1> QED BY <1>1 DEF Contents, Parts

(* What the first k fragments hold, and the others.                        *)
LEMMA ContentsCut ==
  ASSUME NEW c \in Lists, NEW d \in Fields, NEW k \in 0 .. Len(c)
  PROVE  /\ Contents(c, d) = Contents(SubSeq(c, 1, k), d)
                               \o Contents(SubSeq(c, k + 1, Len(c)), d)
         /\ Len(Contents(SubSeq(c, 1, k), d)) = Offsets(c, d)[k]
         /\ Contents(SubSeq(c, 1, k), d) \in Seq(Byte)
         /\ Contents(SubSeq(c, k + 1, Len(c)), d) \in Seq(Byte)
<1> DEFINE a == SubSeq(c, 1, k)
           z == SubSeq(c, k + 1, Len(c))
<1>1. a \in Lists /\ z \in Lists
  BY Cut
<1>2. a \o z = c
  BY CutSeq DEF Lists
<1>3. Total(a, d) = Offsets(c, d)[k]
  BY TotalCut
<1> HIDE DEF a, z
<1>4. /\ Contents(a, d) \in Seq(Byte) /\ Len(Contents(a, d)) = Total(a, d)
      /\ Contents(z, d) \in Seq(Byte)
  BY <1>1, ContentsTyped
<1>5. Contents(a \o z, d) = Contents(a, d) \o Contents(z, d)
  BY <1>1, ContentsConcat
<1> QED BY <1>2, <1>3, <1>4, <1>5 DEF a, z

(* The list behind its first k fragments begins with the next one.         *)
LEMMA Behind ==
  ASSUME NEW c \in Lists, Inj(c), NEW k \in Nat, k < Len(c)
  PROVE  /\ c[k + 1] \in Frag /\ c[k + 1] \in Placed(c)
         /\ SubSeq(c, (k + 1) + 1, Len(c)) \in Lists
         /\ Placed(SubSeq(c, (k + 1) + 1, Len(c))) \subseteq Placed(SubSeq(c, k + 1, Len(c)))
         /\ c[k + 1] \notin Placed(SubSeq(c, 1, k))
         /\ c[k + 1] \notin Placed(SubSeq(c, (k + 1) + 1, Len(c)))
         /\ Placed(SubSeq(c, 1, k)) \cap Placed(SubSeq(c, k + 1, Len(c))) = {}
         /\ \A x \in Fields :
              /\ Contents(SubSeq(c, k + 1, Len(c)), x)
                   = x[c[k + 1]] \o Contents(SubSeq(c, (k + 1) + 1, Len(c)), x)
              /\ Contents(SubSeq(c, (k + 1) + 1, Len(c)), x) \in Seq(Byte)
              /\ x[c[k + 1]] \in Seq(Byte)
<1>0. /\ Len(c) \in Nat /\ k \in 0 .. Len(c) /\ k + 1 \in 0 .. Len(c) /\ k + 1 \in 1 .. Len(c)
      /\ Len(c) \in k + 1 .. Len(c)
  BY LenProperties DEF Lists
<1>1. c[k + 1] \in Frag /\ c[k + 1] \in Placed(c)
  BY <1>0, ElementOfSeq DEF Lists, Placed
<1> DEFINE w == SubSeq(c, (k + 1) + 1, Len(c))
           z == SubSeq(c, k + 1, Len(c))
           a == SubSeq(c, 1, k)
<1>2. /\ w \in Lists /\ Placed(w) = {c[i] : i \in (k + 1) + 1 .. Len(c)}
      /\ Placed(a) = {c[i] : i \in 1 .. k} /\ Placed(z) = {c[i] : i \in k + 1 .. Len(c)}
  BY <1>0, Cut
<1>3. Placed(w) \subseteq Placed(z)
  BY <1>0, <1>2
<1>4. c[k + 1] \notin Placed(a) /\ c[k + 1] \notin Placed(w)
  <2> SUFFICES ASSUME NEW i \in 1 .. Len(c), i # k + 1 PROVE c[i] # c[k + 1]
    BY <1>0, <1>2
  <2> QED BY <1>0 DEF Inj
<1>5. Placed(a) \cap Placed(z) = {}
  BY <1>0, InjCut
<1>6. z = <<c[k + 1]>> \o w
  BY <1>0, SubSeqRecursiveFirst DEF Lists
<1>7. ASSUME NEW x \in Fields
      PROVE  /\ Contents(z, x) = x[c[k + 1]] \o Contents(w, x)
             /\ Contents(w, x) \in Seq(Byte) /\ x[c[k + 1]] \in Seq(Byte)
  <2> DEFINE f == c[k + 1]
  <2>1. f \in Frag /\ z = <<f>> \o w
    BY <1>1, <1>6
  <2> HIDE DEF f, w, z
  <2>2. <<f>> \in Lists /\ Contents(<<f>>, x) = x[f]
    BY <2>1, ContentsFew
  <2> DEFINE e == <<f>>
  <2> HIDE DEF e
  <2>3. e \in Lists /\ Contents(e, x) = x[f] /\ z = e \o w
    BY <2>1, <2>2 DEF e
  <2>4. Contents(e \o w, x) = Contents(e, x) \o Contents(w, x)
    BY <1>2, <2>3, ContentsConcat
  <2>5. Contents(w, x) \in Seq(Byte) /\ x[f] \in Seq(Byte)
    BY <1>2, <2>1, ContentsTyped, LengthZero
  <2> QED BY <2>3, <2>4, <2>5 DEF f
<1> QED BY <1>1, <1>2, <1>3, <1>4, <1>5, <1>7

(* Bytes u added behind the valid data of the last fragment.               *)
LEMMA ContentsGrown ==
  ASSUME NEW c \in Lists, Inj(c), c # <<>>, NEW d \in Fields, NEW x \in Fields,
         NEW u \in Seq(Byte), x[c[Len(c)]] = d[c[Len(c)]] \o u,
         \A f \in Placed(c) : f # c[Len(c)] => x[f] = d[f]
  PROVE  Contents(c, x) = Contents(c, d) \o u
<1>0. Len(c) \in Nat /\ Len(c) > 0
  BY EmptySeq DEF Lists
<1>1. PICK k \in Nat : k = Len(c) - 1
  <2>1. Len(c) - 1 \in Nat
    BY <1>0
  <2> QED BY <2>1
<1>2. k < Len(c) /\ k + 1 = Len(c) /\ k \in 0 .. Len(c) /\ (k + 1) + 1 > Len(c)
  BY <1>0, <1>1
<1> DEFINE a == SubSeq(c, 1, k)
           z == SubSeq(c, k + 1, Len(c))
           f == c[k + 1]
<1>3. SubSeq(c, (k + 1) + 1, Len(c)) = <<>>
  BY <1>0, <1>2, SubSeqEmpty
<1>4. /\ f \in Frag /\ f \notin Placed(a)
      /\ \A y \in Fields : Contents(z, y) = y[f] \o Contents(<<>>, y) /\ y[f] \in Seq(Byte)
  <2> DEFINE w == SubSeq(c, (k + 1) + 1, Len(c))
  <2>1. /\ f \in Frag /\ f \notin Placed(a)
        /\ \A y \in Fields : Contents(z, y) = y[f] \o Contents(w, y) /\ y[f] \in Seq(Byte)
    BY <1>2, Behind
  <2>2. w = <<>>
    BY <1>3
  <2> HIDE DEF w
  <2> QED BY <2>1, <2>2
<1>5. a \in Lists /\ Placed(a) \subseteq Placed(c)
  BY <1>2, Cut
<1>6. \A y \in Fields : Contents(c, y) = Contents(a, y) \o Contents(z, y)
  BY <1>2, ContentsCut
<1> HIDE DEF a, z, f
<1>7. ASSUME NEW y \in Fields PROVE Contents(z, y) = y[f]
  <2>1. Contents(z, y) = y[f] \o Contents(<<>>, y) /\ y[f] \in Seq(Byte)
    BY <1>4
  <2>2. Contents(<<>>, y) = <<>>
    BY ContentsFew
  <2>3. y[f] \o <<>> = y[f]
    BY <2>1, ConcatEmptySeq
  <2> QED BY <2>1, <2>2, <2>3
<1>8. x[f] = d[f] \o u /\ \A g \in Placed(a) : x[g] = d[g]
  BY <1>2, <1>4, <1>5 DEF f
<1>9. Contents(a, x) = Contents(a, d) /\ Contents(a, d) \in Seq(Byte) /\ d[f] \in Seq(Byte)
  BY <1>4, <1>5, <1>8, ContentsSame, ContentsTyped
<1>10. Contents(c, x) = Contents(a, d) \o (d[f] \o u) /\ Contents(c, d) = Contents(a, d) \o d[f]
  BY <1>6, <1>7, <1>8, <1>9
<1> DEFINE p == Contents(a, d)
           q == d[f]
<1>12. p \in Seq(Byte) /\ q \in Seq(Byte) /\ u \in Seq(Byte)
  BY <1>9
<1>13. Contents(c, x) = p \o (q \o u) /\ Contents(c, d) = p \o q
  BY <1>10
<1> HIDE DEF p, q
<1>14. (p \o q) \o u = p \o (q \o u)
  BY ONLY <1>12, BytesAssociate
<1> QED BY ONLY <1>13, <1>14

(* What the list c held is what was taken of it, its first k fragments and *)
(* `part' bytes of the next one, and what e, which is left of it, holds.   *)
Cuts(c, d, k, part, e, x) ==
  LET n == Offsets(c, d)[k] + part
      q == Contents(c, d)
      u == Contents(SubSeq(c, 1, k), d)
  IN /\ n \in 0 .. Len(q)
     /\ Contents(e, x) = SubSeq(q, n + 1, Len(q))
     /\ SubSeq(q, 1, n) = IF k < Len(c) THEN u \o SubSeq(d[c[k + 1]], 1, part) ELSE u

LEMMA ContentsTaken ==
  ASSUME NEW c \in Lists, Inj(c), NEW d \in Fields,
         NEW k \in 0 .. Len(c), NEW part \in Nat,
         k < Len(c) => part <= Len(d[c[k + 1]]), k = Len(c) => part = 0,
         NEW x \in Fields,
         k < Len(c) => x[c[k + 1]] = SubSeq(d[c[k + 1]], part + 1, Len(d[c[k + 1]])),
         \A i \in k + 1 .. Len(c) : i # k + 1 => x[c[i]] = d[c[i]]
  PROVE  Cuts(c, d, k, part, SubSeq(c, k + 1, Len(c)), x)
<1> DEFINE a == SubSeq(c, 1, k)
           z == SubSeq(c, k + 1, Len(c))
           u == Contents(a, d)
           v == Contents(z, d)
           n == Offsets(c, d)[k] + part
<1>0. Len(c) \in Nat /\ k \in Nat
  BY LenProperties DEF Lists
<1>1. /\ Contents(c, d) = u \o v /\ Len(u) = Offsets(c, d)[k]
      /\ u \in Seq(Byte) /\ v \in Seq(Byte)
  BY ContentsCut
<1>2. z \in Lists /\ Placed(z) = {c[i] : i \in k + 1 .. Len(c)}
  BY Cut
<1>3. CASE k = Len(c)
  <2>1. part = 0 /\ n = Len(u) + 0 /\ Len(u) \in Nat
    BY <1>0, <1>1, <1>3, LenProperties
  <2>2. z = <<>>
    <3>1. k + 1 > Len(c)
      BY <1>0, <1>3
    <3> QED BY <1>0, <3>1, SubSeqEmpty
  <2>3. v = <<>> /\ Contents(z, x) = <<>>
    BY <2>2, ContentsFew
  <2> HIDE DEF u, v, n, z, a
  <2>4. Contents(c, d) = u /\ n = Len(u)
    BY <1>1, <2>1, <2>3, ConcatEmptySeq
  <2>5. SubSeq(u, 1, Len(u)) = u /\ SubSeq(u, Len(u) + 1, Len(u)) = <<>>
    <3>1. Len(u) + 1 > Len(u)
      BY <2>1
    <3> QED BY <1>1, <2>1, <3>1, SubSeqFull, SubSeqEmpty
  <2>6. /\ n \in 0 .. Len(Contents(c, d))
        /\ Contents(z, x) = SubSeq(Contents(c, d), n + 1, Len(Contents(c, d)))
        /\ SubSeq(Contents(c, d), 1, n) = u
    BY <2>1, <2>3, <2>4, <2>5
  <2> QED BY <1>0, <1>3, <2>6 DEF n, u, z, a, Cuts
<1>4. CASE k < Len(c)
  <2> DEFINE f == c[k + 1]
             w == SubSeq(c, (k + 1) + 1, Len(c))
             p == SubSeq(d[f], part + 1, Len(d[f]))
  <2>1. /\ f \in Frag /\ f \notin Placed(w) /\ w \in Lists /\ Placed(w) \subseteq Placed(z)
        /\ \A y \in Fields : /\ Contents(z, y) = y[f] \o Contents(w, y)
                             /\ Contents(w, y) \in Seq(Byte) /\ y[f] \in Seq(Byte)
    BY <1>0, <1>4, Behind
  <2> HIDE DEF a, z, u, v, w
  <2>2. part \in 0 .. Len(d[f]) /\ x[f] = p
    <3>1. Len(d[f]) \in Nat
      BY <2>1, LengthZero
    <3> QED BY <1>4, <3>1
  <2>3. \A g \in Placed(w) : x[g] = d[g]
    <3>1. ASSUME NEW g \in Placed(w) PROVE x[g] = d[g]
      <4>1. g \in {c[i] : i \in k + 1 .. Len(c)}
        BY ONLY <1>2, <2>1, g \in Placed(w)
      <4>2. PICK i \in k + 1 .. Len(c) : g = c[i]
        BY ONLY <4>1
      <4>3. i # k + 1
        BY ONLY <2>1, <4>2, g \in Placed(w) DEF f
      <4> QED BY ONLY <4>2, <4>3, \A h \in k + 1 .. Len(c) : h # k + 1 => x[c[h]] = d[c[h]]
    <3> QED BY ONLY <3>1
  <2>4. Contents(w, x) = Contents(w, d)
    BY <2>1, <2>3, ContentsSame
  <2> HIDE DEF f, p
  <2> DEFINE r == Contents(w, d)
             q == d[f]
  <2>5. v = q \o r /\ Contents(z, x) = p \o r /\ q \in Seq(Byte) /\ r \in Seq(Byte)
    BY <2>1, <2>2, <2>4 DEF v
  <2>6. part \in 0 .. Len(q) /\ p = SubSeq(q, part + 1, Len(q))
    BY <2>2 DEF p
  <2> HIDE DEF q, r
  <2>7. /\ SubSeq(v, 1, part) = SubSeq(q, 1, part)
        /\ SubSeq(v, part + 1, Len(v)) = p \o r
    BY <2>5, <2>6, CutConcat
  <2>8. part \in 0 .. Len(v)
    <3>1. Len(v) = Len(q) + Len(r) /\ Len(q) \in Nat /\ Len(r) \in Nat
      BY <2>5, ConcatProperties, LenProperties
    <3> QED BY <2>6, <3>1
  <2>9. /\ Len(u) + part \in 0 .. Len(u \o v)
        /\ SubSeq(u \o v, 1, Len(u) + part) = u \o SubSeq(v, 1, part)
        /\ SubSeq(u \o v, Len(u) + part + 1, Len(u \o v)) = SubSeq(v, part + 1, Len(v))
    <3>1. u \in Seq(Byte) /\ v \in Seq(Byte)
      BY <1>1
    <3> HIDE DEF n
    <3> QED BY ONLY <2>8, <3>1, CutConcatLater, Zenon
  <2>10. n = Len(u) + part
    BY <1>1
  <2> HIDE DEF n
  <2>11. /\ n \in 0 .. Len(Contents(c, d))
         /\ Contents(z, x) = SubSeq(Contents(c, d), n + 1, Len(Contents(c, d)))
         /\ SubSeq(Contents(c, d), 1, n) = u \o SubSeq(q, 1, part)
    BY <1>1, <2>5, <2>7, <2>9, <2>10
  <2> QED BY <1>4, <2>11 DEF n, u, z, a, q, f, Cuts
<1>5. k = Len(c) \/ k < Len(c)
  BY <1>0
<1> QED BY <1>3, <1>4, <1>5

-----------------------------------------------------------------------------
(* What the loop of bulp_buffer_append writes.                             *)

LEMMA FillParts ==
  ASSUME NEW d \in Fields, NEW tail \in Frag \cup {NULL}, NEW fs \in Lists, Inj(fs),
         tail \notin Placed(fs), NEW s \in Seq(Byte)
  PROVE  LET r == Lesser(Len(s), Room(tail))
             x == Fill(d, tail, fs, s)
         IN /\ \A i \in 1 .. Len(fs) :
                 x[fs[i]] = SubSeq(s, r + (i - 1) * Cap + 1, Upto(i, r, Len(s)))
            /\ tail \in Frag => x[tail] = d[tail] \o SubSeq(s, 1, r)
<1> DEFINE r == Lesser(Len(s), Room(tail))
           x == Fill(d, tail, fs, s)
           Chunk(i) == SubSeq(s, r + (i - 1) * Cap + 1, Upto(i, r, Len(s)))
<1>1. x = [f \in Frag |-> IF f \in Placed(fs) THEN Chunk(IndexIn(fs, f))
                          ELSE IF f = tail THEN d[f] \o SubSeq(s, 1, r) ELSE d[f]]
  BY DEF Fill, Upto
<1> HIDE DEF x, Chunk, r
<1>2. ASSUME NEW i \in 1 .. Len(fs) PROVE x[fs[i]] = Chunk(i)
  <2>1. fs[i] \in Frag /\ fs[i] \in Placed(fs) /\ IndexIn(fs, fs[i]) = i
    BY IndexInList, ElementOfSeq DEF Lists, Placed
  <2> QED BY <1>1, <2>1
<1>3. tail \in Frag => x[tail] = d[tail] \o SubSeq(s, 1, r)
  BY <1>1
<1> QED BY <1>2, <1>3 DEF x, Chunk, r

(* The fragments fs hold what did not find room, in order.                 *)
LEMMA FilledContents ==
  ASSUME NEW x \in Fields, NEW fs \in Lists, NEW s \in Seq(Byte),
         NEW r \in 0 .. Len(s), Upto(Len(fs), r, Len(s)) = Len(s),
         \A i \in 1 .. Len(fs) :
           /\ r + (i - 1) * Cap < Len(s)
           /\ x[fs[i]] = SubSeq(s, r + (i - 1) * Cap + 1, Upto(i, r, Len(s)))
  PROVE  Contents(fs, x) = SubSeq(s, r + 1, Len(s))
<1> DEFINE L == Len(s)
           n == Len(fs)
           p == Parts(fs, x)
           g == [i \in 0 .. n |-> SubSeq(s, r + 1, Upto(i, r, L))]
<1>0. L \in Nat /\ n \in Nat /\ r \in Nat /\ r <= L /\ Cap \in Nat
  BY LenProperties, CapNat DEF Lists
<1>1. p \in Seq(Seq(Byte)) /\ Len(p) = n /\ \A i \in 1 .. n : p[i] = x[fs[i]]
  BY PartsTyped
<1> HIDE DEF p
<1>2. g[0] = <<>>
  <2>1. r + 0 * Cap = r
    BY <1>0
  <2>2. Upto(0, r, L) = r
    BY <1>0, <2>1 DEF Upto, Lesser
  <2>3. SubSeq(s, r + 1, r) = <<>>
    BY <1>0, SubSeqEmpty
  <2> QED BY <1>0, <2>2, <2>3
<1>3. ASSUME NEW i \in 1 .. n PROVE g[i] = g[i - 1] \o p[i]
  <2>0. i \in Nat \ {0} /\ i \in 0 .. n /\ i - 1 \in 0 .. n
    BY <1>0
  <2> DEFINE u == r + (i - 1) * Cap
             t == Upto(i, r, L)
             v == Upto(i - 1, r, L)
  <2>1. u \in Nat /\ u < L /\ t \in Nat /\ v \in Nat /\ t > v /\ v = Lesser(u, L)
    <3>1. r + (i - 1) * Cap < L
      OBVIOUS
    <3>2. /\ t \in Nat /\ v \in Nat /\ u \in Nat
          /\ r + (i - 1) * Cap < L => t > v
      BY <1>0, <2>0, UptoBounds
    <3> QED BY <3>1, <3>2 DEF Upto
  <2>2. r <= u
    <3> DEFINE q == (i - 1) * Cap
    <3>1. q \in Nat
      <4>1. \A a, b \in Nat : a * b \in Nat
        OBVIOUS
      <4> QED BY <1>0, <2>0, <4>1
    <3> HIDE DEF q
    <3>2. r <= r + q
      BY <1>0, <3>1
    <3> QED BY <3>2 DEF q
  <2>3. t <= L
    <3> DEFINE q == r + i * Cap
    <3>1. q \in Nat /\ t = Lesser(q, L)
      <4>1. q = u + Cap
        BY <1>0, <2>0, UptoBounds
      <4> QED BY <1>0, <2>1, <4>1 DEF Upto
    <3> HIDE DEF q
    <3> QED BY <1>0, <3>1 DEF Lesser
  <2>4. p[i] = SubSeq(s, u + 1, t)
    BY <1>1
  <2>5. g[i] = SubSeq(s, r + 1, t) /\ g[i - 1] = SubSeq(s, r + 1, v)
    BY <2>0
  <2> HIDE DEF g, u, t, v
  <2>6. v = u
    BY <1>0, <2>1 DEF Lesser
  <2>7. r + 1 \in 1 .. Len(s) + 1 /\ v \in (r + 1) - 1 .. Len(s) /\ t \in v .. Len(s)
    BY <1>0, <2>1, <2>2, <2>3, <2>6
  <2>8. SubSeq(s, r + 1, v) \o SubSeq(s, v + 1, t) = SubSeq(s, r + 1, t)
    BY <2>7, ConcatAdjacentSubSeq
  <2> QED BY <2>4, <2>5, <2>6, <2>8
<1>4. Joins(g, p, Len(p))
  <2> HIDE DEF g
  <2> QED BY <1>1, <1>2, <1>3 DEF Joins
<1>5. g[n] = SubSeq(s, r + 1, L)
  BY <1>0
<1>6. FlattenSeq(p) = g[n]
  <2> HIDE DEF g
  <2> QED BY <1>1, <1>4, FlattenIsJoin
<1>7. Contents(fs, x) = FlattenSeq(p)
  BY DEF Contents, Parts, p
<1> HIDE DEF g
<1> QED BY <1>5, <1>6, <1>7

(* A list takes the bytes s behind those it had.                           *)
LEMMA ContentsStored ==
  ASSUME NEW c \in Lists, Inj(c), NEW d \in Fields, NEW s \in Seq(Byte),
         NEW tail \in Frag \cup {NULL},
         tail = IF c = <<>> THEN NULL ELSE c[Len(c)],
         Room(tail) \in Nat,
         NEW fs \in Lists, Inj(fs), Placed(fs) \cap Placed(c) = {},
         Len(fs) = Needed(Len(s), Room(tail))
  PROVE  Contents(Link(c, tail, fs), Fill(d, tail, fs, s)) = Contents(c, d) \o s
<1> DEFINE e == Link(c, tail, fs)
           x == Fill(d, tail, fs, s)
           L == Len(s)
           r == Lesser(L, Room(tail))
<1>0. Len(c) \in Nat /\ L \in Nat /\ r \in 0 .. L
  BY LenProperties DEF Lists, Lesser
<1>1. (c = <<>> => Len(c) = 0) /\ (Len(c) = 0 => c = <<>>) /\ NULL \notin Frag
  BY EmptySeq, ValueAssumption DEF Lists
<1>2. c # <<>> => tail = c[Len(c)] /\ tail \in Frag /\ tail \in Placed(c)
  BY <1>0, <1>1, ElementOfSeq DEF Placed, Lists
<1>3. Placed(fs) \subseteq Frag /\ Placed(c) \subseteq Frag
  BY PlacedConcat
<1>4. tail \notin Placed(fs)
  BY <1>1, <1>2, <1>3
<1>5. e = c \o fs
  <2>1. <<>> \o fs = fs /\ c \o <<>> = c
    BY ConcatEmptySeq DEF Lists
  <2> QED BY <1>1, <1>2, <2>1 DEF Link
<1>6. x \in Fields /\ \A f \in Frag : f \notin Placed(fs) /\ f # tail => x[f] = d[f]
  BY <1>4, FillLengths
<1>7. /\ \A i \in 1 .. Len(fs) : x[fs[i]] = SubSeq(s, r + (i - 1) * Cap + 1, Upto(i, r, L))
      /\ tail \in Frag => x[tail] = d[tail] \o SubSeq(s, 1, r)
  BY ONLY <1>4, FillParts, d \in Fields, tail \in Frag \cup {NULL}, fs \in Lists, Inj(fs),
          s \in Seq(Byte)
<1>8. Upto(Len(fs), r, L) = L /\ \A i \in 1 .. Len(fs) : r + (i - 1) * Cap < L
  BY <1>0, NeededSuffice
<1>9. c = <<>> => r = 0
  BY <1>0 DEF Room, Lesser
<1> HIDE DEF x, r, e
<1>10. Contents(fs, x) = SubSeq(s, r + 1, L)
  <2>1. \A i \in 1 .. Len(fs) :
          /\ r + (i - 1) * Cap < Len(s)
          /\ x[fs[i]] = SubSeq(s, r + (i - 1) * Cap + 1, Upto(i, r, Len(s)))
    BY <1>7, <1>8
  <2>2. r \in 0 .. Len(s) /\ Upto(Len(fs), r, Len(s)) = Len(s)
    BY <1>0, <1>8
  <2>3. Contents(fs, x) = SubSeq(s, r + 1, Len(s))
    BY ONLY <1>6, <2>1, <2>2, FilledContents, fs \in Lists, s \in Seq(Byte)
  <2> QED BY <2>3
<1> DEFINE u == SubSeq(s, 1, r)
           v == SubSeq(s, r + 1, L)
           q == Contents(c, d)
<1>11. u \o v = s /\ u \in Seq(Byte) /\ v \in Seq(Byte)
  BY <1>0, CutSeq
<1>12. q \in Seq(Byte)
  BY ContentsTyped
<1>13. Contents(c, x) = q \o u
  <2>1. CASE c = <<>>
    <3>1. u = <<>>
      BY <1>9, <2>1, SubSeqEmpty
    <3>2. Contents(c, x) = <<>> /\ q = <<>>
      BY <1>6, <2>1, ContentsFew
    <3> HIDE DEF u, q
    <3> QED BY <3>1, <3>2, ConcatEmptySeq, <1>12
  <2>2. CASE c # <<>>
    <3>1. \A f \in Placed(c) : f # c[Len(c)] => x[f] = d[f]
      BY <1>2, <1>3, <1>6, <2>2
    <3>2. x[c[Len(c)]] = d[c[Len(c)]] \o u
      BY <1>2, <1>7, <2>2
    <3> HIDE DEF u
    <3> QED BY <1>6, <1>11, <2>2, <3>1, <3>2, ContentsGrown
  <2> QED BY <2>1, <2>2
<1>14. Contents(e, x) = Contents(c, x) \o Contents(fs, x)
  BY <1>5, <1>6, ContentsConcat
<1>16. Contents(e, x) = (q \o u) \o v
  BY <1>10, <1>13, <1>14
<1> HIDE DEF u, v, q
<1>17. (q \o u) \o v = q \o (u \o v)
  BY ONLY <1>11, <1>12, BytesAssociate
<1>18. Contents(e, x) = q \o s
  BY ONLY <1>11, <1>16, <1>17
<1> QED BY <1>18 DEF e, x, q

-----------------------------------------------------------------------------
(* Which fragment holds which byte of a list.                              *)

LEMMA Spell ==
  ASSUME NEW c \in Lists, Inj(c), NEW d \in Fields,
         NEW i \in 1 .. Len(c), NEW m \in 1 .. Len(d[c[i]])
  PROVE  /\ Offsets(c, d)[i - 1] \in Nat
         /\ Offsets(c, d)[i - 1] + m \in 1 .. Len(Contents(c, d))
         /\ Contents(c, d)[Offsets(c, d)[i - 1] + m] = d[c[i]][m]
<1>0. Len(c) \in Nat
  BY LenProperties DEF Lists
<1>1. PICK k \in Nat : k = i - 1
  <2>1. i - 1 \in Nat
    BY <1>0
  <2> QED BY <2>1
<1>2. k < Len(c) /\ k + 1 = i /\ k \in 0 .. Len(c)
  BY <1>0, <1>1
<1> DEFINE u == Contents(SubSeq(c, 1, k), d)
           v == Contents(SubSeq(c, k + 1, Len(c)), d)
           w == Contents(SubSeq(c, (k + 1) + 1, Len(c)), d)
           q == d[c[k + 1]]
           off == Offsets(c, d)[k]
<1>3. Contents(c, d) = u \o v /\ Len(u) = off /\ u \in Seq(Byte) /\ v \in Seq(Byte)
  BY <1>2, ContentsCut
<1>4. v = q \o w /\ w \in Seq(Byte) /\ q \in Seq(Byte)
  <2>1. \A y \in Fields : /\ Contents(SubSeq(c, k + 1, Len(c)), y)
                               = y[c[k + 1]] \o Contents(SubSeq(c, (k + 1) + 1, Len(c)), y)
                          /\ Contents(SubSeq(c, (k + 1) + 1, Len(c)), y) \in Seq(Byte)
                          /\ y[c[k + 1]] \in Seq(Byte)
    BY ONLY <1>2, Behind, c \in Lists, Inj(c), k \in Nat
  <2> QED BY ONLY <2>1, d \in Fields
<1> HIDE DEF u, v, w, q, off
<1>5. m \in 1 .. Len(q)
  BY <1>2 DEF q
<1>6. /\ Len(v) = Len(q) + Len(w) /\ Len(q) \in Nat /\ Len(w) \in Nat
      /\ \A j \in 1 .. Len(q) + Len(w) : v[j] = IF j <= Len(q) THEN q[j] ELSE w[j - Len(q)]
  BY ONLY <1>4, ConcatProperties, LenProperties
<1>7. /\ Len(u \o v) = Len(u) + Len(v) /\ Len(u) \in Nat /\ Len(v) \in Nat
      /\ \A j \in 1 .. Len(u) + Len(v) : (u \o v)[j] = IF j <= Len(u) THEN u[j] ELSE v[j - Len(u)]
  <2>1. u \in Seq(Byte) /\ v \in Seq(Byte)
    BY <1>3
  <2> QED BY ONLY <2>1, ConcatProperties, LenProperties
<1>8. m \in 1 .. Len(v) /\ v[m] = q[m]
  BY <1>5, <1>6
<1>9. /\ Len(u) + m \in 1 .. Len(u) + Len(v) /\ ~(Len(u) + m <= Len(u))
      /\ (Len(u) + m) - Len(u) = m
  BY <1>7, <1>8
<1>10. (u \o v)[Len(u) + m] = q[m]
  BY <1>7, <1>8, <1>9
<1>11. off \in Nat /\ off + m \in 1 .. Len(Contents(c, d)) /\ Contents(c, d)[off + m] = q[m]
  BY <1>3, <1>7, <1>9, <1>10
<1> QED BY <1>1, <1>2, <1>11 DEF off, q

LEMMA Located ==
  ASSUME NEW c \in Lists, Inj(c), NEW d \in Fields, NEW n \in 1 .. Len(Contents(c, d))
  PROVE  \E i \in 1 .. Len(c) : \E m \in 1 .. Len(d[c[i]]) :
           /\ n = Offsets(c, d)[i - 1] + m
           /\ Contents(c, d)[n] = d[c[i]][m]
<1>0. Len(c) \in Nat /\ Len(Contents(c, d)) = Total(c, d) /\ Total(c, d) \in Nat
  BY ContentsTyped, LenProperties DEF Lists
<1> DEFINE k == Cardinality(Fitting(c, d, n - 1))
           i == k + 1
           m == n - Offsets(c, d)[k]
<1>1. /\ k \in 0 .. Len(c) /\ Offsets(c, d)[k] <= n - 1
      /\ k < Len(c) => n - 1 - Offsets(c, d)[k] < Len(d[c[k + 1]])
  <2>1. n - 1 \in Nat
    BY <1>0
  <2> QED BY <2>1, FittingBounds
<1> HIDE DEF k
<1>2. Offsets(c, d)[k] \in Nat
  BY <1>1, TotalType
<1>3. k # Len(c)
  <2> SUFFICES ASSUME k = Len(c) PROVE FALSE
    OBVIOUS
  <2>1. Total(c, d) <= n - 1
    BY <1>1 DEF Total
  <2> QED BY <1>0, <2>1
<1>4. i \in 1 .. Len(c) /\ k < Len(c) /\ i - 1 = k
  BY <1>0, <1>1, <1>3
<1>5. Len(d[c[i]]) \in Nat
  BY <1>4, LenOfFragment
<1>6. m \in 1 .. Len(d[c[i]]) /\ n = Offsets(c, d)[i - 1] + m
  <2> DEFINE o == Offsets(c, d)[k]
             y == Len(d[c[i]])
  <2>1. o \in Nat /\ y \in Nat /\ n \in Nat /\ o <= n - 1 /\ n - 1 - o < y
    BY <1>0, <1>1, <1>2, <1>4, <1>5
  <2>2. m = n - o /\ Offsets(c, d)[i - 1] = o
    BY <1>4
  <2> HIDE DEF o, y, m
  <2>3. m \in 1 .. y /\ n = o + m
    BY ONLY <2>1, <2>2
  <2> QED BY <2>2, <2>3 DEF y
<1>7. Contents(c, d)[Offsets(c, d)[i - 1] + m] = d[c[i]][m]
  <2> HIDE DEF i, m
  <2> QED BY <1>4, <1>6, Spell
<1> HIDE DEF i, m
<1> QED BY <1>4, <1>6, <1>7

-----------------------------------------------------------------------------
(* What calls do to a list and to the placeholder in it.                   *)

(* List c, whose fragments hold d from index st on, has become e, whose    *)
(* fragments hold x from su on, by the bytes s entering at the end.        *)
Grown(c, d, st, e, x, su, s) ==
  /\ \E m \in Lists : e = c \o m
  /\ \A f \in Placed(c) : su[f] = st[f] /\ (f # c[Len(c)] => Len(x[f]) = Len(d[f]))
  /\ Total(c, d) <= Total(c, x)
  /\ Contents(e, x) = Contents(c, d) \o s

Starts == [Frag -> Nat]

Plain(q) == \A n \in 1 .. Len(q) : q[n] # Hole

(* Fragment i of the list is the one placeholder p recorded, and its       *)
(* reserved bytes are the only ones without a value.  The last part is     *)
(* what the walk of bulp_buffer_placeholder_set needs: the fragments it    *)
(* moves on to have their data at index 0.                                 *)
MarkedAt(c, d, st, p, i) ==
  LET at == Offsets(c, d)[i - 1] + p.off - st[p.frag]
      q == Contents(c, d)
  IN /\ c[i] = p.frag
     /\ st[p.frag] <= p.off
     /\ at + p.len <= Len(q)
     /\ \A n \in 1 .. Len(q) : q[n] = Hole <=> n - at \in 1 .. p.len
     /\ \A j \in i + 1 .. Len(c) : Offsets(c, d)[j - 1] < at + p.len => st[c[j]] = 0

Marked(c, d, st, p) == \E i \in 1 .. Len(c) : MarkedAt(c, d, st, p, i)

(* In front of a list's last fragment nothing moves when bytes are added.  *)
LEMMA OffsetsGrown ==
  ASSUME NEW c \in Lists, Inj(c), NEW d \in Fields, NEW m \in Lists, NEW x \in Fields,
         \A f \in Placed(c) : f # c[Len(c)] => Len(x[f]) = Len(d[f])
  PROVE  \A j \in 1 .. Len(c) : Offsets(c \o m, x)[j - 1] = Offsets(c, d)[j - 1]
<1> DEFINE e == c \o m
           g == Offsets(e, x)
<1>1. /\ e \in Lists /\ Len(e) = Len(c) + Len(m) /\ Len(c) \in Nat /\ Len(m) \in Nat
      /\ \A i \in 1 .. Len(c) + Len(m) : e[i] = IF i <= Len(c) THEN c[i] ELSE m[i - Len(c)]
  BY ConcatProperties, LenProperties DEF Lists
<1> HIDE DEF e
<1>2. Sums(g, e, x, Len(e))
  BY <1>1, OffsetsDef
<1> HIDE DEF g
<1> SUFFICES ASSUME NEW j \in 1 .. Len(c) PROVE g[j - 1] = Offsets(c, d)[j - 1]
  BY DEF e, g
<1>3. ASSUME NEW i \in 1 .. j - 1 PROVE g[i] = g[i - 1] + Len(d[c[i]])
  <2>1. i \in 1 .. Len(e) /\ i \in 1 .. Len(c) /\ Len(c) \in 1 .. Len(c) /\ i # Len(c)
    BY <1>1
  <2>2. e[i] = c[i] /\ c[i] \in Placed(c) /\ c[i] # c[Len(c)]
    BY <1>1, <2>1 DEF Inj, Placed
  <2> QED BY <1>2, <2>1, <2>2 DEF Sums
<1>4. Sums(g, c, d, j - 1)
  BY <1>2, <1>3 DEF Sums
<1>5. j - 1 \in 0 .. Len(c) /\ j - 1 \in 0 .. j - 1
  BY <1>1
<1> QED BY <1>4, <1>5, SumsUnique

(* A placeholder's bytes stay where they are when others are added.        *)
LEMMA MarkedGrown ==
  ASSUME NEW c \in Lists, Inj(c), NEW d \in Fields, NEW st \in Starts,
         NEW e \in Lists, NEW x \in Fields, NEW su,
         NEW p \in Placeholder, NEW s \in Seq(Byte), Plain(s),
         Grown(c, d, st, e, x, su, s), Marked(c, d, st, p)
  PROVE  Marked(e, x, su, p)
<1>1. PICK m \in Lists : e = c \o m
  BY DEF Grown
<1>2. PICK i \in 1 .. Len(c) : MarkedAt(c, d, st, p, i)
  BY DEF Marked
<1> DEFINE q == Contents(c, d)
           z == Contents(e, x)
           at == Offsets(c, d)[i - 1] + p.off - st[p.frag]
<1>3. /\ Len(e) = Len(c) + Len(m) /\ Len(c) \in Nat /\ Len(m) \in Nat
      /\ \A j \in 1 .. Len(c) : e[j] = c[j] /\ c[j] \in Placed(c)
  BY <1>1, ConcatProperties, LenProperties DEF Lists, Placed
<1>4. \A j \in 1 .. Len(c) : Offsets(e, x)[j - 1] = Offsets(c, d)[j - 1]
  <2>1. \A f \in Placed(c) : f # c[Len(c)] => Len(x[f]) = Len(d[f])
    BY DEF Grown
  <2> QED BY ONLY <1>1, <2>1, OffsetsGrown, c \in Lists, Inj(c), d \in Fields, x \in Fields
<1>5. z = q \o s /\ q \in Seq(Byte) /\ Len(q) = Total(c, d)
  BY ContentsTyped DEF Grown
<1>6. /\ Len(z) = Len(q) + Len(s) /\ Len(q) \in Nat /\ Len(s) \in Nat
      /\ \A n \in 1 .. Len(q) + Len(s) : z[n] = IF n <= Len(q) THEN q[n] ELSE s[n - Len(q)]
  <2> HIDE DEF q, z
  <2> QED BY <1>5, ConcatProperties, LenProperties
<1>7. p.off \in Nat /\ p.len \in Nat /\ st[p.frag] \in Nat /\ Offsets(c, d)[i - 1] \in Nat
  <2>1. i - 1 \in 0 .. Len(c)
    BY <1>3
  <2>2. Offsets(c, d)[i - 1] \in Nat
    BY <2>1, TotalType
  <2> QED BY <2>2 DEF Placeholder, Starts
<1>8. /\ c[i] = p.frag /\ st[p.frag] <= p.off /\ at + p.len <= Len(q)
      /\ \A n \in 1 .. Len(q) : q[n] = Hole <=> n - at \in 1 .. p.len
      /\ \A j \in i + 1 .. Len(c) : Offsets(c, d)[j - 1] < at + p.len => st[c[j]] = 0
  BY <1>2 DEF MarkedAt
<1>9. su[p.frag] = st[p.frag] /\ at \in Nat
  <2>1. su[p.frag] = st[p.frag]
    BY <1>3, <1>8 DEF Grown
  <2>2. at \in Nat
    <3> DEFINE A == Offsets(c, d)[i - 1]
               B == st[p.frag]
               C == p.off
    <3>1. A \in Nat /\ B \in Nat /\ C \in Nat /\ B <= C /\ at = A + C - B
      BY <1>7, <1>8
    <3> HIDE DEF A, B, C, at
    <3> QED BY ONLY <3>1
  <2> QED BY <2>1, <2>2
<1>10. Offsets(e, x)[i - 1] + p.off - su[p.frag] = at
  BY <1>4, <1>9
<1> HIDE DEF q, z, at
<1>11. ASSUME NEW n \in 1 .. Len(z) PROVE z[n] = Hole <=> n - at \in 1 .. p.len
  <2>1. CASE n <= Len(q)
    <3>1. n \in 1 .. Len(q) /\ z[n] = q[n]
      BY <1>6, <2>1
    <3> QED BY <1>8, <3>1
  <2>2. CASE n > Len(q)
    <3>1. n - Len(q) \in 1 .. Len(s) /\ z[n] = s[n - Len(q)]
      BY <1>6, <2>2
    <3>2. z[n] # Hole
      BY <3>1 DEF Plain
    <3>3. ~(n - at \in 1 .. p.len)
      BY <1>6, <1>7, <1>8, <1>9, <2>2
    <3> QED BY <3>2, <3>3
  <2> QED BY <1>6, <2>1, <2>2
<1>12. ASSUME NEW j \in i + 1 .. Len(e), Offsets(e, x)[j - 1] < at + p.len
       PROVE  su[e[j]] = 0
  <2>0. j \in Nat /\ i \in Nat
    BY <1>3
  <2>1. CASE j <= Len(c)
    <3>1. j \in 1 .. Len(c) /\ j \in i + 1 .. Len(c)
      BY <1>3, <2>0, <2>1
    <3>2. e[j] = c[j] /\ su[c[j]] = st[c[j]] /\ Offsets(e, x)[j - 1] = Offsets(c, d)[j - 1]
      BY <1>3, <1>4, <3>1 DEF Grown
    <3> QED BY <1>8, <1>12, <3>1, <3>2
  <2>2. CASE j > Len(c)
    <3>1. Offsets(e, x)[Len(c)] = Total(c, x)
      <4>1. Len(c) \in 0 .. Len(c)
        BY <1>3
      <4> QED BY <1>1, <4>1, TotalConcat DEF Total
    <3>2. /\ Len(c) \in 0 .. Len(e) /\ j - 1 \in Len(c) .. Len(e)
      BY <1>3, <2>0, <2>2
    <3>3. Offsets(e, x)[Len(c)] <= Offsets(e, x)[j - 1]
      BY <3>2, OffsetsMonotone
    <3>4. /\ Offsets(e, x)[Len(c)] \in Nat /\ Offsets(e, x)[j - 1] \in Nat
      <4>1. j - 1 \in 0 .. Len(e)
        BY <1>3, <2>0, <2>2
      <4> QED BY <3>2, <4>1, TotalType
    <3>5. Total(c, d) <= Offsets(e, x)[Len(c)]
      BY <3>1 DEF Grown
    <3>6. Len(q) <= Offsets(e, x)[j - 1]
      <4>1. Len(q) = Total(c, d)
        BY <1>5
      <4> QED BY <1>6, <3>3, <3>4, <3>5, <4>1
    <3> DEFINE A == Offsets(e, x)[j - 1]
               B == Len(q)
    <3>7. A \in Nat /\ B \in Nat /\ B <= A /\ A < at + p.len /\ at + p.len <= B /\ at \in Nat
          /\ p.len \in Nat
      BY ONLY <1>6, <1>7, <1>8, <1>9, <1>12, <3>4, <3>6
    <3> HIDE DEF A, B
    <3>8. FALSE
      BY ONLY <3>7
    <3> QED BY <3>8
  <2> QED BY <1>3, <2>0, <2>1, <2>2
<1>13. MarkedAt(e, x, su, p, i)
  <2>1. e[i] = p.frag /\ su[p.frag] <= p.off /\ at + p.len <= Len(z)
    BY <1>3, <1>6, <1>7, <1>8, <1>9
  <2> QED BY <1>10, <1>11, <1>12, <2>1 DEF MarkedAt, z
<1>14. i \in 1 .. Len(e)
  BY <1>3
<1> QED BY <1>13, <1>14 DEF Marked

(* Offsets in what is left of a list whose first k fragments and `part'    *)
(* bytes of the next one are gone.                                         *)
LEMMA OffsetsTaken ==
  ASSUME NEW c \in Lists, NEW d \in Fields, NEW k \in 0 .. Len(c), NEW part \in Nat,
         NEW x \in Fields,
         k < Len(c) => Len(x[c[k + 1]]) = Len(d[c[k + 1]]) - part,
         \A i \in k + 1 .. Len(c) : i # k + 1 => x[c[i]] = d[c[i]]
  PROVE  \A j \in k + 2 .. Len(c) :
           Offsets(SubSeq(c, k + 1, Len(c)), x)[(j - k) - 1]
             = Offsets(c, d)[j - 1] - (Offsets(c, d)[k] + part)
<1> DEFINE z == SubSeq(c, k + 1, Len(c))
           n == Offsets(c, d)[k] + part
           f == Offsets(c, d)
           g == [m \in 0 .. Len(z) |-> IF m = 0 THEN 0 ELSE f[k + m] - n]
<1>0. /\ z \in Lists /\ Len(z) = Len(c) - k /\ Len(c) \in Nat /\ k \in Nat
      /\ \A i \in 1 .. Len(c) - k : z[i] = c[k + i]
  BY Cut, LenProperties DEF Lists
<1>1. Sums(f, c, d, Len(c)) /\ f \in [0 .. Len(c) -> Nat]
  BY OffsetsDef
<1> HIDE DEF z, f
<1>2. f[k] \in Nat /\ n = f[k] + part
  BY <1>1 DEF f
<1>3. g[0] = 0
  BY <1>0
<1>4. ASSUME NEW m \in 1 .. Len(z) PROVE g[m] = g[m - 1] + Len(x[z[m]])
  <2>1. /\ k + m \in 1 .. Len(c) /\ m \in 0 .. Len(z) /\ m - 1 \in 0 .. Len(z)
        /\ (k + m) - 1 = k + (m - 1) /\ k + m - 1 \in 0 .. Len(c)
    BY <1>0
  <2>2. f[k + m] = f[k + (m - 1)] + Len(d[c[k + m]]) /\ z[m] = c[k + m]
    BY <1>0, <1>1, <2>1 DEF Sums
  <2>3. f[k + m] \in Nat /\ f[k + (m - 1)] \in Nat /\ Len(d[c[k + m]]) \in Nat
    <3>1. Len(d[c[k + m]]) \in Nat
      BY <2>1, LenOfFragment
    <3>2. k + m \in 0 .. Len(c) /\ k + (m - 1) \in 0 .. Len(c)
      BY <2>1
    <3> QED BY <1>1, <3>1, <3>2
  <2>4. g[m] = f[k + m] - n
    BY <2>1
  <2>5. CASE m = 1
    <3>1. g[m - 1] = 0 /\ f[k + (m - 1)] = f[k] /\ k < Len(c) /\ k + m = k + 1
      BY <1>0, <2>1, <2>5
    <3>2. Len(x[z[m]]) = Len(d[c[k + m]]) - part
      BY <2>2, <3>1
    <3>3. n \in Nat
      BY <1>2
    <3> DEFINE u == f[k]
               v == f[k + m]
               y == Len(d[c[k + m]])
               t == Len(x[z[m]])
    <3>4. /\ u \in Nat /\ v \in Nat /\ y \in Nat /\ n = u + part /\ v = u + y
          /\ g[m] = v - n /\ g[m - 1] = 0 /\ t = y - part
      BY <1>2, <2>2, <2>3, <2>4, <3>1, <3>2
    <3> HIDE DEF g, n, u, v, y, t
    <3>5. g[m] = g[m - 1] + t
      BY <3>3, <3>4
    <3> QED BY <3>5 DEF t
  <2>6. CASE m # 1
    <3>1. m - 1 # 0 /\ k + m # k + 1 /\ k + m \in k + 1 .. Len(c)
      BY ONLY <1>0, <2>1, <2>6, m \in 1 .. Len(z)
    <3>2. g[m - 1] = f[k + (m - 1)] - n
      BY <2>1, <3>1
    <3>5. Len(x[z[m]]) = Len(d[c[k + m]])
      <4>1. x[c[k + m]] = d[c[k + m]]
        BY ONLY <3>1, \A h \in k + 1 .. Len(c) : h # k + 1 => x[c[h]] = d[c[h]]
      <4> QED BY ONLY <2>2, <4>1
    <3>3. n \in Nat
      BY <1>2
    <3> DEFINE u == f[k + (m - 1)]
               v == f[k + m]
               y == Len(d[c[k + m]])
               t == Len(x[z[m]])
    <3>4. /\ u \in Nat /\ v \in Nat /\ y \in Nat /\ v = u + y
          /\ g[m] = v - n /\ g[m - 1] = u - n /\ t = y
      BY <2>2, <2>3, <2>4, <3>2, <3>5
    <3> HIDE DEF g, n, u, v, y, t
    <3>6. g[m] = g[m - 1] + t
      BY ONLY <3>3, <3>4
    <3> QED BY <3>6 DEF t
  <2> QED BY <2>5, <2>6
<1>5. Sums(g, z, x, Len(z))
  <2> HIDE DEF g
  <2> QED BY <1>3, <1>4 DEF Sums
<1>6. \A i \in 0 .. Len(z) : Offsets(z, x)[i] = g[i]
  <2>1. Len(z) \in 0 .. Len(z)
    BY <1>0
  <2> HIDE DEF g
  <2> QED BY <1>0, <1>5, <2>1, SumsUnique
<1>7. ASSUME NEW j \in k + 2 .. Len(c)
      PROVE  Offsets(z, x)[(j - k) - 1] = f[j - 1] - n
  <2>1. (j - k) - 1 \in 0 .. Len(z) /\ (j - k) - 1 # 0 /\ k + ((j - k) - 1) = j - 1
    BY <1>0
  <2>2. g[(j - k) - 1] = f[j - 1] - n
    BY <2>1
  <2> QED BY <1>6, <2>1, <2>2
<1> QED BY <1>7 DEF z, f

(* A placeholder behind what is taken from the front stays where it is.    *)
LEMMA MarkedTaken ==
  ASSUME NEW c \in Lists, Inj(c), NEW d \in Fields, NEW st \in Starts,
         NEW k \in 0 .. Len(c), NEW part \in Nat,
         k < Len(c) => part <= Len(d[c[k + 1]]), k = Len(c) => part = 0,
         NEW x \in Fields,
         k < Len(c) => x[c[k + 1]] = SubSeq(d[c[k + 1]], part + 1, Len(d[c[k + 1]])),
         \A i \in k + 1 .. Len(c) : i # k + 1 => x[c[i]] = d[c[i]],
         NEW su,
         k < Len(c) => su[c[k + 1]] = st[c[k + 1]] + part,
         \A i \in k + 1 .. Len(c) : i # k + 1 => su[c[i]] = st[c[i]],
         NEW p \in Placeholder, NEW i \in 1 .. Len(c), MarkedAt(c, d, st, p, i), i > k,
         Offsets(c, d)[k] + part <= Offsets(c, d)[i - 1] + p.off - st[p.frag]
  PROVE  Marked(SubSeq(c, k + 1, Len(c)), x, su, p)
<1> DEFINE z == SubSeq(c, k + 1, Len(c))
           n == Offsets(c, d)[k] + part
           q == Contents(c, d)
           w == Contents(z, x)
           at == Offsets(c, d)[i - 1] + p.off - st[p.frag]
           l == i - k
<1>0. /\ z \in Lists /\ Len(z) = Len(c) - k /\ Len(c) \in Nat /\ k \in Nat /\ i \in Nat
      /\ \A j \in 1 .. Len(c) - k : z[j] = c[k + j]
  BY Cut, LenProperties DEF Lists
<1>1. k < Len(c) /\ k + 1 \in 1 .. Len(c) /\ c[k + 1] \in Frag /\ i - 1 \in 0 .. Len(c)
  BY <1>0, LenOfFragment
<1>2. n \in 0 .. Len(q) /\ w = SubSeq(q, n + 1, Len(q)) /\ q \in Seq(Byte)
  <2>1. q \in Seq(Byte)
    BY ContentsTyped
  <2>2. k < Len(c) => part <= Len(d[c[k + 1]])
    OBVIOUS
  <2>3. k = Len(c) => part = 0
    OBVIOUS
  <2>4. k < Len(c) => x[c[k + 1]] = SubSeq(d[c[k + 1]], part + 1, Len(d[c[k + 1]]))
    OBVIOUS
  <2>5. \A h \in k + 1 .. Len(c) : h # k + 1 => x[c[h]] = d[c[h]]
    OBVIOUS
  <2>6. Cuts(c, d, k, part, z, x)
    BY ONLY <2>2, <2>3, <2>4, <2>5, ContentsTaken, c \in Lists, Inj(c), d \in Fields, x \in Fields,
            k \in 0 .. Len(c), part \in Nat
  <2> HIDE DEF z
  <2>7. n \in 0 .. Len(q) /\ w = SubSeq(q, n + 1, Len(q))
    BY ONLY <2>6 DEF Cuts
  <2> QED BY <2>1, <2>7
<1>3. /\ c[i] = p.frag /\ st[p.frag] <= p.off /\ at + p.len <= Len(q)
      /\ \A m \in 1 .. Len(q) : q[m] = Hole <=> m - at \in 1 .. p.len
      /\ \A j \in i + 1 .. Len(c) : Offsets(c, d)[j - 1] < at + p.len => st[c[j]] = 0
  BY DEF MarkedAt
<1>4. /\ p.off \in Nat /\ p.len \in Nat /\ p.frag \in Frag /\ st[p.frag] \in Nat
      /\ Offsets(c, d)[i - 1] \in Nat /\ Offsets(c, d)[k] \in Nat
  BY <1>1, TotalType DEF Placeholder, Starts
<1>5. Len(x[c[k + 1]]) = Len(d[c[k + 1]]) - part
  <2> DEFINE f == c[k + 1]
  <2>1. f \in Frag /\ part <= Len(d[f]) /\ x[f] = SubSeq(d[f], part + 1, Len(d[f]))
    BY <1>1
  <2> HIDE DEF f
  <2>2. Len(x[f]) = Len(d[f]) - part
    BY ONLY <2>1, Advanced, d \in Fields, part \in Nat
  <2> QED BY <2>2 DEF f
<1> HIDE DEF q, w, z
<1>6. Len(q) \in Nat /\ Len(w) = Len(q) - n /\ \A m \in 1 .. Len(q) - n : w[m] = q[n + m]
  <2> HIDE DEF n
  <2> QED BY ONLY <1>2, CutSeq, LenProperties
<1>7. \A j \in k + 2 .. Len(c) : Offsets(z, x)[(j - k) - 1] = Offsets(c, d)[j - 1] - n
  <2>1. k < Len(c) => Len(x[c[k + 1]]) = Len(d[c[k + 1]]) - part
    BY <1>5
  <2>2. \A h \in k + 1 .. Len(c) : h # k + 1 => x[c[h]] = d[c[h]]
    OBVIOUS
  <2> QED BY ONLY <2>1, <2>2, OffsetsTaken, c \in Lists, d \in Fields, x \in Fields,
                  k \in 0 .. Len(c), part \in Nat DEF z
<1>8. Offsets(z, x)[0] = 0
  BY ONLY <1>0, TotalType, x \in Fields
<1>9. l \in 1 .. Len(z) /\ z[l] = p.frag
  <2>1. i \in 1 .. Len(c) /\ i > k
    OBVIOUS
  <2>2. l \in 1 .. Len(z) /\ l \in 1 .. Len(c) - k /\ k + l = i
    BY ONLY <1>0, <2>1
  <2> QED BY <1>0, <1>3, <2>2
<1>10. su[p.frag] <= p.off /\ Offsets(z, x)[l - 1] + p.off - su[p.frag] = at - n
  <2>1. CASE i = k + 1
    <3>1. su[p.frag] = st[p.frag] + part
      BY <1>1, <1>3, <2>1
    <3>2. l - 1 = 0 /\ i - 1 = k
      BY ONLY <1>0, <2>1
    <3> DEFINE A == Offsets(c, d)[k]
               B == st[p.frag]
               C == p.off
               D == Offsets(z, x)[l - 1]
               E == su[p.frag]
    <3>3. /\ A \in Nat /\ B \in Nat /\ C \in Nat /\ part \in Nat /\ E = B + part /\ D = 0
          /\ at = A + C - B /\ n = A + part /\ n <= at
      BY <1>4, <1>8, <3>1, <3>2
    <3> HIDE DEF A, B, C, D, E, n, at
    <3>4. E <= C /\ D + C - E = at - n
      BY ONLY <3>3
    <3> QED BY <3>4 DEF C, D, E
  <2>2. CASE i # k + 1
    <3>1. i \in k + 2 .. Len(c) /\ i \in k + 1 .. Len(c)
      <4>1. i \in 1 .. Len(c) /\ i > k
        OBVIOUS
      <4> QED BY ONLY <1>0, <2>2, <4>1
    <3>2. su[p.frag] = st[p.frag] /\ Offsets(z, x)[l - 1] = Offsets(c, d)[i - 1] - n
      <4>1. su[c[i]] = st[c[i]]
        BY <2>2, <3>1
      <4> HIDE DEF n
      <4> QED BY ONLY <1>3, <1>7, <3>1, <4>1
    <3>3. n \in Nat /\ st[p.frag] <= p.off
      <4>1. n \in Nat
        BY ONLY <1>4, part \in Nat
      <4> QED BY <1>3, <4>1
    <3> DEFINE A == Offsets(c, d)[i - 1]
               B == st[p.frag]
               C == p.off
               D == Offsets(z, x)[l - 1]
               E == su[p.frag]
    <3>4. A \in Nat /\ B \in Nat /\ C \in Nat /\ E = B /\ D = A - n /\ at = A + C - B /\ B <= C
      BY ONLY <1>4, <3>2, <3>3
    <3> HIDE DEF A, B, C, D, E, n, at
    <3>5. E <= C /\ D + C - E = at - n
      BY ONLY <3>3, <3>4
    <3> QED BY <3>5 DEF C, D, E
  <2> QED BY <2>1, <2>2
<1>11. at \in Nat /\ n \in Nat /\ n <= at
  <2>1. n <= at
    OBVIOUS
  <2>2. st[p.frag] <= p.off
    BY <1>3
  <2> DEFINE A == Offsets(c, d)[i - 1]
             B == st[p.frag]
             C == p.off
  <2>3. A \in Nat /\ B \in Nat /\ C \in Nat /\ at = A + C - B /\ B <= C
    BY ONLY <1>4, <2>2
  <2> HIDE DEF A, B, C
  <2>4. at \in Nat
    <3> HIDE DEF at
    <3> QED BY ONLY <2>3
  <2>5. n \in Nat /\ part \in Nat
    BY ONLY <1>4, part \in Nat
  <2> HIDE DEF at, n
  <2> QED BY ONLY <2>1, <2>4, <2>5
<1> HIDE DEF at, n
<1>12. (at - n) + p.len <= Len(w)
  <2> DEFINE A == Len(q)
             B == Len(w)
  <2>1. A \in Nat /\ B = A - n /\ at + p.len <= A /\ p.len \in Nat /\ at \in Nat /\ n \in Nat
    BY ONLY <1>3, <1>4, <1>6, <1>11
  <2> HIDE DEF A, B
  <2>2. (at - n) + p.len <= B
    BY ONLY <2>1
  <2> QED BY <2>2 DEF B
<1>13. ASSUME NEW m \in 1 .. Len(w) PROVE w[m] = Hole <=> m - (at - n) \in 1 .. p.len
  <2>1. m \in 1 .. Len(q) - n
    BY ONLY <1>6, m \in 1 .. Len(w)
  <2>2. w[m] = q[n + m]
    BY ONLY <1>6, <2>1
  <2>3. n + m \in 1 .. Len(q) /\ m - (at - n) = (n + m) - at
    BY ONLY <1>6, <1>11, <2>1
  <2>4. q[n + m] = Hole <=> (n + m) - at \in 1 .. p.len
    BY ONLY <1>3, <2>3
  <2> QED BY ONLY <2>2, <2>3, <2>4
<1>14. ASSUME NEW j \in l + 1 .. Len(z), Offsets(z, x)[j - 1] < (at - n) + p.len
       PROVE  su[z[j]] = 0
  <2>1. PICK h \in Nat : h = k + j
    <3>1. k + j \in Nat
      BY <1>0
    <3> QED BY <3>1
  <2>2. /\ h \in k + 2 .. Len(c) /\ h \in i + 1 .. Len(c) /\ h \in k + 1 .. Len(c)
        /\ h # k + 1 /\ j = h - k /\ j \in 1 .. Len(c) - k /\ h - 1 \in 0 .. Len(c)
    <3>1. i \in 1 .. Len(c) /\ i > k /\ j \in l + 1 .. Len(z)
      OBVIOUS
    <3> QED BY ONLY <1>0, <2>1, <3>1
  <2>3. Offsets(z, x)[j - 1] = Offsets(c, d)[h - 1] - n
    BY ONLY <1>7, <2>2
  <2>4. Offsets(c, d)[h - 1] \in Nat
    BY ONLY <2>2, TotalType, c \in Lists, d \in Fields
  <2>5. Offsets(c, d)[h - 1] < at + p.len
    <3> DEFINE A == Offsets(c, d)[h - 1]
               B == Offsets(z, x)[j - 1]
    <3>1. A \in Nat /\ B = A - n /\ B < (at - n) + p.len
      BY <1>14, <2>3, <2>4
    <3>2. n \in Nat /\ at \in Nat /\ p.len \in Nat
      BY ONLY <1>4, <1>11
    <3> HIDE DEF A, B
    <3>3. A < at + p.len
      BY ONLY <3>1, <3>2
    <3> QED BY <3>3 DEF A
  <2>6. st[c[h]] = 0 /\ z[j] = c[h]
    BY ONLY <1>0, <1>3, <2>1, <2>2, <2>5
  <2>7. su[c[h]] = st[c[h]]
    BY <2>2
  <2> QED BY <2>6, <2>7
<1>15. MarkedAt(z, x, su, p, l)
  <2> HIDE DEF l
  <2> QED BY <1>9, <1>10, <1>12, <1>13, <1>14 DEF MarkedAt, w
<1> HIDE DEF l
<1> QED BY <1>9, <1>15 DEF Marked, z

LEMMA OffsetsLater ==
  ASSUME NEW a \in Lists, NEW c \in Lists, NEW d \in Fields
  PROVE  \A i \in 0 .. Len(c) : Offsets(a \o c, d)[Len(a) + i] = Total(a, d) + Offsets(c, d)[i]
<1> DEFINE e == a \o c
           f == Offsets(a, d)
           h == Offsets(c, d)
           g == [i \in 0 .. Len(e) |-> IF i <= Len(a) THEN f[i] ELSE f[Len(a)] + h[i - Len(a)]]
<1>1. /\ e \in Lists /\ Len(e) = Len(a) + Len(c) /\ Len(a) \in Nat /\ Len(c) \in Nat
      /\ \A i \in 1 .. Len(a) + Len(c) : e[i] = IF i <= Len(a) THEN a[i] ELSE c[i - Len(a)]
  BY ConcatProperties, LenProperties DEF Lists
<1>2. /\ Sums(f, a, d, Len(a)) /\ f \in [0 .. Len(a) -> Nat]
      /\ Sums(h, c, d, Len(c)) /\ h \in [0 .. Len(c) -> Nat]
      /\ Total(a, d) = f[Len(a)]
  BY OffsetsDef DEF Total
<1> HIDE DEF e, f, h
<1>3. Sums(g, e, d, Len(e))
  <2>1. g[0] = 0
    BY <1>1, <1>2 DEF Sums
  <2>2. ASSUME NEW i \in 1 .. Len(e) PROVE g[i] = g[i - 1] + Len(d[e[i]])
    <3>1. i \in 0 .. Len(e) /\ i - 1 \in 0 .. Len(e) /\ i \in 1 .. Len(a) + Len(c)
      BY <1>1
    <3>2. CASE i <= Len(a)
      <4>1. i \in 1 .. Len(a) /\ i - 1 <= Len(a)
        BY <1>1, <3>2
      <4> QED BY <1>1, <1>2, <3>1, <3>2, <4>1 DEF Sums
    <3>3. CASE i > Len(a)
      <4>1. /\ i - Len(a) \in 1 .. Len(c) /\ ~(i <= Len(a)) /\ e[i] = c[i - Len(a)]
            /\ (i - Len(a)) - 1 = (i - 1) - Len(a) /\ (i - Len(a)) - 1 \in 0 .. Len(c)
        BY <1>1, <3>1, <3>3
      <4>2. h[i - Len(a)] = h[(i - 1) - Len(a)] + Len(d[e[i]])
        BY <1>2, <4>1 DEF Sums
      <4>3. g[i] = f[Len(a)] + h[i - Len(a)]
        BY <3>1, <4>1
      <4>4. g[i - 1] = f[Len(a)] + h[(i - 1) - Len(a)]
        <5>1. CASE i - 1 <= Len(a)
          <6>1. i - 1 = Len(a) /\ (i - 1) - Len(a) = 0 /\ h[0] = 0 /\ f[Len(a)] \in Nat
            BY <1>1, <1>2, <3>3, <5>1 DEF Sums
          <6>2. g[i - 1] = f[Len(a)]
            BY <3>1, <5>1, <6>1
          <6> HIDE DEF g
          <6> QED BY <6>1, <6>2
        <5>2. CASE ~(i - 1 <= Len(a))
          BY <3>1, <5>2
        <5> QED BY <5>1, <5>2
      <4>5. f[Len(a)] \in Nat /\ h[(i - 1) - Len(a)] \in Nat /\ Len(d[e[i]]) \in Nat
        <5>1. Len(a) \in 0 .. Len(a) /\ (i - 1) - Len(a) \in 0 .. Len(c)
          BY <1>1, <4>1
        <5>2. Len(d[e[i]]) \in Nat
          BY <1>1, LenOfFragment
        <5> QED BY <1>2, <5>1, <5>2
      <4> HIDE DEF g
      <4> QED BY <4>2, <4>3, <4>4, <4>5
    <3> QED BY <1>1, <3>2, <3>3
  <2> HIDE DEF g
  <2> QED BY <2>1, <2>2 DEF Sums
<1>4. \A i \in 0 .. Len(e) : Offsets(e, d)[i] = g[i]
  <2>1. Len(e) \in 0 .. Len(e)
    BY <1>1
  <2> HIDE DEF g
  <2> QED BY <1>1, <1>3, <2>1, SumsUnique
<1>5. ASSUME NEW i \in 0 .. Len(c) PROVE Offsets(e, d)[Len(a) + i] = f[Len(a)] + h[i]
  <2>1. Len(a) + i \in 0 .. Len(e)
    BY <1>1
  <2>2. g[Len(a) + i] = f[Len(a)] + h[i]
    <3>1. CASE i = 0
      <4>1. Len(a) + i = Len(a) /\ h[i] = 0 /\ f[Len(a)] \in Nat /\ Len(a) \in 0 .. Len(e)
        BY <1>1, <1>2, <3>1 DEF Sums
      <4>2. g[Len(a) + i] = f[Len(a)]
        <5>1. g[Len(a)] = f[Len(a)]
          BY <1>1, <4>1
        <5> HIDE DEF g
        <5> QED BY <4>1, <5>1
      <4> HIDE DEF g
      <4> QED BY <4>1, <4>2
    <3>2. CASE i # 0
      <4>1. ~(Len(a) + i <= Len(a)) /\ (Len(a) + i) - Len(a) = i
        BY <1>1, <3>2
      <4> QED BY <2>1, <4>1
    <3> QED BY <3>1, <3>2
  <2> HIDE DEF g
  <2> QED BY <1>4, <2>1, <2>2
<1> QED BY <1>2, <1>5 DEF e, h

(* A list with a placeholder, linked behind one without.                   *)
LEMMA MarkedBehind ==
  ASSUME NEW a \in Lists, NEW c \in Lists, NEW d \in Fields, NEW st \in Starts,
         NEW p \in Placeholder, Plain(Contents(a, d)), Marked(c, d, st, p)
  PROVE  Marked(a \o c, d, st, p)
<1> DEFINE e == a \o c
           q == Contents(c, d)
           r == Contents(a, d)
           z == Contents(e, d)
           t == Total(a, d)
<1>1. PICK i \in 1 .. Len(c) : MarkedAt(c, d, st, p, i)
  BY DEF Marked
<1> DEFINE at == Offsets(c, d)[i - 1] + p.off - st[p.frag]
<1>2. /\ e \in Lists /\ Len(e) = Len(a) + Len(c) /\ Len(a) \in Nat /\ Len(c) \in Nat
      /\ \A j \in 1 .. Len(a) + Len(c) : e[j] = IF j <= Len(a) THEN a[j] ELSE c[j - Len(a)]
  BY ConcatProperties, LenProperties DEF Lists
<1>3. \A j \in 0 .. Len(c) : Offsets(e, d)[Len(a) + j] = t + Offsets(c, d)[j]
  BY OffsetsLater
<1>4. z = r \o q /\ q \in Seq(Byte) /\ r \in Seq(Byte) /\ Len(r) = t
  BY ContentsConcat, ContentsTyped
<1>5. /\ c[i] = p.frag /\ st[p.frag] <= p.off /\ at + p.len <= Len(q)
      /\ \A n \in 1 .. Len(q) : q[n] = Hole <=> n - at \in 1 .. p.len
      /\ \A j \in i + 1 .. Len(c) : Offsets(c, d)[j - 1] < at + p.len => st[c[j]] = 0
  BY <1>1 DEF MarkedAt
<1>6. i - 1 \in 0 .. Len(c) /\ i \in Nat
  BY <1>2
<1>7. /\ p.off \in Nat /\ p.len \in Nat /\ p.frag \in Frag /\ st[p.frag] \in Nat
      /\ Offsets(c, d)[i - 1] \in Nat
  BY <1>6, TotalType DEF Placeholder, Starts
<1> HIDE DEF q, r, z, e, t
<1>8. /\ Len(z) = t + Len(q) /\ Len(q) \in Nat /\ t \in Nat
      /\ \A n \in 1 .. t + Len(q) : z[n] = IF n <= t THEN r[n] ELSE q[n - t]
  BY <1>4, ConcatProperties, LenProperties
<1>9. at \in Nat /\ Offsets(e, d)[(Len(a) + i) - 1] + p.off - st[p.frag] = t + at
  <2>1. Offsets(e, d)[Len(a) + (i - 1)] = t + Offsets(c, d)[i - 1]
    BY <1>3, <1>6
  <2>2. Len(a) + (i - 1) = (Len(a) + i) - 1
    BY <1>2, <1>6
  <2>3. st[p.frag] <= p.off
    BY <1>5
  <2> DEFINE A == Offsets(c, d)[i - 1]
             B == st[p.frag]
             C == p.off
             D == Offsets(e, d)[(Len(a) + i) - 1]
  <2>4. A \in Nat /\ B \in Nat /\ C \in Nat /\ at = A + C - B /\ B <= C /\ D = t + A
    BY <1>7, <2>1, <2>2, <2>3
  <2>5. t \in Nat
    BY <1>8
  <2> HIDE DEF A, B, C, D, at
  <2>6. at \in Nat /\ D + C - B = t + at
    BY <2>4, <2>5
  <2> QED BY <2>6 DEF B, C, D
<1> HIDE DEF at
<1>10. /\ Len(a) + i \in 1 .. Len(e) /\ e[Len(a) + i] = p.frag /\ (t + at) + p.len <= Len(z)
  <2>1. /\ Len(a) + i \in 1 .. Len(a) + Len(c) /\ ~(Len(a) + i <= Len(a))
        /\ (Len(a) + i) - Len(a) = i
    BY <1>2, <1>6
  <2>2. Len(a) + i \in 1 .. Len(e) /\ e[Len(a) + i] = p.frag
    BY <1>2, <1>5, <2>1
  <2>3. at \in Nat /\ p.len \in Nat /\ t \in Nat /\ Len(q) \in Nat /\ at + p.len <= Len(q)
        /\ Len(z) = t + Len(q)
    BY <1>5, <1>7, <1>8, <1>9
  <2>4. (t + at) + p.len <= Len(z)
    BY <2>3
  <2> QED BY <2>2, <2>4
<1>11. ASSUME NEW n \in 1 .. Len(z) PROVE z[n] = Hole <=> n - (t + at) \in 1 .. p.len
  <2>1. CASE n <= t
    <3>1. n \in 1 .. Len(r) /\ z[n] = r[n]
      BY <1>4, <1>8, <2>1
    <3>2. z[n] # Hole
      BY <3>1 DEF Plain, r
    <3> QED BY <1>7, <1>8, <1>9, <2>1, <3>2
  <2>2. CASE n > t
    <3>1. n - t \in 1 .. Len(q) /\ (n - t) - at = n - (t + at) /\ n \in 1 .. t + Len(q)
      BY ONLY <1>8, <1>9, <2>2, n \in 1 .. Len(z)
    <3>2. z[n] = q[n - t]
      BY ONLY <1>8, <2>2, <3>1
    <3>3. q[n - t] = Hole <=> (n - t) - at \in 1 .. p.len
      BY ONLY <1>5, <3>1
    <3> QED BY ONLY <3>1, <3>2, <3>3
  <2> QED BY <1>8, <2>1, <2>2
<1>12. ASSUME NEW j \in (Len(a) + i) + 1 .. Len(e), Offsets(e, d)[j - 1] < (t + at) + p.len
       PROVE  st[e[j]] = 0
  <2>1. PICK m \in Nat : m = j - Len(a)
    <3>1. j - Len(a) \in Nat
      BY <1>2, <1>6
    <3> QED BY <3>1
  <2>2. /\ m \in i + 1 .. Len(c) /\ m - 1 \in 0 .. Len(c) /\ j - 1 = Len(a) + (m - 1)
        /\ j \in 1 .. Len(a) + Len(c) /\ ~(j <= Len(a))
    BY <1>2, <1>6, <2>1
  <2>3. e[j] = c[m] /\ Offsets(e, d)[j - 1] = t + Offsets(c, d)[m - 1]
    BY <1>2, <1>3, <2>1, <2>2
  <2>4. Offsets(c, d)[m - 1] \in Nat
    BY <2>2, TotalType
  <2>5. Offsets(c, d)[m - 1] < at + p.len
    <3> DEFINE A == Offsets(c, d)[m - 1]
               B == Offsets(e, d)[j - 1]
    <3>1. A \in Nat /\ B = t + A /\ B < (t + at) + p.len
      BY <1>12, <2>3, <2>4
    <3>2. t \in Nat /\ at \in Nat /\ p.len \in Nat
      BY <1>7, <1>8, <1>9
    <3> HIDE DEF A, B
    <3>3. A < at + p.len
      BY <3>1, <3>2
    <3> QED BY <3>3 DEF A
  <2> QED BY <1>5, <2>2, <2>3, <2>5
<1>13. MarkedAt(e, d, st, p, Len(a) + i)
  BY <1>5, <1>9, <1>10, <1>11, <1>12 DEF MarkedAt, z
<1> QED BY <1>10, <1>13 DEF Marked, e

-----------------------------------------------------------------------------
(* How lists grow.                                                         *)

LEMMA GrownUntouched ==
  ASSUME NEW c \in Lists, NEW d \in Fields, NEW st, NEW x \in Fields, NEW su,
         \A f \in Placed(c) : x[f] = d[f] /\ su[f] = st[f]
  PROVE  Grown(c, d, st, c, x, su, <<>>)
<1>1. <<>> \in Lists /\ c = c \o <<>>
  BY ConcatEmptySeq DEF Lists
<1>2. Contents(c, x) = Contents(c, d) /\ Contents(c, d) \in Seq(Byte)
  BY ContentsSame, ContentsTyped
<1>3. Contents(c, d) = Contents(c, d) \o <<>>
  BY <1>2, ConcatEmptySeq
<1>4. Total(c, d) <= Total(c, x)
  <2>1. Total(c, d) = Total(c, x) /\ Total(c, d) \in Nat
    BY OffsetsSame, TotalType
  <2> QED BY <2>1
<1> QED BY <1>1, <1>2, <1>3, <1>4 DEF Grown

(* A list is linked behind, and nothing is copied.                         *)
LEMMA GrownLinked ==
  ASSUME NEW c \in Lists, NEW m \in Lists, NEW d \in Fields, NEW st
  PROVE  Grown(c, d, st, c \o m, d, st, Contents(m, d))
<1>1. Contents(c \o m, d) = Contents(c, d) \o Contents(m, d)
  BY ContentsConcat
<1>2. Total(c, d) <= Total(c, d)
  BY TotalType
<1> QED BY <1>1, <1>2 DEF Grown

(* The bytes s are stored behind a list, in its room and in the new fs:    *)
(* x are the fields, and su the starts, that come of it.                   *)
Storing(c, d, s, tail, fs, st, su, x) ==
  /\ c \in Lists /\ Inj(c) /\ d \in Fields /\ s \in Seq(Byte)
  /\ tail \in Frag \cup {NULL} /\ tail = (IF c = <<>> THEN NULL ELSE c[Len(c)])
  /\ Room(tail) \in Nat
  /\ fs \in Lists /\ Inj(fs) /\ Placed(fs) \cap Placed(c) = {}
  /\ Len(fs) = Needed(Len(s), Room(tail))
  /\ \A f \in Placed(c) : su[f] = st[f]
  /\ x \in Fields
  /\ \A f \in Placed(c) \cup Placed(fs) : x[f] = Fill(d, tail, fs, s)[f]

LEMMA GrownStored ==
  ASSUME NEW c, NEW d, NEW s, NEW tail, NEW fs, NEW st, NEW su, NEW x,
         Storing(c, d, s, tail, fs, st, su, x)
  PROVE  /\ Link(c, tail, fs) = c \o fs
         /\ Grown(c, d, st, Link(c, tail, fs), x, su, s)
<1>s. /\ c \in Lists /\ Inj(c) /\ d \in Fields /\ s \in Seq(Byte)
      /\ tail \in Frag \cup {NULL} /\ tail = (IF c = <<>> THEN NULL ELSE c[Len(c)])
      /\ Room(tail) \in Nat
      /\ fs \in Lists /\ Inj(fs) /\ Placed(fs) \cap Placed(c) = {}
      /\ Len(fs) = Needed(Len(s), Room(tail))
      /\ \A f \in Placed(c) : su[f] = st[f]
      /\ x \in Fields
      /\ \A f \in Placed(c) \cup Placed(fs) : x[f] = Fill(d, tail, fs, s)[f]
  BY DEF Storing
<1> USE <1>s
<1> DEFINE e == Link(c, tail, fs)
           w == Fill(d, tail, fs, s)
           r == Lesser(Len(s), Room(tail))
<1>0. Len(c) \in Nat /\ (c = <<>> <=> Len(c) = 0) /\ NULL \notin Frag
  BY EmptySeq, ValueAssumption DEF Lists
<1>1. /\ Placed(fs) \subseteq Frag /\ Placed(c) \subseteq Frag
      /\ c # <<>> => tail = c[Len(c)] /\ tail \in Placed(c) /\ Len(c) \in 1 .. Len(c)
  BY <1>0, PlacedConcat DEF Placed
<1>2. tail \notin Placed(fs)
  BY <1>0, <1>1
<1>3. e = c \o fs
  <2>1. <<>> \o fs = fs /\ c \o <<>> = c
    BY ConcatEmptySeq DEF Lists
  <2> QED BY <1>0, <1>1, <2>1 DEF Link
<1>4. /\ w \in Fields /\ r \in Nat
      /\ tail \in Frag => Len(w[tail]) = Len(d[tail]) + r
      /\ \A f \in Frag : f \notin Placed(fs) /\ f # tail => w[f] = d[f]
  BY <1>2, FillLengths
<1>5. Contents(e, w) = Contents(c, d) \o s
  BY ContentsStored
<1> HIDE DEF w, e, r
<1>6. e \in Lists /\ Placed(e) = Placed(c) \cup Placed(fs)
  BY <1>3, PlacedConcat
<1>7. Contents(e, x) = Contents(c, d) \o s
  <2>1. \A f \in Placed(e) : x[f] = w[f]
    BY <1>6 DEF w
  <2>2. Contents(e, x) = Contents(e, w)
    BY <1>4, <1>6, <2>1, ContentsSame
  <2> QED BY <1>5, <2>2
<1>8. ASSUME NEW f \in Placed(c), f # c[Len(c)] PROVE Len(x[f]) = Len(d[f])
  <2>1. f \in Frag /\ f \notin Placed(fs) /\ f # tail
    BY <1>0, <1>1, <1>8
  <2> QED BY <1>4, <2>1 DEF w
<1>9. Total(c, d) <= Total(c, x)
  <2>1. Total(c, d) \in Nat
    BY TotalType
  <2>2. CASE c = <<>>
    <3>1. Total(c, x) = Total(c, d)
      <4>1. \A f \in Placed(c) : Len(d[f]) = Len(x[f])
        BY <1>0, <2>2 DEF Placed
      <4> QED BY <4>1, OffsetsSame
    <3> QED BY <2>1, <3>1
  <2>3. CASE c # <<>>
    <3>1. Len(x[c[Len(c)]]) = Len(d[c[Len(c)]]) + r
      BY <1>1, <1>4, <2>3 DEF w
    <3>2. \A i \in 1 .. Len(c) : i # Len(c) => Len(x[c[i]]) = Len(d[c[i]])
      <4> SUFFICES ASSUME NEW i \in 1 .. Len(c), i # Len(c) PROVE Len(x[c[i]]) = Len(d[c[i]])
        OBVIOUS
      <4>1. c[i] \in Placed(c) /\ c[i] # c[Len(c)]
        BY <1>1, <2>3 DEF Placed, Inj
      <4> QED BY <1>8, <4>1
    <3>3. r \in Int
      BY <1>4
    <3>4. PICK k \in 1 .. Len(c) : k = Len(c)
      BY <1>1, <2>3
    <3>5. /\ Len(x[c[k]]) = Len(d[c[k]]) + r
          /\ \A i \in 1 .. Len(c) : i # k => Len(x[c[i]]) = Len(d[c[i]])
      BY ONLY <3>1, <3>2, <3>4
    <3>6. Total(c, x) = Total(c, d) + r
      <4>1. c \in Lists /\ d \in Fields /\ x \in Fields
        BY ONLY <1>s
      <4> QED BY ONLY <3>3, <3>4, <3>5, <4>1, TotalOneChanged
    <3> QED BY <1>4, <2>1, <3>6
  <2> QED BY <2>2, <2>3
<1> QED BY <1>3, <1>7, <1>8, <1>9 DEF Grown, e

(* A list grows, and then grows again.                                     *)
LEMMA GrownTwice ==
  ASSUME NEW c \in Lists, NEW d \in Fields, NEW st, NEW e \in Lists, Inj(e),
         NEW x \in Fields, NEW su, NEW s \in Seq(Byte), Grown(c, d, st, e, x, su, s),
         NEW g \in Lists, NEW y \in Fields, NEW sv, NEW t \in Seq(Byte),
         Grown(e, x, su, g, y, sv, t)
  PROVE  Grown(c, d, st, g, y, sv, s \o t)
<1>1. PICK m \in Lists : e = c \o m
  BY DEF Grown
<1>2. PICK n \in Lists : g = e \o n
  BY DEF Grown
<1>3. m \o n \in Lists /\ g = c \o (m \o n)

  <2>2. g = (c \o m) \o n /\ c \in Seq(Frag) /\ m \in Seq(Frag) /\ n \in Seq(Frag)
    BY <1>1, <1>2 DEF Lists
  <2>3. m \o n \in Seq(Frag)
    BY ONLY <2>2, ConcatProperties
  <2>4. (c \o m) \o n = c \o (m \o n)
    BY ONLY <2>2, FragmentsAssociate
  <2> QED BY ONLY <2>2, <2>3, <2>4 DEF Lists
<1>4. /\ Len(e) = Len(c) + Len(m) /\ Len(c) \in Nat /\ Len(m) \in Nat
      /\ \A i \in 1 .. Len(c) : e[i] = c[i]
      /\ Placed(c) \subseteq Placed(e)
  <2>1. /\ Len(e) = Len(c) + Len(m) /\ Len(c) \in Nat /\ Len(m) \in Nat
        /\ \A i \in 1 .. Len(c) : e[i] = c[i]
    BY <1>1, ConcatProperties, LenProperties DEF Lists
  <2>2. Placed(c) \subseteq Placed(e)
    BY <1>1, PlacedConcat
  <2> QED BY <2>1, <2>2
<1>5. (m = <<>> => e = c) /\ (m # <<>> => Len(m) > 0)
  BY <1>1, <1>4, EmptySeq, ConcatEmptySeq DEF Lists
<1>6. ASSUME NEW f \in Placed(c), m # <<>> \/ f # c[Len(c)] PROVE Len(y[f]) = Len(x[f])
  <2>1. f # e[Len(e)]
    <3>1. CASE m = <<>>
      BY <1>5, <1>6, <3>1
    <3>2. CASE m # <<>>
      <4>1. PICK i \in 1 .. Len(c) : f = c[i]
        BY DEF Placed
      <4>2. i \in 1 .. Len(e) /\ Len(e) \in 1 .. Len(e) /\ i # Len(e) /\ f = e[i]
        BY <1>4, <1>5, <3>2, <4>1
      <4> QED BY <4>2 DEF Inj
    <3> QED BY <3>1, <3>2
  <2> QED BY <1>4, <2>1 DEF Grown
<1>7. Total(c, d) <= Total(c, y)
  <2>1. /\ Total(c, d) \in Nat /\ Total(c, x) \in Nat /\ Total(c, y) \in Nat
        /\ Total(c, d) <= Total(c, x)
    BY TotalType DEF Grown
  <2>2. CASE m = <<>>
    <3>1. Total(c, x) <= Total(c, y)
      BY <1>5, <2>2 DEF Grown
    <3> QED BY <2>1, <3>1
  <2>3. CASE m # <<>>
    <3>1. Total(c, x) = Total(c, y)
      BY <1>6, <2>3, OffsetsSame
    <3> QED BY <2>1, <3>1
  <2> QED BY <2>2, <2>3
<1>8. ASSUME NEW f \in Placed(c)
      PROVE  sv[f] = st[f] /\ (f # c[Len(c)] => Len(y[f]) = Len(d[f]))
  BY <1>4, <1>6 DEF Grown
<1>9. Contents(g, y) = Contents(c, d) \o (s \o t)
  <2>1. Contents(g, y) = (Contents(c, d) \o s) \o t
    BY DEF Grown
  <2>2. Contents(c, d) \in Seq(Byte)
    BY ContentsTyped

  <2> DEFINE q == Contents(c, d)
  <2>4. q \in Seq(Byte) /\ s \in Seq(Byte) /\ t \in Seq(Byte)
    BY <2>2
  <2> HIDE DEF q
  <2>5. (q \o s) \o t = q \o (s \o t)
    BY ONLY <2>4, BytesAssociate
  <2> QED BY <2>1, <2>5 DEF q
<1> QED BY <1>3, <1>7, <1>8, <1>9 DEF Grown

-----------------------------------------------------------------------------
(* Calls that add bytes.                                                   *)

(* What the invariant says of the queue of one buffer.                     *)
LEMMA OfQueue ==
  ASSUME Core, NEW b \in LiveBuffers
  PROVE  /\ b \in Buffers /\ live[b] /\ chain[b] \in Lists /\ Inj(chain[b])
         /\ data \in Fields /\ start \in Starts
         /\ Waiting[b] = Contents(chain[b], data) /\ Waiting[b] = Bytes(b)
         /\ Waiting[b] \in Seq(Byte) /\ Len(Waiting[b]) = Total(chain[b], data)
         /\ Len(Waiting[b]) = size[b]
<1>1. /\ b \in Buffers /\ live[b] /\ chain[b] \in Lists /\ data \in Fields
      /\ start \in [Frag -> Nat] /\ Good(chain[b], last[b], size[b], data)
      /\ size[b] = Total(chain[b], data)
  BY OfBuffer
<1>2. Waiting[b] = Contents(chain[b], data)
  BY <1>1 DEF Waiting, Bytes
<1> QED BY <1>1, <1>2, ContentsTyped DEF Starts, Good, Bytes

(* The list of b has grown by the bytes s, the others by none.             *)
Grows(b, s) ==
  /\ live' = live
  /\ \A d \in LiveBuffers :
       Grown(chain[d], data, start, chain'[d], data', start', IF d = b THEN s ELSE <<>>)

LEMMA GrowsWaiting ==
  ASSUME Core, NEW b \in LiveBuffers, NEW s \in Seq(Byte), Grows(b, s)
  PROVE  Waiting' = [Waiting EXCEPT ![b] = @ \o s]
<1> SUFFICES ASSUME NEW d \in Buffers
             PROVE  Waiting'[d] = [Waiting EXCEPT ![b] = @ \o s][d]
  BY DEF Waiting
<1>1. CASE d \notin LiveBuffers
  BY <1>1 DEF Waiting, Grows, LiveBuffers
<1>2. CASE d \in LiveBuffers
  <2>1. Waiting[d] = Contents(chain[d], data) /\ Waiting[d] \in Seq(Byte)
    BY <1>2, OfQueue
  <2>2. Waiting'[d] = Contents(chain'[d], data')
    BY <1>2 DEF Waiting, Bytes, Grows, LiveBuffers
  <2>3. Waiting'[d] = Waiting[d] \o (IF d = b THEN s ELSE <<>>)
    BY <1>2, <2>1, <2>2 DEF Grows, Grown
  <2>4. Waiting[d] \o <<>> = Waiting[d]
    BY <2>1, ConcatEmptySeq
  <2>5. [Waiting EXCEPT ![b] = @ \o s][d] = IF d = b THEN Waiting[d] \o s ELSE Waiting[d]
    BY DEF Waiting
  <2> QED BY <2>3, <2>4, <2>5
<1> QED BY <1>1, <1>2

(* The loop of bulp_buffer_append.                                         *)
LEMMA StoreGrows ==
  ASSUME Core, NEW b \in LiveBuffers, NEW s \in Seq(Byte), Store(b, s), live' = live
  PROVE  Grows(b, s)
<1> DEFINE c == chain[b]
           t == last[b]
<1>1. /\ c \in Lists /\ data \in Fields /\ Good(c, t, size[b], data) /\ Room(t) \in Nat
      /\ t \in Frag \cup {NULL} /\ (t # NULL => t \in Placed(c) /\ t \in Frag)
      /\ Placed(c) \subseteq Frag /\ b \in Buffers
      /\ \A f \in Placed(c) : f \notin bin /\ kind[f] # FREE
      /\ \A d \in LiveBuffers \ {b} : Placed(chain[d]) \cap Placed(c) = {}
      /\ start \in [Frag -> Nat]
  BY OfBuffer
<1>2. Len(s) \in Nat /\ Needed(Len(s), Room(t)) \in Nat
  BY <1>1, LenProperties, NeededBounds
<1>3. PICK fs \in Fresh(Needed(Len(s), Room(t))) :
        /\ chain' = [chain EXCEPT ![b] = Link(@, t, fs)]
        /\ data' = Fill(data, t, fs, s)
        /\ new_native_fragment(fs)
  BY DEF Store
<1> DEFINE N == Placed(fs)
           e == Link(c, t, fs)
           x == Fill(data, t, fs, s)
<1>4. /\ fs \in Lists /\ Inj(fs) /\ Len(fs) = Needed(Len(s), Room(t))
      /\ N \subseteq bin \cup Unallocated /\ bin \in SUBSET Frag
  <2>1. bin \in SUBSET Frag
    BY DEF Core, Shape
  <2> QED BY <1>2, <2>1, FreshDef
<1>5. N \cap Placed(c) = {} /\ N \subseteq Frag
  BY <1>1, <1>4 DEF Unallocated
<1>6. /\ x \in Fields /\ \A f \in Frag : f \notin N /\ f # t => x[f] = data[f]
  BY <1>1, <1>4, <1>5, GoodStored
<1>7. start' = With(start, N, 0) /\ data' = x
  BY <1>3 DEF new_native_fragment
<1>8. Grown(c, data, start, e, x, start', s)
  <2>1. \A f \in Placed(c) : start'[f] = start[f]
    BY <1>1, <1>5, <1>7 DEF With
  <2>2. t = (IF c = <<>> THEN NULL ELSE c[Len(c)]) /\ Inj(c)
    BY <1>1 DEF Good
  <2>3. \A f \in Placed(c) \cup Placed(fs) : x[f] = Fill(data, t, fs, s)[f]
    OBVIOUS
  <2>4. /\ c \in Lists /\ data \in Fields /\ t \in Frag \cup {NULL} /\ Room(t) \in Nat
        /\ fs \in Lists /\ Inj(fs) /\ Placed(fs) \cap Placed(c) = {}
        /\ Len(fs) = Needed(Len(s), Room(t)) /\ x \in Fields /\ s \in Seq(Byte)
    BY <1>1, <1>4, <1>5, <1>6
  <2>5. PICK st, su, d : st = start /\ su = start' /\ d = data
    OBVIOUS
  <2>6. \A f \in Placed(c) : su[f] = st[f]
    BY <2>1, <2>5
  <2>7. \A f \in Placed(c) \cup Placed(fs) : x[f] = Fill(d, t, fs, s)[f]
    BY <2>3, <2>5
  <2>8. d \in Fields
    BY <2>4, <2>5
  <2> HIDE DEF c, t, x
  <2>9. Grown(c, d, st, Link(c, t, fs), x, su, s)
    <3>1. Storing(c, d, s, t, fs, st, su, x)
      BY ONLY <2>2, <2>4, <2>6, <2>7, <2>8 DEF Storing
    <3> QED BY ONLY <3>1, GrownStored
  <2> QED BY <2>5, <2>9 DEF e
<1> SUFFICES ASSUME NEW d \in LiveBuffers
             PROVE  Grown(chain[d], data, start, chain'[d], data', start',
                          IF d = b THEN s ELSE <<>>)
  BY DEF Grows
<1>9. CASE d = b
  <2>1. chain'[d] = e
    BY <1>1, <1>3, <1>9 DEF Core, Shape
  <2> HIDE DEF c, e, x
  <2> QED BY <1>7, <1>8, <1>9, <2>1 DEF c
<1>10. CASE d # b
  <2>1. chain'[d] = chain[d] /\ chain[d] \in Lists
    BY <1>3, <1>10, OfBuffer DEF Core, Shape
  <2>2. \A f \in Placed(chain[d]) : x[f] = data[f] /\ start'[f] = start[f]
    <3> SUFFICES ASSUME NEW f \in Placed(chain[d]) PROVE x[f] = data[f] /\ start'[f] = start[f]
      OBVIOUS
    <3>1. f \in Frag /\ f \notin bin /\ kind[f] # FREE /\ f \notin Placed(c)
      BY <1>1, <1>10, OfBuffer
    <3>2. f \notin N /\ f # t
      BY <1>1, <1>4, <3>1, ValueAssumption DEF Unallocated
    <3> HIDE DEF x
    <3> QED BY <1>6, <1>7, <3>1, <3>2 DEF With
  <2>3. Grown(chain[d], data, start, chain[d], x, start', <<>>)
    <3> HIDE DEF x
    <3> QED BY <1>1, <1>6, <2>1, <2>2, GrownUntouched
  <2> HIDE DEF x
  <2> QED BY <1>7, <1>10, <2>1, <2>3
<1> QED BY <1>9, <1>10

(* Fragments no list holds do not matter.                                  *)
LEMMA OthersUntouched ==
  ASSUME Core, NEW d \in LiveBuffers, data' \in Fields, chain'[d] = chain[d],
         \A f \in Placed(chain[d]) : data'[f] = data[f] /\ start'[f] = start[f]
  PROVE  Grown(chain[d], data, start, chain'[d], data', start', <<>>)
<1>1. chain[d] \in Lists /\ data \in Fields
  BY OfBuffer
<1> QED BY <1>1, GrownUntouched

(* bulp_buffer_append_small copies in place.                               *)
LEMMA InPlaceGrows ==
  ASSUME Core, NEW b \in LiveBuffers, NEW s \in Seq(Byte), last[b] # NULL,
         data' = [data EXCEPT ![last[b]] = @ \o s],
         UNCHANGED <<live, chain, start>>
  PROVE  Grows(b, s)
<1> DEFINE c == chain[b]
           t == last[b]
           x == [data EXCEPT ![t] = @ \o s]
<1>1. /\ c \in Lists /\ data \in Fields /\ Good(c, t, size[b], data)
      /\ t \in Placed(c) /\ t \in Frag /\ b \in Buffers
      /\ \A d \in LiveBuffers \ {b} : Placed(chain[d]) \cap Placed(c) = {}
  BY OfBuffer
<1>2. data[t] \in Seq(Byte) /\ data[t] \o s \in Seq(Byte)
  <2>1. data[t] \in Seq(Byte)
    BY <1>1, LengthZero
  <2> QED BY <2>1, ConcatProperties
<1>3. /\ x \in Fields /\ x[t] = data[t] \o s /\ \A f \in Frag : f # t => x[f] = data[f]
  BY <1>1, <1>2 DEF Fields
<1>4. c # <<>> /\ t = c[Len(c)] /\ Inj(c) /\ Placed(c) \subseteq Frag
  BY <1>1, PlacedConcat DEF Good
<1> HIDE DEF x, c, t
<1>5. Contents(c, x) = Contents(c, data) \o s
  <2> DEFINE d == data
             g == c[Len(c)]
  <2>1. /\ c \in Lists /\ Inj(c) /\ c # <<>> /\ d \in Fields /\ x \in Fields
        /\ x[g] = d[g] \o s /\ s \in Seq(Byte)
    BY <1>1, <1>3, <1>4
  <2>2. \A f \in Placed(c) : f # g => x[f] = d[f]
    BY <1>3, <1>4
  <2> HIDE DEF d
  <2>3. Contents(c, x) = Contents(c, d) \o s
    BY ONLY <2>1, <2>2, ContentsGrown
  <2> QED BY <2>3 DEF d
<1>6. Total(c, data) <= Total(c, x)
  <2>1. /\ Len(Contents(c, x)) = Total(c, x) /\ Len(Contents(c, data)) = Total(c, data)
        /\ Contents(c, data) \in Seq(Byte)
    BY <1>1, <1>3, ContentsTyped
  <2>2. /\ Len(Contents(c, data) \o s) = Len(Contents(c, data)) + Len(s)
        /\ Len(s) \in Nat /\ Len(Contents(c, data)) \in Nat
    BY <2>1, ConcatProperties, LenProperties
  <2> QED BY <1>5, <2>1, <2>2
<1>7. Grown(c, data, start, c, x, start, s)
  <2>1. <<>> \in Lists /\ c = c \o <<>>
    BY <1>1, ConcatEmptySeq DEF Lists
  <2>2. \A f \in Placed(c) : f # c[Len(c)] => Len(x[f]) = Len(data[f])
    BY <1>3, <1>4
  <2> QED BY <1>5, <1>6, <2>1, <2>2 DEF Grown
<1> SUFFICES ASSUME NEW d \in LiveBuffers
             PROVE  Grown(chain[d], data, start, chain[d], x, start, IF d = b THEN s ELSE <<>>)
  BY DEF Grows, x, t
<1>8. CASE d = b
  BY <1>7, <1>8 DEF c
<1>9. CASE d # b
  <2>1. \A f \in Placed(chain[d]) : f \in Frag /\ f # t
    BY <1>1, <1>9, OfBuffer DEF c
  <2>2. \A f \in Placed(chain[d]) : x[f] = data[f]
    BY <1>3, <2>1
  <2>3. chain[d] \in Lists
    BY OfBuffer
  <2>4. Grown(chain[d], data, start, chain[d], x, start, <<>>)
    BY <1>1, <1>3, <2>2, <2>3, GrownUntouched
  <2> QED BY <1>9, <2>4
<1> QED BY <1>8, <1>9

(* A fragment that was free, and the trial ones, enter no other list.      *)
LEMMA StoreForeignGrows ==
  ASSUME Core, NEW b \in LiveBuffers, NEW o \in Foreign \ lent, NEW s \in Seq(Byte),
         NEW trial \in {{}} \cup Trials(b), StoreForeign(b, o, s, trial), live' = live
  PROVE  Grows(b, s)
<1> DEFINE c == chain[b]
<1>1. /\ c \in Lists /\ data \in Fields /\ Good(c, last[b], size[b], data) /\ b \in Buffers
  BY OfBuffer
<1>2. PICK f \in Unallocated \ trial :
       /\ start' = With(start, trial \cup {f}, 0)
       /\ data' = [With(data, trial, <<>>) EXCEPT ![f] = s]
       /\ chain' = [chain EXCEPT ![b] = Link(@, last[b], <<f>>)]
  BY DEF StoreForeign
<1>3. \A g \in trial : g \in Frag /\ kind[g] = FREE
  <2>1. CASE trial = {}
    BY <2>1
  <2>2. CASE trial \in Trials(b)
    BY <2>2, TrialFits
  <2> QED BY <2>1, <2>2
<1>4. /\ f \in Frag /\ kind[f] = FREE /\ f \notin trial /\ <<f>> \in Lists
      /\ <<f>> # <<>> /\ Len(<<f>>) = 1 /\ <<f>>[1] = f
  BY DEF Unallocated, Lists
<1>5. data' \in Fields /\ data'[f] = s
      /\ \A g \in Frag : g # f /\ g \notin trial => data'[g] = data[g] /\ start'[g] = start[g]
  <2>1. <<>> \in Seq(Byte)
    OBVIOUS
  <2> QED BY <1>1, <1>2, <1>4, <2>1 DEF Fields, With
<1>6. \A d \in LiveBuffers : \A g \in Placed(chain[d]) : data'[g] = data[g] /\ start'[g] = start[g]
  <2> SUFFICES ASSUME NEW d \in LiveBuffers, NEW g \in Placed(chain[d])
               PROVE  data'[g] = data[g] /\ start'[g] = start[g]
    OBVIOUS
  <2>1. g \in Frag /\ kind[g] # FREE
    BY OfBuffer
  <2> QED BY <1>3, <1>4, <1>5, <2>1
<1>7. Link(c, last[b], <<f>>) = c \o <<f>>
  <2>1. CASE c = <<>>
    <3>1. last[b] = NULL /\ <<>> \o <<f>> = <<f>>
      BY <1>1, <1>4, <2>1, ConcatEmptySeq DEF Good, Lists
    <3> QED BY <1>4, <2>1, <3>1 DEF Link
  <2>2. CASE c # <<>>
    <3>1. last[b] # NULL
      BY <1>1, <2>2, OfBuffer, ValueAssumption, GoodTail
    <3> QED BY <1>4, <3>1 DEF Link
  <2> QED BY <2>1, <2>2
<1>8. chain'[b] = c \o <<f>> /\ \A d \in LiveBuffers : d # b => chain'[d] = chain[d]
  BY <1>1, <1>2, <1>7, OfBuffer DEF Core, Shape
<1>9. Contents(<<f>>, data') = s
  <2>1. Len(<<f>>) \in 0 .. 1
    BY <1>4
  <2> QED BY <1>4, <1>5, <2>1, ContentsFew
<1>10. Grown(c, data, start, c \o <<f>>, data', start', s)
  <2>1. \A g \in Placed(c) : data'[g] = data[g] /\ start'[g] = start[g]
    BY <1>6
  <2>2. Contents(c \o <<f>>, data') = Contents(c, data') \o Contents(<<f>>, data')
    BY <1>1, <1>4, <1>5, ContentsConcat
  <2>3. Contents(c, data') = Contents(c, data)
    BY <1>1, <1>5, <2>1, ContentsSame
  <2>4. Grown(c, data, start, c, data', start', <<>>)
    BY <1>1, <1>5, <2>1, GrownUntouched
  <2> QED BY <1>4, <1>9, <2>1, <2>2, <2>3, <2>4 DEF Grown
<1> SUFFICES ASSUME NEW d \in LiveBuffers
             PROVE  Grown(chain[d], data, start, chain'[d], data', start',
                          IF d = b THEN s ELSE <<>>)
  BY DEF Grows
<1>11. CASE d = b
  BY <1>8, <1>10, <1>11
<1>12. CASE d # b
  BY <1>5, <1>6, <1>8, <1>12, OthersUntouched
<1> QED BY <1>11, <1>12

(* A call that changes no fragment of any list.                            *)
LEMMA NothingGrows ==
  ASSUME Core, NEW b \in LiveBuffers, data' \in Fields, UNCHANGED <<live, chain>>,
         \A d \in LiveBuffers : \A g \in Placed(chain[d]) :
           data'[g] = data[g] /\ start'[g] = start[g]
  PROVE  Grows(b, <<>>)
<1>1. \A d \in LiveBuffers : Grown(chain[d], data, start, chain'[d], data', start', <<>>)
  BY OthersUntouched
<1> QED BY <1>1 DEF Grows

(* The trial fragment of an empty text goes to the bin.                    *)
LEMMA TrialGrows ==
  ASSUME Core, NEW b \in LiveBuffers, NEW trial \in Trials(b),
         start' = With(start, trial, 0), data' = With(data, trial, <<>>),
         UNCHANGED <<live, chain>>
  PROVE  Grows(b, <<>>)
<1>1. \A g \in trial : g \in Frag /\ kind[g] = FREE
  BY TrialFits
<1>2. \A d \in LiveBuffers : \A g \in Placed(chain[d]) : g \in Frag /\ kind[g] # FREE
  BY OfBuffer
<1>3. data' \in Fields
  <2>1. <<>> \in Seq(Byte) /\ data \in Fields
    BY OfBuffer
  <2> QED BY <2>1 DEF Fields, With
<1>4. \A d \in LiveBuffers : \A g \in Placed(chain[d]) :
        data'[g] = data[g] /\ start'[g] = start[g]
  BY <1>1, <1>2 DEF With
<1> QED BY <1>3, <1>4, NothingGrows

-----------------------------------------------------------------------------
(* Calls that take bytes.                                                  *)

(* List c, whose fragments hold d from index st on, has become e, whose    *)
(* fragments hold x from su on: the first k fragments are gone and the     *)
(* next one is advanced by `part' bytes.                                   *)
Shrunk(c, d, st, k, part, e, x, su) ==
  /\ k \in 0 .. Len(c) /\ part \in Nat
  /\ e = SubSeq(c, k + 1, Len(c))
  /\ k < Len(c) => /\ part <= Len(d[c[k + 1]])
                   /\ x[c[k + 1]] = SubSeq(d[c[k + 1]], part + 1, Len(d[c[k + 1]]))
                   /\ su[c[k + 1]] = st[c[k + 1]] + part
  /\ k = Len(c) => part = 0
  /\ \A i \in k + 1 .. Len(c) : i # k + 1 => x[c[i]] = d[c[i]] /\ su[c[i]] = st[c[i]]


LEMMA ShrunkContents ==
  ASSUME NEW c \in Lists, Inj(c), NEW d \in Fields, NEW st, NEW x \in Fields, NEW su,
         NEW k, NEW part, NEW e, Shrunk(c, d, st, k, part, e, x, su)
  PROVE  Cuts(c, d, k, part, e, x)
<1>1. k \in 0 .. Len(c) /\ part \in Nat
  BY DEF Shrunk
<1>2. /\ k < Len(c) => part <= Len(d[c[k + 1]])
      /\ k = Len(c) => part = 0
      /\ k < Len(c) => x[c[k + 1]] = SubSeq(d[c[k + 1]], part + 1, Len(d[c[k + 1]]))
  BY DEF Shrunk
<1>3. \A i \in k + 1 .. Len(c) : i # k + 1 => x[c[i]] = d[c[i]]
  BY DEF Shrunk
<1>4. Cuts(c, d, k, part, SubSeq(c, k + 1, Len(c)), x)
  BY ONLY <1>1, <1>2, <1>3, ContentsTaken, c \in Lists, Inj(c), d \in Fields, x \in Fields
<1>5. e = SubSeq(c, k + 1, Len(c))
  BY DEF Shrunk
<1> QED BY ONLY <1>4, <1>5

(* A placeholder stays usable as long as nothing is taken of it.           *)
LEMMA ShrunkMarked ==
  ASSUME NEW c \in Lists, Inj(c), NEW d \in Fields, NEW st \in Starts,
         NEW x \in Fields, NEW su, NEW k, NEW part, NEW e,
         Shrunk(c, d, st, k, part, e, x, su),
         NEW p \in Placeholder, Marked(c, d, st, p), IndexIn(c, p.frag) > k,
         Offsets(c, d)[k] + part
           <= Offsets(c, d)[IndexIn(c, p.frag) - 1] + p.off - st[p.frag]
  PROVE  Marked(e, x, su, p)
<1>1. k \in 0 .. Len(c) /\ part \in Nat
  BY DEF Shrunk
<1>2. /\ e = SubSeq(c, k + 1, Len(c))
      /\ k < Len(c) => part <= Len(d[c[k + 1]])
      /\ k = Len(c) => part = 0
      /\ k < Len(c) => x[c[k + 1]] = SubSeq(d[c[k + 1]], part + 1, Len(d[c[k + 1]]))
      /\ k < Len(c) => su[c[k + 1]] = st[c[k + 1]] + part
  BY DEF Shrunk
<1>3. \A i \in k + 1 .. Len(c) : i # k + 1 => x[c[i]] = d[c[i]]
  BY DEF Shrunk
<1>4. \A i \in k + 1 .. Len(c) : i # k + 1 => su[c[i]] = st[c[i]]
  BY DEF Shrunk
<1>5. PICK i \in 1 .. Len(c) : MarkedAt(c, d, st, p, i)
  BY DEF Marked
<1>6. IndexIn(c, p.frag) = i
  <2>1. c[i] = p.frag
    BY <1>5 DEF MarkedAt
  <2> QED BY <2>1, IndexInList
<1>7. i > k /\ Offsets(c, d)[k] + part <= Offsets(c, d)[i - 1] + p.off - st[p.frag]
  BY <1>6
<1> QED BY <1>1, <1>2, <1>3, <1>4, <1>5, <1>7, MarkedTaken

LEMMA PlainPart ==
  ASSUME NEW q \in Seq(Byte), Plain(q), NEW n \in 0 .. Len(q)
  PROVE  Plain(SubSeq(q, n + 1, Len(q)))
<1>1. Len(q) \in Nat /\ n \in Nat
  BY LenProperties
<1>2. /\ Len(SubSeq(q, n + 1, Len(q))) = Len(q) - n
      /\ \A i \in 1 .. Len(q) - n : SubSeq(q, n + 1, Len(q))[i] = q[n + i]
  BY CutSeq
<1>3. \A i \in 1 .. Len(q) - n : n + i \in 1 .. Len(q)
  BY <1>1
<1> QED BY <1>2, <1>3 DEF Plain

(* The first bytes of queue b are gone, as many as the first k fragments   *)
(* and `part' bytes of the next one hold.                                  *)
Takes(b, k, part) ==
  /\ live' = live
  /\ Shrunk(chain[b], data, start, k, part, chain'[b], data', start')
  /\ \A d \in LiveBuffers \ {b} :
       Grown(chain[d], data, start, chain'[d], data', start', <<>>)

LEMMA TakesWaiting ==
  ASSUME Core, NEW b \in LiveBuffers, NEW k, NEW part, Takes(b, k, part), data' \in Fields
  PROVE  LET m == Offsets(chain[b], data)[k] + part
         IN /\ m \in 0 .. Len(Waiting[b])
            /\ Waiting' = [Waiting EXCEPT ![b] = SubSeq(@, m + 1, Len(@))]
<1> DEFINE m == Offsets(chain[b], data)[k] + part
           w == [Waiting EXCEPT ![b] = SubSeq(@, m + 1, Len(@))]
<1>1. /\ chain[b] \in Lists /\ Inj(chain[b]) /\ data \in Fields /\ b \in Buffers
      /\ Waiting[b] = Contents(chain[b], data)
  BY OfQueue
<1>2. Shrunk(chain[b], data, start, k, part, chain'[b], data', start')
  BY DEF Takes
<1>3. /\ m \in 0 .. Len(Contents(chain[b], data))
      /\ Contents(chain'[b], data') = SubSeq(Contents(chain[b], data), m + 1,
                                             Len(Contents(chain[b], data)))
  <2>1. data' \in Fields
    OBVIOUS
  <2> HIDE DEF m, w
  <2>2. Cuts(chain[b], data, k, part, chain'[b], data')
    BY <1>1, <1>2, <2>1, ShrunkContents
  <2> QED BY <2>2 DEF Cuts, m
<1> HIDE DEF m
<1>4. \A d \in Buffers : w[d] = IF d = b THEN SubSeq(Waiting[b], m + 1, Len(Waiting[b]))
                                ELSE Waiting[d]
  BY DEF Waiting
<1>5. ASSUME NEW d \in Buffers PROVE Waiting'[d] = w[d]
  <2>1. CASE d \notin LiveBuffers
    BY <1>4, <2>1 DEF Waiting, Takes, LiveBuffers
  <2>2. CASE d = b
    <3>1. Waiting'[b] = Contents(chain'[b], data')
      BY <1>1 DEF Waiting, Bytes, Takes, LiveBuffers
    <3> QED BY <1>1, <1>3, <1>4, <2>2, <3>1
  <2>3. CASE d \in LiveBuffers /\ d # b
    <3>1. Waiting[d] = Contents(chain[d], data) /\ Waiting[d] \in Seq(Byte)
      BY <2>3, OfQueue
    <3>2. Waiting'[d] = Contents(chain'[d], data')
      BY <2>3 DEF Waiting, Bytes, Takes, LiveBuffers
    <3>3. Waiting'[d] = Waiting[d] \o <<>>
      BY <2>3, <3>1, <3>2 DEF Takes, Grown
    <3>4. Waiting[d] \o <<>> = Waiting[d]
      BY <3>1, ConcatEmptySeq
    <3> QED BY <1>4, <2>3, <3>3, <3>4
  <2> QED BY <2>1, <2>2, <2>3
<1>6. Waiting' = w
  <2>1. w = [d \in Buffers |-> w[d]]
    BY DEF Waiting
  <2> HIDE DEF w
  <2> QED BY <1>5, <2>1 DEF Waiting
<1> QED BY <1>1, <1>3, <1>6 DEF m

(* The loop of bulp_buffer_read and bulp_buffer_discard.                   *)
LEMMA UnlinkTakes ==
  ASSUME Core, NEW b \in LiveBuffers, NEW n \in Nat, Unlink(b, n)
  PROVE  \E k \in Nat, part \in Nat :
           /\ k = Whole(chain[b], n) /\ Takes(b, k, part)
           /\ Taken(chain[b], n) = Offsets(chain[b], data)[k] + part
           /\ Taken(chain[b], n) = IF n <= Len(Waiting[b]) THEN n ELSE Len(Waiting[b])
<1> DEFINE c == chain[b]
           k == Whole(c, n)
           gone == Placed(SubSeq(c, 1, k))
           part == IF k < Len(c) THEN n - Offsets(c, data)[k] ELSE 0
           e == SubSeq(c, k + 1, Len(c))
<1>1. /\ c \in Lists /\ data \in Fields /\ Inj(c) /\ Placed(c) \subseteq Frag /\ b \in Buffers
      /\ \A f \in Placed(c) : data[f] # <<>>
      /\ start \in [Frag -> Nat] /\ Len(Waiting[b]) = Total(c, data)
      /\ \A d \in LiveBuffers \ {b} : Placed(chain[d]) \cap Placed(c) = {}
  BY OfBuffer, OfQueue
<1>2. /\ chain' = [chain EXCEPT ![b] = e]
      /\ start' = [f \in Frag |-> IF f \in gone THEN 0
                                  ELSE IF k < Len(c) /\ f = c[k + 1]
                                  THEN start[f] + part ELSE start[f]]
      /\ data' = [f \in Frag |-> IF f \in gone THEN <<>>
                                ELSE IF k < Len(c) /\ f = c[k + 1]
                                THEN SubSeq(data[f], part + 1, Len(data[f])) ELSE data[f]]
      /\ live' = live
  BY DEF Unlink
<1>3. /\ k \in 0 .. Len(c) /\ Len(c) \in Nat /\ Offsets(c, data)[k] \in Nat
      /\ part \in Nat
      /\ k < Len(c) => part < Len(data[c[k + 1]])
      /\ k = Len(c) => part = 0
      /\ Taken(c, n) = Offsets(c, data)[k] + part
      /\ Taken(c, n) = IF n <= Total(c, data) THEN n ELSE Total(c, data)
  <2>1. /\ k \in 0 .. Len(c) /\ Offsets(c, data)[k] <= n
        /\ Taken(c, n) \in Nat /\ Taken(c, n) <= Total(c, data)
        /\ k < Len(c) => /\ Taken(c, n) = n
                         /\ n - Offsets(c, data)[k] \in Nat
                         /\ n - Offsets(c, data)[k] < Len(data[c[k + 1]])
        /\ k = Len(c) => Taken(c, n) = Total(c, data)
    BY <1>1, TakenBounds
  <2>2. Len(c) \in Nat /\ Offsets(c, data)[k] \in Nat /\ Total(c, data) = Offsets(c, data)[Len(c)]
    BY <1>1, <2>1, TotalType DEF Total
  <2> HIDE DEF k, c
  <2> QED BY <2>1, <2>2
<1> HIDE DEF k, part
<1>4. /\ gone \in SUBSET Placed(c)
      /\ \A i \in k + 1 .. Len(c) : c[i] \in Placed(c) /\ c[i] \in Frag /\ c[i] \notin gone
  <2>1. /\ gone = {c[i] : i \in 1 .. k}
        /\ Placed(e) = {c[i] : i \in k + 1 .. Len(c)}
        /\ Placed(c) = gone \cup Placed(e)
    BY <1>1, <1>3, Cut
  <2>2. gone \cap Placed(e) = {}
    BY <1>1, <1>3, InjCut
  <2> QED BY <1>1, <2>1, <2>2
<1> HIDE DEF gone, e, c
<1>5. k < Len(c) => /\ c[k + 1] \in Placed(c) /\ c[k + 1] \in Frag /\ c[k + 1] \notin gone
                    /\ SubSeq(data[c[k + 1]], part + 1, Len(data[c[k + 1]])) \in Seq(Byte)
                    /\ part <= Len(data[c[k + 1]])
  <2> SUFFICES ASSUME k < Len(c) PROVE <1>5!2
    OBVIOUS
  <2>1. k + 1 \in k + 1 .. Len(c)
    BY <1>3
  <2>2. c[k + 1] \in Placed(c) /\ c[k + 1] \in Frag /\ c[k + 1] \notin gone
    BY <1>4, <2>1
  <2>3. Len(data[c[k + 1]]) \in Nat /\ part <= Len(data[c[k + 1]])
    BY <1>1, <1>3, <2>2, LengthZero
  <2> QED BY <1>1, <1>3, <2>2, <2>3, Advanced
<1>6. data' \in Fields
  <2>1. <<>> \in Seq(Byte)
    OBVIOUS
  <2> QED BY <1>1, <1>2, <1>5, <2>1 DEF Fields
<1>7. k < Len(c) => /\ part <= Len(data[c[k + 1]])
                    /\ data'[c[k + 1]] = SubSeq(data[c[k + 1]], part + 1, Len(data[c[k + 1]]))
                    /\ start'[c[k + 1]] = start[c[k + 1]] + part
  BY <1>2, <1>5
<1>8. ASSUME NEW i \in k + 1 .. Len(c), i # k + 1
      PROVE  data'[c[i]] = data[c[i]] /\ start'[c[i]] = start[c[i]]
  <2>1. i \in 1 .. Len(c) /\ k + 1 \in 1 .. Len(c)
    BY <1>3, <1>8
  <2>2. c[i] # c[k + 1]
    BY <1>1, <1>8, <2>1 DEF Inj
  <2> QED BY <1>2, <1>4, <2>2
<1>9. Shrunk(c, data, start, k, part, e, data', start')
  BY <1>3, <1>7, <1>8 DEF Shrunk, e
<1>10. \A d \in LiveBuffers \ {b} : \A f \in Placed(chain[d]) :
         data'[f] = data[f] /\ start'[f] = start[f]
  <2> SUFFICES ASSUME NEW d \in LiveBuffers \ {b}, NEW f \in Placed(chain[d])
               PROVE  data'[f] = data[f] /\ start'[f] = start[f]
    OBVIOUS
  <2>1. f \in Frag /\ f \notin Placed(c)
    BY <1>1, OfBuffer
  <2>2. f \notin gone /\ (k < Len(c) => f # c[k + 1])
    BY <1>4, <1>5, <2>1
  <2> QED BY <1>2, <2>1, <2>2
<1>11. chain'[b] = e /\ \A d \in LiveBuffers \ {b} : chain'[d] = chain[d]
  BY <1>1, <1>2, OfBuffer DEF Core, Shape
<1>12. \A d \in LiveBuffers \ {b} : Grown(chain[d], data, start, chain'[d], data', start', <<>>)
  BY <1>6, <1>10, <1>11, OthersUntouched
<1>13. Takes(b, k, part)
  BY <1>2, <1>9, <1>11, <1>12 DEF Takes, c
<1>14. k \in Nat
  BY <1>3
<1>15. Taken(c, n) = IF n <= Len(Waiting[b]) THEN n ELSE Len(Waiting[b])
  BY <1>1, <1>3
<1> QED BY <1>3, <1>13, <1>14, <1>15 DEF c, k

-----------------------------------------------------------------------------
(* What calls do to the placeholder.                                       *)

(* Buffer b holds the bytes of placeholder p, and no other buffer does.    *)
Holds(b, p) ==
  /\ Marked(chain[b], data, start, p)
  /\ \A d \in LiveBuffers \ {b} : Plain(Waiting[d])

(* The inductive invariant of the placeholder.                             *)
PhInv == ph # NULL /\ ph.fresh => \E b \in LiveBuffers : Holds(b, ph)

LEMMA PlainConcat ==
  ASSUME NEW q \in Seq(Byte), NEW s \in Seq(Byte), Plain(q), Plain(s)
  PROVE  Plain(q \o s)
<1>1. /\ Len(q) \in Nat /\ Len(s) \in Nat /\ Len(q \o s) = Len(q) + Len(s)
      /\ \A i \in 1 .. Len(q) + Len(s) : (q \o s)[i] = IF i <= Len(q) THEN q[i] ELSE s[i - Len(q)]
  BY ConcatProperties, LenProperties
<1> SUFFICES ASSUME NEW i \in 1 .. Len(q) + Len(s) PROVE (q \o s)[i] # Hole
  BY <1>1 DEF Plain
<1>2. CASE i <= Len(q)
  <2>1. i \in 1 .. Len(q)
    BY <1>1, <1>2
  <2> QED BY <1>1, <1>2, <2>1 DEF Plain
<1>3. CASE ~(i <= Len(q))
  <2>1. i - Len(q) \in 1 .. Len(s)
    BY <1>1, <1>3
  <2> QED BY <1>1, <1>3, <2>1 DEF Plain
<1> QED BY <1>2, <1>3

(* What Core says of the next state.                                       *)
LEMMA NextLists ==
  ASSUME Core'
  PROVE  /\ data' \in Fields /\ start' \in Starts
         /\ \A b \in LiveBuffers' : /\ chain'[b] \in Lists /\ Inj(chain'[b])
                                    /\ b \in Buffers /\ live'[b]
                                    /\ Waiting'[b] = Contents(chain'[b], data')
                                    /\ Waiting'[b] \in Seq(Byte)
<1>1. data' \in Fields /\ start' \in Starts /\ chain' \in [Buffers -> Lists]
  BY DEF Core, Shape, Starts
<1>2. \A b \in LiveBuffers' : b \in Buffers /\ live'[b] /\ Inj(chain'[b])
  BY DEF Core, Good, LiveBuffers
<1> SUFFICES ASSUME NEW b \in LiveBuffers'
             PROVE  /\ Waiting'[b] = Contents(chain'[b], data')
                    /\ Waiting'[b] \in Seq(Byte)
  BY <1>1, <1>2
<1>3. Waiting'[b] = Contents(chain'[b], data')
  BY <1>2 DEF Waiting, Bytes
<1>4. chain'[b] \in Lists
  BY <1>1, <1>2
<1> QED BY <1>1, <1>3, <1>4, ContentsTyped

LEMMA GrownMarked ==
  ASSUME Core, Core', NEW h \in LiveBuffers, h \in LiveBuffers', NEW s \in Seq(Byte),
         Grown(chain[h], data, start, chain'[h], data', start', s),
         NEW p \in Placeholder, Plain(s), Marked(chain[h], data, start, p)
  PROVE  Marked(chain'[h], data', start', p)
<1>1. chain[h] \in Lists /\ Inj(chain[h]) /\ data \in Fields /\ start \in Starts
  BY OfQueue
<1>2. chain'[h] \in Lists /\ data' \in Fields
  BY NextLists
<1> QED BY <1>1, <1>2, MarkedGrown

(* Bytes with a value enter behind the last byte.                          *)
LEMMA PhGrows ==
  ASSUME Core, Core', NEW b \in LiveBuffers, NEW s \in Seq(Byte), Plain(s), Grows(b, s),
         ph \in Placeholder \cup {NULL}, ph' = ph, PhInv
  PROVE  PhInv'
<1> SUFFICES ASSUME ph # NULL, ph.fresh PROVE \E h \in LiveBuffers' : Holds(h, ph)'
  BY DEF PhInv
<1>1. ph \in Placeholder /\ LiveBuffers' = LiveBuffers
  BY DEF Grows, LiveBuffers
<1>2. PICK h \in LiveBuffers : Holds(h, ph)
  BY DEF PhInv
<1>3. <<>> \in Seq(Byte) /\ Plain(<<>>)
  BY DEF Plain
<1>4. Marked(chain'[h], data', start', ph)
  <2> DEFINE r == IF h = b THEN s ELSE <<>>
  <2>1. /\ Grown(chain[h], data, start, chain'[h], data', start', r)
        /\ r \in Seq(Byte) /\ Plain(r)
    BY <1>2, <1>3 DEF Grows
  <2>2. Marked(chain[h], data, start, ph)
    BY <1>2 DEF Holds
  <2> HIDE DEF r
  <2> QED BY <1>1, <2>1, <2>2, GrownMarked
<1>5. ASSUME NEW d \in LiveBuffers \ {h} PROVE Plain(Waiting'[d])
  <2>1. Waiting[d] \in Seq(Byte) /\ Plain(Waiting[d])
    BY <1>2, OfQueue DEF Holds
  <2>2. Waiting'[d] = IF d = b THEN Waiting[d] \o s ELSE Waiting[d]
    <3>1. Waiting' = [Waiting EXCEPT ![b] = @ \o s]
      BY GrowsWaiting
    <3>2. d \in Buffers
      BY DEF LiveBuffers
    <3> QED BY <3>1, <3>2 DEF Waiting
  <2>3. Plain(Waiting[d] \o s)
    BY <2>1, PlainConcat
  <2> QED BY <2>1, <2>2, <2>3
<1> QED BY <1>1, <1>4, <1>5 DEF Holds

(* Bytes leave ahead of the reserved ones, or the placeholder is given up. *)
LEMMA PhTakes ==
  ASSUME Core, Core', NEW b \in LiveBuffers, NEW k \in Nat, NEW part \in Nat, NEW n \in Nat,
         Takes(b, k, part), Offsets(chain[b], data)[k] + part <= n,
         ph \in Placeholder \cup {NULL}, ph' = Disturb(b, k, n), PhInv
  PROVE  PhInv'
<1> SUFFICES ASSUME ph' # NULL, ph'.fresh PROVE \E h \in LiveBuffers' : Holds(h, ph)'
  BY DEF PhInv
<1> DEFINE i == IndexIn(chain[b], ph.frag)
<1>1. /\ ph \in Placeholder /\ ph' = ph
      /\ ph.frag \in Placed(chain[b]) => ~(i <= k) /\ ~(n > Ahead(b))
  <2>1. ph # NULL
    BY DEF Disturb
  <2>2. ph \in Placeholder
    BY <2>1
  <2> DEFINE g == ph.frag \in Placed(chain[b]) /\ (i <= k \/ n > Ahead(b))
  <2>3. ph' = IF g THEN [ph EXCEPT !.fresh = FALSE] ELSE ph
    BY <2>1 DEF Disturb
  <2>4. ~g
    <3> HIDE DEF g
    <3> QED BY <2>2, <2>3 DEF Placeholder
  <2> QED BY <2>2, <2>3, <2>4
<1>2. PICK h \in LiveBuffers : Holds(h, ph)
  BY <1>1 DEF PhInv
<1>3. LiveBuffers' = LiveBuffers
  BY DEF Takes, LiveBuffers
<1>4. /\ chain[b] \in Lists /\ Inj(chain[b]) /\ data \in Fields /\ start \in Starts
      /\ b \in Buffers
  BY OfQueue
<1>5. chain'[b] \in Lists /\ data' \in Fields
  BY <1>3, NextLists
<1>6. CASE h = b
  <2>1. PICK j \in 1 .. Len(chain[b]) : MarkedAt(chain[b], data, start, ph, j)
    BY <1>2, <1>6 DEF Holds, Marked
  <2>2. chain[b][j] = ph.frag
    BY <2>1 DEF MarkedAt
  <2>3. ph.frag \in Placed(chain[b]) /\ i = j
    <3>1. ph.frag \in Placed(chain[b])
      BY <2>2 DEF Placed
    <3>2. IndexIn(chain[b], chain[b][j]) = j
      BY <1>4, IndexInList
    <3> QED BY <2>2, <3>1, <3>2
  <2>4. i > k /\ Ahead(b) = Offsets(chain[b], data)[i - 1] + ph.off - start[ph.frag]
    BY <1>1, <1>4, <2>3, LenProperties DEF Ahead, Lists
  <2>5. Offsets(chain[b], data)[k] + part <= Ahead(b)
    <3>1. Offsets(chain[b], data)[i - 1] \in Nat
      <4>1. i - 1 \in 0 .. Len(chain[b])
        BY <1>4, <2>3, LenProperties DEF Lists
      <4> HIDE DEF i
      <4> QED BY <1>4, <4>1, TotalType
    <3>2. ph.off \in Nat /\ start[ph.frag] \in Nat /\ Offsets(chain[b], data)[k] \in Nat
      <4>1. k \in 0 .. Len(chain[b])
        BY DEF Takes, Shrunk
      <4> QED BY <1>1, <1>4, <4>1, TotalType DEF Placeholder, Starts
    <3>3. ~(n > Ahead(b))
      BY <1>1, <2>3
    <3> HIDE DEF i
    <3> QED BY <2>4, <3>1, <3>2, <3>3
  <2>6. Marked(chain'[b], data', start', ph)
    <3>1. Shrunk(chain[b], data, start, k, part, chain'[b], data', start')
      BY DEF Takes
    <3>2. /\ IndexIn(chain[b], ph.frag) > k
          /\ Offsets(chain[b], data)[k] + part
               <= Offsets(chain[b], data)[IndexIn(chain[b], ph.frag) - 1]
                    + ph.off - start[ph.frag]
      BY <2>4, <2>5
    <3>3. Marked(chain[b], data, start, ph)
      BY <1>2, <1>6 DEF Holds
    <3> QED BY <1>1, <1>4, <1>5, <3>1, <3>2, <3>3, ShrunkMarked
  <2>7. ASSUME NEW d \in LiveBuffers \ {b} PROVE Plain(Waiting'[d])
    <3> DEFINE m == Offsets(chain[b], data)[k] + part
    <3>1. Waiting' = [Waiting EXCEPT ![b] = SubSeq(@, m + 1, Len(@))]
      BY <1>5, TakesWaiting
    <3> HIDE DEF m
    <3>2. Waiting'[d] = Waiting[d]
      BY <3>1 DEF LiveBuffers, Waiting
    <3> QED BY <1>2, <1>6, <3>2 DEF Holds
  <2> QED BY <1>1, <1>3, <2>6, <2>7 DEF Holds
<1>7. CASE h # b
  <2>1. Marked(chain'[h], data', start', ph)
    <3>1. <<>> \in Seq(Byte) /\ Plain(<<>>)
      BY DEF Plain
    <3>2. Grown(chain[h], data, start, chain'[h], data', start', <<>>)
      BY <1>7 DEF Takes
    <3>3. Marked(chain[h], data, start, ph)
      BY <1>2 DEF Holds
    <3> QED BY <1>1, <1>3, <3>1, <3>2, <3>3, GrownMarked
  <2>2. ASSUME NEW d \in LiveBuffers \ {h} PROVE Plain(Waiting'[d])
    <3> DEFINE m == Offsets(chain[b], data)[k] + part
    <3>1. m \in 0 .. Len(Waiting[b]) /\ Waiting' = [Waiting EXCEPT ![b] = SubSeq(@, m + 1, Len(@))]
      BY <1>5, TakesWaiting
    <3> HIDE DEF m
    <3>2. Waiting'[d] = IF d = b THEN SubSeq(Waiting[b], m + 1, Len(Waiting[b])) ELSE Waiting[d]
      BY <3>1 DEF LiveBuffers, Waiting
    <3>3. Waiting[b] \in Seq(Byte) /\ Plain(Waiting[b]) /\ Plain(Waiting[d])
      BY <1>2, <1>7, OfQueue DEF Holds
    <3>4. Plain(SubSeq(Waiting[b], m + 1, Len(Waiting[b])))
      BY <3>1, <3>3, PlainPart
    <3> QED BY <3>2, <3>3, <3>4
  <2> QED BY <1>1, <1>3, <2>1, <2>2 DEF Holds
<1> QED BY <1>6, <1>7

-----------------------------------------------------------------------------
(* Calls that move bytes.                                                  *)

(* The first bytes of queue src, as many as the first k fragments and      *)
(* `part' bytes of the next one hold, went to the end of queue dst.        *)
Moves(dst, src, k, part) ==
  /\ live' = live
  /\ Grown(chain[dst], data, start, chain'[dst], data', start',
           SubSeq(Waiting[src], 1, Offsets(chain[src], data)[k] + part))
  /\ Shrunk(chain[src], data, start, k, part, chain'[src], data', start')
  /\ \A d \in LiveBuffers \ {dst, src} :
       Grown(chain[d], data, start, chain'[d], data', start', <<>>)

(* The first m bytes of the queue of src go to the end of that of dst.     *)
Moved(dst, src, m) ==
  /\ m \in 0 .. Len(Waiting[src])
  /\ Waiting' = [Waiting EXCEPT ![src] = SubSeq(@, m + 1, Len(@)),
                                ![dst] = @ \o SubSeq(Waiting[src], 1, m)]

LEMMA MovesWaiting ==
  ASSUME Core, NEW dst \in LiveBuffers, NEW src \in LiveBuffers, dst # src,
         NEW k, NEW part, Moves(dst, src, k, part), data' \in Fields
  PROVE  Moved(dst, src, Offsets(chain[src], data)[k] + part)
<1> DEFINE m == Offsets(chain[src], data)[k] + part
           w == [Waiting EXCEPT ![src] = SubSeq(@, m + 1, Len(@)),
                                ![dst] = @ \o SubSeq(Waiting[src], 1, m)]
<1>1. /\ chain[src] \in Lists /\ Inj(chain[src]) /\ data \in Fields
      /\ dst \in Buffers /\ src \in Buffers
      /\ Waiting[src] = Contents(chain[src], data)
      /\ Waiting[dst] = Contents(chain[dst], data)
  BY OfQueue
<1>2. Shrunk(chain[src], data, start, k, part, chain'[src], data', start')
  BY DEF Moves
<1>3. Cuts(chain[src], data, k, part, chain'[src], data')
  BY <1>1, <1>2, ShrunkContents
<1>4. /\ m \in 0 .. Len(Contents(chain[src], data))
      /\ Contents(chain'[src], data') = SubSeq(Contents(chain[src], data), m + 1,
                                               Len(Contents(chain[src], data)))
  BY <1>3 DEF Cuts
<1>5. Contents(chain'[dst], data') = Contents(chain[dst], data) \o SubSeq(Waiting[src], 1, m)
  BY DEF Moves, Grown
<1> HIDE DEF m
<1> DEFINE left == SubSeq(Waiting[src], m + 1, Len(Waiting[src]))
           joined == Waiting[dst] \o SubSeq(Waiting[src], 1, m)
<1>0. /\ w = [Waiting EXCEPT ![src] = left, ![dst] = joined]
      /\ Waiting = [d \in Buffers |-> Waiting[d]]
  BY DEF Waiting
<1>6. /\ \A d \in Buffers : w[d] = IF d = dst THEN Waiting[dst] \o SubSeq(Waiting[src], 1, m)
                                   ELSE IF d = src
                                   THEN SubSeq(Waiting[src], m + 1, Len(Waiting[src]))
                                   ELSE Waiting[d]
      /\ w = [d \in Buffers |-> w[d]]
  <2> HIDE DEF left, joined, w
  <2>1. /\ \A d \in Buffers : w[d] = IF d = dst THEN joined ELSE IF d = src THEN left ELSE Waiting[d]
        /\ w = [d \in Buffers |-> w[d]]
    BY <1>0
  <2> QED BY <2>1 DEF left, joined
<1>7. \A d \in LiveBuffers : Waiting'[d] = Contents(chain'[d], data')
  BY DEF Waiting, Bytes, Moves, LiveBuffers
<1>8. ASSUME NEW d \in Buffers PROVE Waiting'[d] = w[d]
  <2>1. CASE d \notin LiveBuffers
    BY <1>6, <2>1 DEF Waiting, Moves, LiveBuffers
  <2>2. CASE d = src
    BY <1>1, <1>4, <1>6, <1>7, <2>2
  <2>3. CASE d = dst
    BY <1>1, <1>5, <1>6, <1>7, <2>3
  <2>4. CASE d \in LiveBuffers /\ d # dst /\ d # src
    <3>1. Waiting[d] = Contents(chain[d], data) /\ Waiting[d] \in Seq(Byte)
      BY <2>4, OfQueue
    <3>2. Waiting'[d] = Waiting[d] \o <<>>
      BY <1>7, <2>4, <3>1 DEF Moves, Grown
    <3>3. Waiting[d] \o <<>> = Waiting[d]
      BY <3>1, ConcatEmptySeq
    <3> QED BY <1>6, <2>4, <3>2, <3>3
  <2> QED BY <2>1, <2>2, <2>3, <2>4
<1>9. Waiting' = w
  <2> HIDE DEF w
  <2> QED BY <1>6, <1>8 DEF Waiting
<1>10. /\ m \in 0 .. Len(Waiting[src])
       /\ Waiting' = [Waiting EXCEPT ![src] = SubSeq(@, m + 1, Len(@)),
                                     ![dst] = @ \o SubSeq(Waiting[src], 1, m)]
  BY <1>1, <1>4, <1>9 DEF m
<1>11. Moved(dst, src, m)
  <2> HIDE DEF m
  <2> QED BY <1>10 DEF Moved
<1> QED BY <1>11 DEF m

LEMMA PlainFirst ==
  ASSUME NEW q \in Seq(Byte), NEW n \in 0 .. Len(q), \A i \in 1 .. n : q[i] # Hole
  PROVE  SubSeq(q, 1, n) \in Seq(Byte) /\ Plain(SubSeq(q, 1, n))
<1>1. /\ SubSeq(q, 1, n) \in Seq(Byte) /\ Len(SubSeq(q, 1, n)) = n
      /\ \A i \in 1 .. n : SubSeq(q, 1, n)[i] = q[i]
  BY CutSeq
<1> QED BY <1>1 DEF Plain

(* What bulp_buffer_transfer moves lies ahead of the reserved bytes, or    *)
(* the placeholder is given up.                                            *)
LEMMA PhMoves ==
  ASSUME Core, Core', NEW dst \in LiveBuffers, NEW src \in LiveBuffers, dst # src,
         NEW k \in Nat, NEW part \in Nat, Moves(dst, src, k, part),
         ph \in Placeholder \cup {NULL},
         ph' = Disturb(src, k, Offsets(chain[src], data)[k] + part), PhInv
  PROVE  PhInv'
<1> SUFFICES ASSUME ph' # NULL, ph'.fresh PROVE \E h \in LiveBuffers' : Holds(h, ph)'
  BY DEF PhInv
<1> DEFINE i == IndexIn(chain[src], ph.frag)
           n == Offsets(chain[src], data)[k] + part
           s == SubSeq(Waiting[src], 1, n)
<1>1. /\ ph \in Placeholder /\ ph' = ph
      /\ ph.frag \in Placed(chain[src]) => ~(i <= k) /\ ~(n > Ahead(src))
  <2>1. ph # NULL
    BY DEF Disturb
  <2>2. ph \in Placeholder
    BY <2>1
  <2> DEFINE g == ph.frag \in Placed(chain[src]) /\ (i <= k \/ n > Ahead(src))
  <2>3. ph' = IF g THEN [ph EXCEPT !.fresh = FALSE] ELSE ph
    BY <2>1 DEF Disturb
  <2>4. ~g
    <3> HIDE DEF g
    <3> QED BY <2>2, <2>3 DEF Placeholder
  <2> QED BY <2>2, <2>3, <2>4
<1>2. PICK h \in LiveBuffers : Holds(h, ph)
  BY <1>1 DEF PhInv
<1>3. LiveBuffers' = LiveBuffers
  BY DEF Moves, LiveBuffers
<1>4. /\ chain[src] \in Lists /\ Inj(chain[src]) /\ data \in Fields /\ start \in Starts
      /\ dst \in Buffers /\ src \in Buffers
      /\ Waiting[src] \in Seq(Byte) /\ Waiting[dst] \in Seq(Byte)
      /\ Waiting[src] = Contents(chain[src], data)
  BY OfQueue
<1>5. chain'[src] \in Lists /\ data' \in Fields
  BY <1>3, NextLists
<1>6. /\ n \in 0 .. Len(Waiting[src])
      /\ Waiting' = [Waiting EXCEPT ![src] = SubSeq(@, n + 1, Len(@)), ![dst] = @ \o s]
  <2>1. Moved(dst, src, n)
    BY <1>5, MovesWaiting
  <2> HIDE DEF n
  <2> QED BY <2>1 DEF Moved
<1>7. /\ Grown(chain[dst], data, start, chain'[dst], data', start', s)
      /\ Shrunk(chain[src], data, start, k, part, chain'[src], data', start')
  BY DEF Moves
<1> HIDE DEF s
<1>8. \A d \in LiveBuffers : Waiting'[d] = IF d = dst THEN Waiting[dst] \o s
                                           ELSE IF d = src
                                           THEN SubSeq(Waiting[src], n + 1, Len(Waiting[src]))
                                           ELSE Waiting[d]
  <2> HIDE DEF n
  <2> QED BY <1>6 DEF Waiting, LiveBuffers
<1>9. CASE h = src
  <2>1. PICK j \in 1 .. Len(chain[src]) : MarkedAt(chain[src], data, start, ph, j)
    BY <1>2, <1>9 DEF Holds, Marked
  <2>2. chain[src][j] = ph.frag
    BY <2>1 DEF MarkedAt
  <2>3. ph.frag \in Placed(chain[src]) /\ i = j
    <3>1. ph.frag \in Placed(chain[src])
      BY <2>2 DEF Placed
    <3>2. IndexIn(chain[src], chain[src][j]) = j
      BY <1>4, IndexInList
    <3> QED BY <2>2, <3>1, <3>2
  <2>4. i > k /\ Ahead(src) = Offsets(chain[src], data)[i - 1] + ph.off - start[ph.frag]
    BY <1>1, <1>4, <2>3, LenProperties DEF Ahead, Lists
  <2>5. n <= Ahead(src) /\ Ahead(src) \in Int
    <3>1. Offsets(chain[src], data)[i - 1] \in Nat
      <4>1. i - 1 \in 0 .. Len(chain[src])
        BY <1>4, <2>3, LenProperties DEF Lists
      <4> HIDE DEF i
      <4> QED BY <1>4, <4>1, TotalType
    <3>2. ph.off \in Nat /\ start[ph.frag] \in Nat /\ n \in Nat
      BY <1>1, <1>4, <1>6 DEF Placeholder, Starts
    <3>3. ~(n > Ahead(src))
      BY <1>1, <2>3
    <3> HIDE DEF i, n
    <3> QED BY <2>4, <3>1, <3>2, <3>3
  <2>6. Marked(chain'[src], data', start', ph)
    <3>1. /\ IndexIn(chain[src], ph.frag) > k
          /\ Offsets(chain[src], data)[k] + part
               <= Offsets(chain[src], data)[IndexIn(chain[src], ph.frag) - 1]
                    + ph.off - start[ph.frag]
      BY <2>4, <2>5
    <3>2. Marked(chain[src], data, start, ph)
      BY <1>2, <1>9 DEF Holds
    <3> QED BY <1>1, <1>4, <1>5, <1>7, <3>1, <3>2, ShrunkMarked
  <2>7. s \in Seq(Byte) /\ Plain(s)
    <3> DEFINE at == Offsets(chain[src], data)[j - 1] + ph.off - start[ph.frag]
    <3>1. at = Ahead(src)
      BY <2>3, <2>4
    <3>2. \A x \in 1 .. Len(Waiting[src]) : Waiting[src][x] = Hole => x - at \in 1 .. ph.len
      BY <1>4, <2>1 DEF MarkedAt
    <3>3. ph.len \in Nat /\ Len(Waiting[src]) \in Nat
      BY <1>1, <1>4, LenProperties DEF Placeholder
    <3> HIDE DEF at, n
    <3>4. \A x \in 1 .. n : Waiting[src][x] # Hole
      BY <1>6, <2>5, <3>1, <3>2, <3>3
    <3> QED BY <1>4, <1>6, <3>4, PlainFirst DEF s
  <2>8. ASSUME NEW d \in LiveBuffers \ {src} PROVE Plain(Waiting'[d])
    <3>1. Plain(Waiting[d]) /\ Plain(Waiting[dst])
      BY <1>2, <1>9 DEF Holds
    <3>2. Plain(Waiting[dst] \o s)
      BY <1>4, <2>7, <3>1, PlainConcat
    <3> QED BY <1>8, <3>1, <3>2
  <2> QED BY <1>1, <1>3, <2>6, <2>8 DEF Holds
<1>10. CASE h # src
  <2>1. Plain(Waiting[src])
    BY <1>2, <1>10 DEF Holds
  <2>2. s \in Seq(Byte) /\ Plain(s) /\ Plain(SubSeq(Waiting[src], n + 1, Len(Waiting[src])))
    <3> HIDE DEF n
    <3>1. \A x \in 1 .. n : Waiting[src][x] # Hole
      BY <1>4, <1>6, <2>1, LenProperties DEF Plain
    <3> QED BY <1>4, <1>6, <2>1, <3>1, PlainFirst, PlainPart DEF s
  <2>3. Marked(chain'[h], data', start', ph)
    <3> DEFINE r == IF h = dst THEN s ELSE <<>>
    <3>1. <<>> \in Seq(Byte) /\ Plain(<<>>)
      BY DEF Plain
    <3>2. Grown(chain[h], data, start, chain'[h], data', start', r)
      BY <1>7, <1>10 DEF Moves
    <3>3. Marked(chain[h], data, start, ph) /\ r \in Seq(Byte) /\ Plain(r)
      BY <1>2, <2>2, <3>1 DEF Holds
    <3> HIDE DEF r
    <3> QED BY <1>1, <1>3, <3>2, <3>3, GrownMarked
  <2>4. ASSUME NEW d \in LiveBuffers \ {h} PROVE Plain(Waiting'[d])
    <3>1. Plain(Waiting[d])
      BY <1>2 DEF Holds
    <3>2. d = dst => Plain(Waiting[dst] \o s)
      BY <1>4, <2>2, <3>1, PlainConcat
    <3> QED BY <1>8, <2>2, <3>1, <3>2
  <2> QED BY <1>1, <1>3, <2>3, <2>4 DEF Holds
<1> QED BY <1>9, <1>10

(* bulp_buffer_drain: the whole list of src goes behind dst's.             *)
LEMMA DrainMoves ==
  ASSUME Core, NEW dst \in LiveBuffers, NEW src \in LiveBuffers, drain(dst, src)
  PROVE  /\ Moves(dst, src, Len(chain[src]), 0)
         /\ chain'[dst] = chain[dst] \o chain[src] /\ chain'[src] = <<>>
         /\ \A d \in LiveBuffers : d # dst /\ d # src => chain'[d] = chain[d]
<1> DEFINE c == chain[src]
           h == chain[dst]
<1>1. /\ c \in Lists /\ h \in Lists /\ data \in Fields /\ start \in Starts
      /\ dst \in Buffers /\ src \in Buffers /\ dst # src
      /\ Waiting[src] = Contents(c, data) /\ Waiting[src] \in Seq(Byte)
      /\ Len(Waiting[src]) = Total(c, data) /\ Inj(c)
      /\ Good(h, last[dst], size[dst], data)
  BY OfQueue, OfBuffer DEF drain
<1>2. live' = live /\ data' = data /\ start' = start
  BY DEF drain, fragVars
<1>3. /\ chain'[dst] = h \o c /\ chain'[src] = <<>>
      /\ \A d \in LiveBuffers : d # dst /\ d # src => chain'[d] = chain[d]
  <2>1. CASE c = <<>>
    <3>1. chain' = chain
      BY <2>1 DEF drain
    <3>2. h \o <<>> = h
      BY <1>1, ConcatEmptySeq DEF Lists
    <3> QED BY <2>1, <3>1, <3>2
  <2>2. CASE c # <<>>
    <3>1. chain' = [chain EXCEPT ![dst] = Link(@, last[dst], c), ![src] = <<>>]
      BY <2>2 DEF drain
    <3>2. Link(h, last[dst], c) = h \o c
      <4>1. CASE h = <<>>
        <5>1. last[dst] = NULL /\ <<>> \o c = c
          BY <1>1, <4>1, ConcatEmptySeq DEF Good, Lists
        <5> QED BY <2>2, <4>1, <5>1 DEF Link
      <4>2. CASE h # <<>>
        <5>1. last[dst] # NULL
          BY <1>1, <4>2, GoodTail
        <5> QED BY <2>2, <5>1 DEF Link
      <4> QED BY <4>1, <4>2
    <3>3. \A d \in LiveBuffers : d \in Buffers
      BY DEF LiveBuffers
    <3>4. chain \in [Buffers -> Lists]
      BY DEF Core, Shape
    <3> QED BY <1>1, <3>1, <3>2, <3>3, <3>4
  <2> QED BY <2>1, <2>2
<1>4. Len(c) \in Nat /\ Offsets(c, data)[Len(c)] + 0 = Len(Waiting[src])
  <2>1. Len(c) \in Nat /\ Total(c, data) \in Nat
    BY <1>1, TotalType, LenProperties DEF Lists
  <2> QED BY <1>1, <2>1 DEF Total
<1>5. SubSeq(Waiting[src], 1, Offsets(c, data)[Len(c)] + 0) = Contents(c, data)
  <2> DEFINE q == Waiting[src]
  <2>1. q \in Seq(Byte)
    BY <1>1
  <2> HIDE DEF q
  <2>2. SubSeq(q, 1, Len(q)) = q
    <3>1. Len(q) \in 0 .. Len(q)
      BY <2>1, LenProperties
    <3>2. /\ SubSeq(q, 1, Len(q)) \in Seq(Byte) /\ Len(SubSeq(q, 1, Len(q))) = Len(q)
          /\ \A i \in 1 .. Len(q) : SubSeq(q, 1, Len(q))[i] = q[i]
      BY <2>1, <3>1, CutSeq
    <3> QED BY <2>1, <3>2, SeqEqual
  <2> QED BY <1>1, <1>4, <2>2 DEF q
<1>6. Grown(h, data, start, chain'[dst], data', start', Contents(c, data))
  <2>1. Grown(h, data, start, h \o c, data, start, Contents(c, data))
    BY <1>1, GrownLinked
  <2> QED BY <1>2, <1>3, <2>1
<1>7. Shrunk(c, data, start, Len(c), 0, chain'[src], data', start')
  <2>1. SubSeq(c, Len(c) + 1, Len(c)) = <<>>
    <3>1. Len(c) \in 0 .. Len(c)
      BY <1>4
    <3>2. /\ SubSeq(c, Len(c) + 1, Len(c)) \in Seq(Frag)
          /\ Len(SubSeq(c, Len(c) + 1, Len(c))) = Len(c) - Len(c)
      BY <1>1, <3>1, CutSeq DEF Lists
    <3> QED BY <1>4, <3>2, EmptySeq
  <2>2. Len(c) \in 0 .. Len(c) /\ 0 \in Nat /\ ~(Len(c) < Len(c))
        /\ ~\E i \in Len(c) + 1 .. Len(c) : TRUE
    BY <1>4
  <2> HIDE DEF c
  <2> QED BY <1>3, <2>1, <2>2 DEF Shrunk
<1>8. \A d \in LiveBuffers \ {dst, src} :
        Grown(chain[d], data, start, chain'[d], data', start', <<>>)
  BY <1>1, <1>2, <1>3, OthersUntouched
<1> QED BY <1>2, <1>3, <1>5, <1>6, <1>7, <1>8 DEF Moves

(* The placeholder goes along when its list is spliced.                    *)
LEMMA PhDrains ==
  ASSUME Core, Core', NEW dst \in LiveBuffers, NEW src \in LiveBuffers, drain(dst, src),
         ph \in Placeholder \cup {NULL}, PhInv
  PROVE  PhInv'
<1>0. ph' = ph /\ live' = live /\ data' = data /\ start' = start /\ dst # src
  BY DEF drain, fragVars
<1> SUFFICES ASSUME ph # NULL, ph.fresh PROVE \E h \in LiveBuffers' : Holds(h, ph)'
  BY <1>0 DEF PhInv
<1>1. ph \in Placeholder /\ LiveBuffers' = LiveBuffers
  BY <1>0 DEF LiveBuffers
<1>2. PICK h \in LiveBuffers : Holds(h, ph)
  BY DEF PhInv
<1>3. /\ Moves(dst, src, Len(chain[src]), 0)
      /\ chain'[dst] = chain[dst] \o chain[src] /\ chain'[src] = <<>>
      /\ \A d \in LiveBuffers : d # dst /\ d # src => chain'[d] = chain[d]
  BY DrainMoves
<1>4. /\ chain[src] \in Lists /\ chain[dst] \in Lists /\ data \in Fields /\ start \in Starts
      /\ Inj(chain[dst]) /\ Waiting[src] \in Seq(Byte) /\ Waiting[dst] \in Seq(Byte)
      /\ Waiting[src] = Contents(chain[src], data) /\ Waiting[dst] = Contents(chain[dst], data)
  BY OfQueue
<1>5. /\ Waiting'[dst] = Waiting[dst] \o Waiting[src] /\ Waiting'[src] = <<>>
      /\ \A d \in LiveBuffers : d # dst /\ d # src => Waiting'[d] = Waiting[d]
  <2>1. Contents(chain[dst] \o chain[src], data) = Waiting[dst] \o Waiting[src]
    BY ONLY <1>4, ContentsConcat
  <2>2. Contents(<<>>, data) = <<>>
    BY ONLY <1>4, ContentsFew
  <2>3. \A d \in LiveBuffers : Waiting'[d] = Contents(chain'[d], data)
    BY <1>0, <1>1, NextLists
  <2>4. \A d \in LiveBuffers : Waiting[d] = Contents(chain[d], data)
    BY OfQueue
  <2> QED BY <1>3, <2>1, <2>2, <2>3, <2>4
<1>6. Plain(<<>>)
  BY DEF Plain
<1>7. CASE h = src
  <2>1. Marked(chain[src], data, start, ph) /\ Plain(Waiting[dst])
    BY <1>0, <1>2, <1>7 DEF Holds
  <2>2. Marked(chain[dst] \o chain[src], data, start, ph)
    BY <1>1, <1>4, <2>1, MarkedBehind
  <2>3. \A d \in LiveBuffers \ {dst} : Plain(Waiting'[d])
    BY <1>2, <1>5, <1>6, <1>7 DEF Holds
  <2> QED BY <1>0, <1>1, <1>3, <2>2, <2>3 DEF Holds
<1>8. CASE h # src
  <2>1. Plain(Waiting[src]) /\ Marked(chain[h], data, start, ph)
    BY <1>2, <1>8 DEF Holds
  <2>2. Marked(chain'[h], data', start', ph)
    <3>1. CASE h = dst
      <4>1. Grown(chain[dst], data, start, chain[dst] \o chain[src], data, start,
                  Contents(chain[src], data))
        BY <1>4, GrownLinked
      <4>2. Grown(chain[dst], data, start, chain'[dst], data', start', Waiting[src])
        BY <1>0, <1>3, <1>4, <4>1
      <4> QED BY <1>1, <1>4, <2>1, <3>1, <4>2, GrownMarked
    <3>2. CASE h # dst
      BY <1>0, <1>3, <1>8, <2>1, <3>2
    <3> QED BY <3>1, <3>2
  <2>3. ASSUME NEW d \in LiveBuffers \ {h} PROVE Plain(Waiting'[d])
    <3>1. Plain(Waiting[d])
      BY <1>2 DEF Holds
    <3>2. d = dst => Plain(Waiting[dst] \o Waiting[src])
      BY <1>4, <2>1, <3>1, PlainConcat
    <3> QED BY <1>5, <1>6, <3>1, <3>2
  <2> QED BY <1>0, <1>1, <2>2, <2>3 DEF Holds
<1> QED BY <1>7, <1>8

(* The fragments that bulp_buffer_transfer links and copies to dst.        *)
LEMMA LinkedAndStored ==
  ASSUME NEW h \in Lists, NEW a \in Lists, NEW d \in Fields, NEW st, Inj(h \o a),
         NEW s \in Seq(Byte), NEW tail \in Frag \cup {NULL},
         tail = IF h \o a = <<>> THEN NULL ELSE (h \o a)[Len(h \o a)],
         Room(tail) \in Nat,
         NEW fs \in Lists, Inj(fs), Placed(fs) \cap Placed(h \o a) = {},
         Len(fs) = Needed(Len(s), Room(tail)),
         NEW su, \A f \in Placed(h \o a) : su[f] = st[f],
         NEW x \in Fields,
         \A f \in Placed(h \o a) \cup Placed(fs) : x[f] = Fill(d, tail, fs, s)[f]
  PROVE  Grown(h, d, st, Link(h \o a, tail, fs), x, su, Contents(a, d) \o s)
<1> DEFINE m == h \o a
           e == Link(m, tail, fs)
           t == Contents(a, d)
<1>1. m \in Lists /\ t \in Seq(Byte)
  BY ContentsTyped, ConcatProperties DEF Lists
<1>2. Grown(h, d, st, m, d, st, t)
  BY GrownLinked
<1>3. /\ Inj(m) /\ tail = (IF m = <<>> THEN NULL ELSE m[Len(m)])
      /\ Placed(fs) \cap Placed(m) = {}
      /\ \A f \in Placed(m) : su[f] = st[f]
      /\ \A f \in Placed(m) \cup Placed(fs) : x[f] = Fill(d, tail, fs, s)[f]
  OBVIOUS
<1> HIDE DEF m, t
<1>4. e = m \o fs /\ Grown(m, d, st, e, x, su, s)
  <2>1. Storing(m, d, s, tail, fs, st, su, x)
    BY <1>1, <1>3 DEF Storing
  <2> QED BY ONLY <2>1, GrownStored
<1>5. e \in Lists
  <2>1. m \o fs \in Lists
    BY <1>1, ConcatProperties DEF Lists
  <2> HIDE DEF e
  <2> QED BY <1>4, <2>1
<1> HIDE DEF e
<1>6. Grown(h, d, st, e, x, su, t \o s)
  BY <1>1, <1>2, <1>3, <1>4, <1>5, GrownTwice
<1> QED BY <1>6 DEF e, m, t

(* bulp_buffer_transfer: whole fragments, and a copy of the rest.          *)
LEMMA TransferMoves ==
  ASSUME Core, NEW dst \in LiveBuffers, NEW src \in LiveBuffers, dst # src,
         NEW n \in Nat, transfer(dst, src, n)
  PROVE  \E k \in Nat, part \in Nat :
           /\ Moves(dst, src, k, part)
           /\ Offsets(chain[src], data)[k] + part
                = IF n <= Len(Waiting[src]) THEN n ELSE Len(Waiting[src])
           /\ ph' = Disturb(src, k, Offsets(chain[src], data)[k] + part)
<1> DEFINE c == chain[src]
           h == chain[dst]
           off == Offsets(c, data)
           k == Cardinality(Fitting(c, data, n))
           part == IF k < Len(c) THEN n - off[k] ELSE 0
           copied == IF part = 0 THEN <<>> ELSE SubSeq(data[c[k + 1]], 1, part)
           a == SubSeq(c, 1, k)
           z == SubSeq(c, k + 1, Len(c))
           moved == Link(h, last[dst], a)
           tail == IF k = 0 THEN last[dst] ELSE c[k]
<1>1. PICK fs \in Fresh(Needed(part, Room(tail))) :
        /\ chain' = [chain EXCEPT ![dst] = Link(moved, tail, fs), ![src] = z]
        /\ data' = [f \in Frag |-> IF part > 0 /\ f = c[k + 1]
                                   THEN SubSeq(data[f], part + 1, Len(data[f]))
                                   ELSE Fill(data, tail, fs, copied)[f]]
        /\ start' = [f \in Frag |-> IF f \in Placed(fs) THEN 0
                                    ELSE IF part > 0 /\ f = c[k + 1]
                                    THEN start[f] + part ELSE start[f]]
  BY DEF transfer, Fitting
<1>2. live' = live /\ ph' = Disturb(src, k, off[k] + part)
  BY DEF transfer, Fitting
<1>3. /\ c \in Lists /\ h \in Lists /\ data \in Fields
      /\ Good(h, last[dst], size[dst], data) /\ Good(c, last[src], size[src], data)
      /\ Placed(h) \cap Placed(c) = {}
      /\ dst \in Buffers /\ src \in Buffers
      /\ last[dst] \in Frag \cup {NULL}
      /\ Placed(h) \subseteq Frag /\ Placed(c) \subseteq Frag
      /\ \A f \in Placed(h) \cup Placed(c) : f \notin bin /\ kind[f] # FREE
      /\ start \in Starts /\ bin \in SUBSET Frag
      /\ Inj(c) /\ Inj(h)
      /\ Waiting[src] = Contents(c, data) /\ Len(Waiting[src]) = Total(c, data)
  BY OfBuffer, OfQueue DEF Core, Shape, Starts
<1>4. /\ k \in 0 .. Len(c) /\ Len(c) \in Nat /\ off[k] \in Nat /\ part \in Nat
      /\ k < Len(c) => part < Len(data[c[k + 1]])
      /\ k = Len(c) => part = 0
      /\ off[k] + part = IF n <= Total(c, data) THEN n ELSE Total(c, data)
  <2>1. /\ k \in 0 .. Len(c) /\ off[k] <= n
        /\ k < Len(c) => n - off[k] < Len(data[c[k + 1]])
    BY <1>3, FittingBounds
  <2>2. Len(c) \in Nat /\ off[k] \in Nat /\ Total(c, data) = off[Len(c)]
    BY <1>3, <2>1, TotalType DEF Total
  <2>3. k < Len(c) => n <= Total(c, data)
    <3> SUFFICES ASSUME k < Len(c) PROVE n <= Total(c, data)
      OBVIOUS
    <3>1. k + 1 \in 1 .. Len(c) /\ k + 1 \in 0 .. Len(c)
      BY <2>1, <2>2
    <3>2. off[k + 1] = off[k] + Len(data[c[k + 1]])
      <4>1. Sums(off, c, data, Len(c))
        BY <1>3, OffsetsDef
      <4>2. off[k + 1] = off[(k + 1) - 1] + Len(data[c[k + 1]])
        BY <3>1, <4>1 DEF Sums
      <4>3. (k + 1) - 1 = k
        BY <2>1, <2>2
      <4> QED BY <4>2, <4>3
    <3>3. off[k + 1] \in Nat /\ off[k + 1] <= Total(c, data) /\ Total(c, data) \in Nat
      BY <1>3, <3>1, TotalType
    <3>4. Len(data[c[k + 1]]) \in Nat
      BY <1>3, <3>1, LenOfFragment
    <3> HIDE DEF k, c, off
    <3> QED BY <2>1, <2>2, <3>2, <3>3, <3>4
  <2>4. Total(c, data) \in Nat
    BY <1>3, TotalType
  <2> HIDE DEF k, c, off
  <2> QED BY <2>1, <2>2, <2>3, <2>4
<1> HIDE DEF k, part
<1>5. /\ a \in Lists /\ Placed(a) \subseteq Placed(c) /\ (a = <<>> <=> k = 0)
      /\ Good(a, IF k = 0 THEN NULL ELSE c[k], off[k], data)
  <2>1. c \in Lists /\ data \in Fields /\ Good(c, last[src], size[src], data)
        /\ k \in 0 .. Len(c)
    BY <1>3, <1>4
  <2> DEFINE t == last[src]
             m == size[src]
  <2> HIDE DEF c, t, m
  <2>2. Good(c, t, m, data)
    BY <2>1 DEF t, m
  <2> QED BY ONLY <2>1, <2>2, GoodFirst DEF a, off
<1>6. /\ Placed(z) = {c[i] : i \in k + 1 .. Len(c)}
      /\ Placed(a) \cap Placed(z) = {} /\ Placed(c) = Placed(a) \cup Placed(z)
  <2>1. c \in Lists /\ k \in 0 .. Len(c) /\ Inj(c)
    BY <1>3, <1>4
  <2> HIDE DEF c
  <2> QED BY ONLY <2>1, Cut, InjCut DEF a, z
<1>7. k < Len(c) => /\ c[k + 1] \in Placed(z) /\ c[k + 1] \in Frag
                    /\ Len(data[c[k + 1]]) \in Nat /\ part <= Len(data[c[k + 1]])
  <2> SUFFICES ASSUME k < Len(c) PROVE <1>7!2
    OBVIOUS
  <2>1. k + 1 \in k + 1 .. Len(c)
    BY <1>4
  <2>2. c[k + 1] \in Placed(z) /\ c[k + 1] \in Frag
    BY <1>3, <1>6, <2>1
  <2> QED BY <1>3, <1>4, <2>2, LengthZero
<1> DEFINE N == Placed(fs)
           e == Link(moved, tail, fs)
           filled == Fill(data, tail, fs, copied)
<1> HIDE DEF a, z
<1>8. /\ moved \in Lists /\ Placed(moved) = Placed(h) \cup Placed(a) /\ Inj(moved)
      /\ tail = (IF moved = <<>> THEN NULL ELSE moved[Len(moved)])
      /\ tail \in Frag \cup {NULL} /\ (tail \in Frag => tail \in Placed(moved))
      /\ Good(moved, tail, size[dst] + off[k], data)
      /\ moved = h \o a
  <2> DEFINE t == last[dst]
             m == size[dst]
             w == IF k = 0 THEN NULL ELSE c[k]
             q == off[k]
  <2>1. /\ h \in Lists /\ a \in Lists /\ data \in Fields /\ Good(h, t, m, data)
        /\ Good(a, w, q, data)
        /\ Placed(h) \cap Placed(a) = {}
    BY <1>3, <1>5
  <2>2. tail = IF a = <<>> THEN t ELSE w
    BY <1>5
  <2> HIDE DEF t, m, w, q, h, tail
  <2>3. /\ Link(h, t, a) \in Lists /\ Placed(Link(h, t, a)) = Placed(h) \cup Placed(a)
        /\ Good(Link(h, t, a), tail, m + q, data)
    BY ONLY <2>1, <2>2, GoodJoin
  <2>4. tail \in Frag \cup {NULL} /\ (tail # NULL => tail \in Placed(Link(h, t, a)))
    BY <2>1, <2>3, GoodTail
  <2>5. Link(h, t, a) = h \o a
    <3>1. CASE h = <<>>
      <4>1. t = NULL /\ <<>> \o a = a
        BY <2>1, <3>1, ConcatEmptySeq DEF Good, Lists
      <4> QED BY <3>1, <4>1 DEF Link
    <3>2. CASE h # <<>>
      <4>1. t # NULL /\ h \o <<>> = h
        BY <2>1, <3>2, GoodTail, ConcatEmptySeq DEF Lists
      <4> QED BY <4>1 DEF Link
    <3> QED BY <3>1, <3>2
  <2> QED BY <2>3, <2>4, <2>5, ValueAssumption DEF t, m, q, Good
<1> HIDE DEF moved, tail, h
<1>9. Room(tail) \in Nat
  BY <1>8, RoomNat
<1>10. copied \in Seq(Byte) /\ Len(copied) = part
  <2>1. CASE part = 0
    <3>1. copied = <<>> /\ <<>> \in Seq(Byte) /\ Len(<<>>) = 0
      BY <2>1
    <3> QED BY <2>1, <3>1
  <2>2. CASE part # 0
    <3>1. k < Len(c)
      BY <1>4, <2>2
    <3>2. c[k + 1] \in Frag /\ part <= Len(data[c[k + 1]])
      BY <1>4, <1>7, <3>1
    <3>3. data \in Fields /\ part \in Nat
      BY <1>3, <1>4
    <3> DEFINE g == c[k + 1]
    <3>4. g \in Frag /\ part <= Len(data[g]) /\ copied = SubSeq(data[g], 1, part)
      BY <2>2, <3>2
    <3> HIDE DEF g, copied
    <3> QED BY ONLY <3>3, <3>4, Copied
  <2> QED BY <2>1, <2>2
<1>11. /\ fs \in Lists /\ Inj(fs) /\ Len(fs) = Needed(part, Room(tail))
       /\ N \subseteq bin \cup Unallocated
  BY <1>3, <1>4, <1>9, NeededBounds, FreshDef
<1>12. /\ N \subseteq Frag /\ N \cap Placed(h) = {} /\ N \cap Placed(c) = {}
       /\ N \cap Placed(moved) = {}
  BY <1>3, <1>5, <1>8, <1>11 DEF Unallocated
<1>13. /\ filled \in Fields
       /\ \A f \in Frag : f \notin N /\ f # tail => filled[f] = data[f]
  <2> DEFINE m == size[dst] + off[k]
  <2>1. /\ moved \in Lists /\ data \in Fields /\ Good(moved, tail, m, data)
        /\ copied \in Seq(Byte) /\ Len(copied) = part /\ Room(tail) \in Nat
        /\ fs \in Lists /\ Inj(fs) /\ Placed(fs) \cap Placed(moved) = {}
        /\ Len(fs) = Needed(Len(copied), Room(tail))
    BY <1>3, <1>8, <1>9, <1>10, <1>11, <1>12
  <2> HIDE DEF m, copied
  <2>2. /\ Fill(data, tail, fs, copied) \in Fields
        /\ \A f \in Frag : f \notin Placed(fs) /\ f # tail =>
              Fill(data, tail, fs, copied)[f] = data[f]
    BY ONLY <2>1, GoodStored
  <2> QED BY <2>1, <2>2 DEF m
<1> HIDE DEF filled, copied
<1>14. chain'[dst] = e /\ chain'[src] = z
       /\ \A d \in LiveBuffers : d # dst /\ d # src => chain'[d] = chain[d]
  BY <1>1, <1>3 DEF Core, Shape, LiveBuffers
<1>15. \A f \in Frag : data'[f] = IF part > 0 /\ f = c[k + 1]
                                  THEN SubSeq(data[f], part + 1, Len(data[f])) ELSE filled[f]
  BY <1>1 DEF filled
<1>16. data' \in Fields
  <2>1. part > 0 => /\ c[k + 1] \in Frag
                    /\ SubSeq(data[c[k + 1]], part + 1, Len(data[c[k + 1]])) \in Seq(Byte)
    <3> SUFFICES ASSUME part > 0 PROVE <2>1!2
      OBVIOUS
    <3>1. k < Len(c)
      BY <1>4
    <3> QED BY <1>3, <1>4, <1>7, <3>1, Advanced
  <2>2. \A f \in Frag : data'[f] \in Seq(Byte)
    BY <1>13, <1>15, <2>1 DEF Fields
  <2> QED BY <1>1, <2>2 DEF Fields
<1>17. \A f \in Frag : f \in Placed(moved) \cup N =>
         /\ data'[f] = filled[f]
         /\ f \notin N => start'[f] = start[f]
  <2> SUFFICES ASSUME NEW f \in Frag, f \in Placed(moved) \cup N
               PROVE  /\ data'[f] = filled[f]
                      /\ f \notin N => start'[f] = start[f]
    OBVIOUS
  <2>1. ~(part > 0 /\ f = c[k + 1])
    <3>1. f \notin Placed(z)
      BY <1>3, <1>6, <1>8, <1>12
    <3>2. part > 0 => k < Len(c)
      BY <1>4
    <3> QED BY <1>7, <3>1, <3>2
  <2> QED BY <1>1, <1>15, <2>1
<1>18. \A f \in Frag : f \notin Placed(moved) \cup N /\ ~(part > 0 /\ f = c[k + 1]) =>
         data'[f] = data[f] /\ start'[f] = start[f]
  BY <1>1, <1>8, <1>13, <1>15
(* The end of dst. *)
<1>19. Grown(h, data, start, e, data', start', Contents(a, data) \o copied)
  <2>1. Placed(moved) \subseteq Frag
    BY <1>8, PlacedConcat
  <2>2. \A f \in Placed(moved) \cup Placed(fs) : data'[f] = Fill(data, tail, fs, copied)[f]
    BY <1>12, <1>17, <2>1 DEF filled
  <2>3. \A f \in Placed(moved) : start'[f] = start[f]
    BY <1>12, <1>17, <2>1
  <2>4. /\ h \in Lists /\ a \in Lists /\ data \in Fields /\ copied \in Seq(Byte)
        /\ tail \in Frag \cup {NULL} /\ Room(tail) \in Nat
        /\ fs \in Lists /\ Inj(fs)
        /\ Len(fs) = Needed(Len(copied), Room(tail))
        /\ data' \in Fields
    BY <1>3, <1>5, <1>8, <1>9, <1>10, <1>11, <1>16
  <2>5. /\ Inj(h \o a)
        /\ tail = (IF h \o a = <<>> THEN NULL ELSE (h \o a)[Len(h \o a)])
        /\ Placed(fs) \cap Placed(h \o a) = {}
        /\ \A f \in Placed(h \o a) : start'[f] = start[f]
        /\ \A f \in Placed(h \o a) \cup Placed(fs) :
             data'[f] = Fill(data, tail, fs, copied)[f]
    BY <1>8, <1>12, <2>2, <2>3
  <2>6. Grown(h, data, start, Link(h \o a, tail, fs), data', start', Contents(a, data) \o copied)
    BY <2>4, <2>5, LinkedAndStored
  <2> QED BY <1>8, <2>6
(* The front of src. *)
<1>20. Shrunk(c, data, start, k, part, z, data', start')
  <2>1. ASSUME NEW i \in k + 1 .. Len(c), i # k + 1
        PROVE  data'[c[i]] = data[c[i]] /\ start'[c[i]] = start[c[i]]
    <3>1. i \in 1 .. Len(c) /\ k + 1 \in 1 .. Len(c)
      BY <1>4, <2>1
    <3>2. c[i] # c[k + 1] /\ c[i] \in Placed(z) /\ c[i] \in Frag
      BY <1>3, <1>6, <2>1, <3>1 DEF Inj
    <3>3. c[i] \notin Placed(moved) \cup N
      BY <1>3, <1>6, <1>8, <1>12, <3>2
    <3> QED BY <1>18, <3>2, <3>3
  <2>2. ASSUME k < Len(c)
        PROVE  /\ data'[c[k + 1]] = SubSeq(data[c[k + 1]], part + 1, Len(data[c[k + 1]]))
               /\ start'[c[k + 1]] = start[c[k + 1]] + part
    <3>0. c[k + 1] \notin Placed(moved) \cup N /\ c[k + 1] \in Frag
      BY <1>3, <1>6, <1>7, <1>8, <1>12, <2>2
    <3>1. CASE part > 0
      BY <1>1, <1>15, <3>0, <3>1
    <3>2. CASE part = 0
      <4>1. data'[c[k + 1]] = data[c[k + 1]] /\ start'[c[k + 1]] = start[c[k + 1]]
        BY <1>18, <3>0, <3>2
      <4>2. start[c[k + 1]] \in Nat /\ data[c[k + 1]] \in Seq(Byte)
        BY <1>3, <3>0, LengthZero DEF Starts
      <4> DEFINE q == data[c[k + 1]]
      <4> HIDE DEF q
      <4>3. SubSeq(q, 0 + 1, Len(q)) = q
        <5>1. q \in Seq(Byte) /\ 0 \in 0 .. Len(q) /\ Len(q) \in Nat
          BY <4>2, LenProperties DEF q
        <5>2. /\ SubSeq(q, 0 + 1, Len(q)) \in Seq(Byte) /\ Len(SubSeq(q, 0 + 1, Len(q))) = Len(q) - 0
              /\ \A i \in 1 .. Len(q) - 0 : SubSeq(q, 0 + 1, Len(q))[i] = q[0 + i]
          BY <5>1, CutSeq
        <5>3. Len(q) - 0 = Len(q) /\ \A i \in 1 .. Len(q) : 0 + i = i
          BY <5>1
        <5> QED BY <5>1, <5>2, <5>3, SeqEqual
      <4>4. data'[c[k + 1]] = SubSeq(data[c[k + 1]], 0 + 1, Len(data[c[k + 1]]))
        BY <4>1, <4>3 DEF q
      <4> QED BY <3>2, <4>1, <4>2, <4>4
    <3>3. part > 0 \/ part = 0
      BY <1>4
    <3> QED BY <3>1, <3>2, <3>3
  <2>3. k \in 0 .. Len(c) /\ part \in Nat /\ (k = Len(c) => part = 0)
    BY <1>4
  <2>4. k < Len(c) => part <= Len(data[c[k + 1]])
    BY <1>7
  <2> QED BY <2>1, <2>2, <2>3, <2>4 DEF Shrunk, z
<1>21. SubSeq(Waiting[src], 1, off[k] + part) = Contents(a, data) \o copied
  <2>1. Cuts(c, data, k, part, z, data')
    BY <1>3, <1>16, <1>20, ShrunkContents
  <2>2. SubSeq(Waiting[src], 1, off[k] + part)
          = IF k < Len(c) THEN Contents(a, data) \o SubSeq(data[c[k + 1]], 1, part)
            ELSE Contents(a, data)
    BY <1>3, <2>1 DEF Cuts, a
  <2>3. Contents(a, data) \in Seq(Byte)
    BY <1>3, <1>5, ContentsTyped
  <2>4. CASE k < Len(c)
    <3>1. copied = SubSeq(data[c[k + 1]], 1, part)
      <4>1. CASE part = 0
        <5> DEFINE q == data[c[k + 1]]
        <5>1. q \in Seq(Byte)
          BY <1>3, <1>7, <2>4, LengthZero
        <5> HIDE DEF q
        <5>2. 0 \in 0 .. Len(q)
          BY <5>1, LenProperties
        <5>3. SubSeq(q, 1, 0) \in Seq(Byte) /\ Len(SubSeq(q, 1, 0)) = 0
          BY <5>1, <5>2, CutSeq
        <5>4. SubSeq(q, 1, 0) = <<>>
          BY <5>3, EmptySeq
        <5> QED BY <4>1, <5>4 DEF copied, q
      <4>2. CASE part # 0
        BY <4>2 DEF copied
      <4> QED BY <4>1, <4>2
    <3> QED BY <2>2, <2>4, <3>1
  <2>5. CASE ~(k < Len(c))
    <3>1. part = 0
      BY <1>4, <2>5
    <3>2. copied = <<>>
      BY <3>1 DEF copied
    <3>3. Contents(a, data) \o <<>> = Contents(a, data)
      BY <2>3, ConcatEmptySeq
    <3> QED BY <2>2, <2>5, <3>2, <3>3
  <2> QED BY <2>4, <2>5
<1>22. ASSUME NEW d \in LiveBuffers \ {dst, src}
       PROVE  Grown(chain[d], data, start, chain'[d], data', start', <<>>)
  <2>1. \A f \in Placed(chain[d]) : f \in Frag /\ f \notin Placed(c) /\ f \notin Placed(h)
                                    /\ f \notin bin /\ kind[f] # FREE
    BY OfBuffer DEF h
  <2>2. ASSUME NEW f \in Placed(chain[d]) PROVE data'[f] = data[f] /\ start'[f] = start[f]
    <3>1. f \notin Placed(moved) \cup N
      BY <1>5, <1>8, <1>11, <2>1 DEF Unallocated
    <3>2. ~(part > 0 /\ f = c[k + 1])
      <4>1. part > 0 => k < Len(c)
        BY <1>4
      <4> QED BY <1>6, <1>7, <2>1, <4>1
    <3> QED BY <1>18, <2>1, <3>1, <3>2
  <2>3. chain'[d] = chain[d]
    BY <1>14
  <2> QED BY <1>16, <2>2, <2>3, OthersUntouched
<1>23. Moves(dst, src, k, part)
  <2>1. Grown(chain[dst], data, start, chain'[dst], data', start',
              SubSeq(Waiting[src], 1, Offsets(chain[src], data)[k] + part))
    BY <1>14, <1>19, <1>21 DEF h
  <2>2. Shrunk(chain[src], data, start, k, part, chain'[src], data', start')
    BY <1>14, <1>20
  <2> QED BY <1>2, <1>22, <2>1, <2>2 DEF Moves
<1>24. k \in Nat /\ part \in Nat
  BY <1>4
<1>25. off[k] + part = IF n <= Len(Waiting[src]) THEN n ELSE Len(Waiting[src])
  BY <1>3, <1>4
<1> QED BY <1>2, <1>23, <1>24, <1>25

-----------------------------------------------------------------------------
(* Calls that throw a list away, and calls that leave all lists alone.     *)

LEMMA LetGoWaiting ==
  ASSUME Core, Core', NEW b \in LiveBuffers, LetGo(b), \A d \in Buffers : d # b => chain'[d] = chain[d],
         \/ live' = [live EXCEPT ![b] = FALSE]
         \/ live' = live /\ chain'[b] = <<>>
  PROVE  /\ Waiting' = [Waiting EXCEPT ![b] = <<>>]
         /\ \A d \in LiveBuffers' : d # b =>
              d \in LiveBuffers /\ Grown(chain[d], data, start, chain'[d], data', start', <<>>)
         /\ LiveBuffers \ {b} \subseteq LiveBuffers'
<1>1. /\ b \in Buffers /\ live \in [Buffers -> BOOLEAN]
      /\ \A d \in LiveBuffers \ {b} : Placed(chain[d]) \cap Placed(chain[b]) = {}
      /\ \A d \in LiveBuffers : Placed(chain[d]) \subseteq Frag
  BY OfBuffer DEF Core, Shape
<1>2. /\ start' = With(start, Placed(chain[b]), 0)
      /\ data' = With(data, Placed(chain[b]), <<>>)
  BY DEF LetGo
<1>3. /\ \A d \in Buffers : d # b => live'[d] = live[d]
      /\ live'[b] => chain'[b] = <<>>
  BY <1>1
<1>4. data' \in Fields
  BY NextLists
<1>5. ASSUME NEW d \in LiveBuffers \ {b}
      PROVE  /\ Grown(chain[d], data, start, chain'[d], data', start', <<>>)
             /\ Waiting'[d] = Waiting[d]
  <2>1. \A f \in Placed(chain[d]) : data'[f] = data[f] /\ start'[f] = start[f]
    BY <1>1, <1>2 DEF With
  <2>2. d \in Buffers /\ live[d] /\ live'[d] /\ chain'[d] = chain[d]
    BY <1>3 DEF LiveBuffers
  <2>3. Grown(chain[d], data, start, chain'[d], data', start', <<>>)
    BY <1>4, <2>1, <2>2, OthersUntouched
  <2>4. /\ Waiting[d] = Contents(chain[d], data) /\ Waiting[d] \in Seq(Byte)
        /\ Waiting'[d] = Contents(chain'[d], data')
    BY <2>2, OfQueue DEF Waiting, Bytes
  <2>5. Waiting[d] \o <<>> = Waiting[d]
    BY <2>4, ConcatEmptySeq
  <2> QED BY <2>3, <2>4, <2>5 DEF Grown
<1>6. Waiting'[b] = <<>>
  <2>1. Contents(<<>>, data') = <<>>
    BY <1>4, ContentsFew
  <2> QED BY <1>1, <1>3, <2>1 DEF Waiting, Bytes
<1>7. ASSUME NEW d \in Buffers PROVE Waiting'[d] = [Waiting EXCEPT ![b] = <<>>][d]
  <2>1. CASE d = b
    BY <1>6, <2>1 DEF Waiting
  <2>2. CASE d # b /\ d \in LiveBuffers
    BY <1>5, <2>2 DEF Waiting
  <2>3. CASE d # b /\ d \notin LiveBuffers
    BY <1>3, <2>3 DEF Waiting, LiveBuffers
  <2> QED BY <2>1, <2>2, <2>3
<1>8. Waiting' = [Waiting EXCEPT ![b] = <<>>]
  BY <1>7 DEF Waiting
<1> QED BY <1>3, <1>5, <1>8 DEF LiveBuffers

LEMMA PhLetGo ==
  ASSUME Core, Core', NEW b \in LiveBuffers, LetGo(b), \A d \in Buffers : d # b => chain'[d] = chain[d],
         \/ live' = [live EXCEPT ![b] = FALSE]
         \/ live' = live /\ chain'[b] = <<>>,
         ph \in Placeholder \cup {NULL}, PhInv
  PROVE  PhInv'
<1> SUFFICES ASSUME ph' # NULL, ph'.fresh PROVE \E h \in LiveBuffers' : Holds(h, ph)'
  BY DEF PhInv
<1>1. /\ ph \in Placeholder /\ ph' = ph
      /\ ~(ph.frag \in Placed(chain[b]) /\ IndexIn(chain[b], ph.frag) <= Len(chain[b]))
  <2>1. ph' = Disturb(b, Len(chain[b]), size[b])
    BY DEF LetGo
  <2>2. ph # NULL
    BY <2>1 DEF Disturb
  <2>3. ph \in Placeholder
    BY <2>2
  <2> DEFINE i == IndexIn(chain[b], ph.frag) <= Len(chain[b])
             g == ph.frag \in Placed(chain[b]) /\ (i \/ size[b] > Ahead(b))
  <2>4. ph' = IF g THEN [ph EXCEPT !.fresh = FALSE] ELSE ph
    BY <2>1, <2>2 DEF Disturb
  <2>5. ~g
    <3> HIDE DEF g
    <3> QED BY <2>3, <2>4 DEF Placeholder
  <2> QED BY <2>3, <2>4, <2>5
<1>2. PICK h \in LiveBuffers : Holds(h, ph)
  BY <1>1 DEF PhInv
<1>3. /\ Waiting' = [Waiting EXCEPT ![b] = <<>>]
      /\ \A d \in LiveBuffers' : d # b =>
           d \in LiveBuffers /\ Grown(chain[d], data, start, chain'[d], data', start', <<>>)
      /\ LiveBuffers \ {b} \subseteq LiveBuffers'
  BY LetGoWaiting
<1>4. h # b
  <2> SUFFICES ASSUME h = b PROVE FALSE
    OBVIOUS
  <2>1. PICK j \in 1 .. Len(chain[b]) : MarkedAt(chain[b], data, start, ph, j)
    BY <1>2 DEF Holds, Marked
  <2>2. chain[b][j] = ph.frag /\ chain[b] \in Lists /\ Inj(chain[b])
    BY <2>1, OfQueue DEF MarkedAt
  <2>3. IndexIn(chain[b], chain[b][j]) = j /\ ph.frag \in Placed(chain[b])
    BY <2>2, IndexInList DEF Placed
  <2> QED BY <1>1, <2>2, <2>3, LenProperties DEF Lists
<1>5. h \in LiveBuffers' /\ Marked(chain'[h], data', start', ph)
  <2>1. <<>> \in Seq(Byte) /\ Plain(<<>>)
    BY DEF Plain
  <2>2. /\ h \in LiveBuffers' /\ Marked(chain[h], data, start, ph)
        /\ Grown(chain[h], data, start, chain'[h], data', start', <<>>)
    BY <1>2, <1>3, <1>4 DEF Holds
  <2> QED BY <1>1, <2>1, <2>2, GrownMarked
<1>6. ASSUME NEW d \in LiveBuffers' \ {h} PROVE Plain(Waiting'[d])
  <2>1. d \in Buffers
    BY DEF LiveBuffers
  <2>2. CASE d = b
    <3>1. Waiting'[d] = <<>>
      BY <1>3, <2>1, <2>2 DEF Waiting
    <3> QED BY <3>1 DEF Plain
  <2>3. CASE d # b
    <3>1. d \in LiveBuffers /\ Waiting'[d] = Waiting[d]
      BY <1>3, <2>1, <2>3 DEF Waiting
    <3> QED BY <1>2, <3>1 DEF Holds
  <2> QED BY <2>2, <2>3
<1> QED BY <1>1, <1>5, <1>6 DEF Holds

LEMMA InitWaiting ==
  ASSUME Core, NEW b \in Buffers, init(b)
  PROVE  Waiting' = Waiting /\ (PhInv => PhInv')
<1>1. /\ ~live[b] /\ live' = [live EXCEPT ![b] = TRUE] /\ chain' = [chain EXCEPT ![b] = <<>>]
      /\ start' = start /\ data' = data /\ ph' = ph
  BY DEF init, fragVars
<1>2. live \in [Buffers -> BOOLEAN] /\ chain \in [Buffers -> Lists] /\ data \in Fields
  BY DEF Core, Shape
<1>3. Contents(<<>>, data) = <<>>
  BY <1>2, ContentsFew
<1>4. ASSUME NEW d \in Buffers PROVE Waiting'[d] = Waiting[d]
  BY <1>1, <1>2, <1>3 DEF Waiting, Bytes
<1>5. Waiting' = Waiting
  BY <1>4 DEF Waiting
<1>6. LiveBuffers' = LiveBuffers \cup {b} /\ b \notin LiveBuffers /\ LiveBuffers \subseteq Buffers
  BY <1>1, <1>2 DEF LiveBuffers
<1>7. ASSUME ph # NULL, ph.fresh, NEW h \in LiveBuffers, Holds(h, ph) PROVE Holds(h, ph)'
  <2>1. chain'[h] = chain[h]
    BY <1>1, <1>2, <1>6
  <2>2. Marked(chain'[h], data', start', ph')
    BY <1>1, <1>7, <2>1 DEF Holds
  <2>3. ASSUME NEW d \in LiveBuffers' \ {h} PROVE Plain(Waiting'[d])
    <3>1. CASE d = b
      <4>1. Waiting[b] = <<>>
        BY <1>1 DEF Waiting
      <4> QED BY <1>5, <3>1, <4>1 DEF Plain
    <3>2. CASE d # b
      BY <1>5, <1>6, <1>7, <3>2 DEF Holds
    <3> QED BY <3>1, <3>2
  <2> QED BY <2>2, <2>3 DEF Holds
<1> QED BY <1>1, <1>5, <1>6, <1>7 DEF PhInv

LEMMA QuietWaiting ==
  ASSUME UNCHANGED <<live, chain, start, data, ph>>
  PROVE  Waiting' = Waiting /\ (PhInv => PhInv')
<1>1. Waiting' = Waiting /\ LiveBuffers' = LiveBuffers
  BY DEF Waiting, Bytes, LiveBuffers
<1> QED BY <1>1 DEF PhInv, Holds

-----------------------------------------------------------------------------
(* bulp_buffer_append_placeholder.                                         *)

LEMMA NoHolesPlain ==
  ASSUME Core, NoHoles, NEW d \in LiveBuffers
  PROVE  Plain(Waiting[d])
<1>1. /\ chain[d] \in Lists /\ Inj(chain[d]) /\ data \in Fields
      /\ Waiting[d] = Contents(chain[d], data) /\ Placed(chain[d]) \subseteq Frag
  BY OfQueue, OfBuffer
<1> SUFFICES ASSUME NEW n \in 1 .. Len(Contents(chain[d], data))
             PROVE  Contents(chain[d], data)[n] # Hole
  BY <1>1 DEF Plain
<1>2. PICK i \in 1 .. Len(chain[d]) : \E m \in 1 .. Len(data[chain[d][i]]) :
        Contents(chain[d], data)[n] = data[chain[d][i]][m]
  BY <1>1, Located
<1>3. chain[d][i] \in Frag
  BY <1>1 DEF Placed
<1> QED BY <1>2, <1>3 DEF NoHoles

(* The new fragments of a list have their data at index 0.                 *)
LEMMA StoreAppends ==
  ASSUME Core, NEW b \in LiveBuffers, NEW s \in Seq(Byte), Store(b, s)
  PROVE  \E fs \in Lists :
           /\ chain'[b] = chain[b] \o fs
           /\ Placed(fs) \cap Placed(chain[b]) = {}
           /\ \A f \in Placed(fs) : start'[f] = 0
           /\ \A f \in Placed(chain[b]) : start'[f] = start[f]
<1> DEFINE c == chain[b]
           t == last[b]
<1>1. /\ c \in Lists /\ data \in Fields /\ Good(c, t, size[b], data) /\ Room(t) \in Nat
      /\ Placed(c) \subseteq Frag /\ b \in Buffers
      /\ \A f \in Placed(c) : f \notin bin /\ kind[f] # FREE
      /\ start \in [Frag -> Nat]
  BY OfBuffer
<1>2. Len(s) \in Nat /\ Needed(Len(s), Room(t)) \in Nat
  BY <1>1, LenProperties, NeededBounds
<1>3. PICK fs \in Fresh(Needed(Len(s), Room(t))) :
        /\ chain' = [chain EXCEPT ![b] = Link(@, t, fs)]
        /\ new_native_fragment(fs)
  BY DEF Store
<1>4. /\ fs \in Lists /\ Placed(fs) \subseteq bin \cup Unallocated /\ bin \in SUBSET Frag
  <2>1. bin \in SUBSET Frag
    BY DEF Core, Shape
  <2> QED BY <1>2, <2>1, FreshDef
<1>5. Placed(fs) \cap Placed(c) = {} /\ Placed(fs) \subseteq Frag
  BY <1>1, <1>4 DEF Unallocated
<1>6. start' = With(start, Placed(fs), 0)
  BY <1>3 DEF new_native_fragment
<1>7. Link(c, t, fs) = c \o fs
  <2>1. CASE c = <<>>
    <3>1. t = NULL /\ <<>> \o fs = fs
      BY <1>1, <1>4, <2>1, ConcatEmptySeq DEF Good, Lists
    <3> QED BY <2>1, <3>1 DEF Link
  <2>2. CASE c # <<>>
    <3>1. t # NULL /\ c \o <<>> = c
      BY <1>1, <2>2, GoodTail, ConcatEmptySeq DEF Lists
    <3> QED BY <3>1 DEF Link
  <2> QED BY <2>1, <2>2
<1>8. chain'[b] = c \o fs
  BY <1>1, <1>3, <1>7 DEF Core, Shape
<1>9. \A f \in Frag : start'[f] = IF f \in Placed(fs) THEN 0 ELSE start[f]
  BY <1>6 DEF With
<1> QED BY <1>1, <1>4, <1>5, <1>8, <1>9

LEMMA PhBegins ==
  ASSUME Core, Core', NEW b \in LiveBuffers, NEW n \in Nat, append_placeholder(b, n),
         ph' \in Placeholder
  PROVE  PhInv'
<1> DEFINE s == [i \in 1 .. n |-> Hole]
           c == chain[b]
           d == data
           t == last[b]
<1>1. /\ n > 0 /\ NoHoles /\ Store(b, s) /\ live' = live
      /\ ph'.frag = (IF t = NULL THEN Head(chain'[b]) ELSE t)
      /\ ph'.off = (IF t = NULL THEN 0 ELSE End(t))
      /\ ph'.len = n
  BY DEF append_placeholder
<1>2. s \in Seq(Byte) /\ Len(s) = n /\ \A i \in 1 .. n : s[i] = Hole
  BY Texts
<1> HIDE DEF s
<1>3. /\ c \in Lists /\ Inj(c) /\ d \in Fields /\ start \in Starts /\ b \in Buffers
      /\ Waiting[b] = Contents(c, d) /\ Contents(c, d) \in Seq(Byte)
      /\ Len(Contents(c, d)) = Total(c, d) /\ Total(c, d) \in Nat
      /\ Good(c, t, size[b], d)
  BY OfQueue, OfBuffer, TotalType
<1>4. PICK fs \in Lists :
        /\ chain'[b] = c \o fs
        /\ Placed(fs) \cap Placed(c) = {}
        /\ \A f \in Placed(fs) : start'[f] = 0
        /\ \A f \in Placed(c) : start'[f] = start[f]
  BY <1>1, <1>2, StoreAppends
<1>5. Grows(b, s) /\ LiveBuffers' = LiveBuffers
  BY <1>1, <1>2, StoreGrows DEF LiveBuffers
<1>6. Waiting' = [Waiting EXCEPT ![b] = @ \o s]
  BY <1>2, <1>5, GrowsWaiting
<1> DEFINE e == chain'[b]
           x == data'
           su == start'
           z == Contents(e, x)
<1>7. /\ e \in Lists /\ x \in Fields /\ e = c \o fs /\ Inj(e)
      /\ Len(e) = Len(c) + Len(fs) /\ Len(c) \in Nat /\ Len(fs) \in Nat
      /\ \A i \in 1 .. Len(c) : e[i] = c[i]
      /\ \A i \in Len(c) + 1 .. Len(e) : e[i] \in Placed(fs)
  <2>1. e \in Lists /\ x \in Fields /\ Inj(e)
    BY <1>5, NextLists
  <2>2. /\ Len(c) \in Nat /\ Len(fs) \in Nat /\ Len(c \o fs) = Len(c) + Len(fs)
        /\ \A i \in 1 .. Len(c) + Len(fs) : (c \o fs)[i] = IF i <= Len(c) THEN c[i] ELSE fs[i - Len(c)]
    BY <1>3, ConcatProperties, LenProperties DEF Lists
  <2>3. ASSUME NEW i \in Len(c) + 1 .. Len(c) + Len(fs) PROVE (c \o fs)[i] \in Placed(fs)
    <3>1. i - Len(c) \in 1 .. Len(fs) /\ i \in 1 .. Len(c) + Len(fs) /\ ~(i <= Len(c))
      BY <2>2, <2>3
    <3> QED BY <2>2, <3>1 DEF Placed
  <2>4. \A i \in 1 .. Len(c) : i \in 1 .. Len(c) + Len(fs) /\ i <= Len(c)
    BY <2>2
  <2> HIDE DEF c, e
  <2> QED BY <1>4, <2>1, <2>2, <2>3, <2>4 DEF c, e
<1>8. z = Contents(c, d) \o s /\ \A f \in Placed(c) : f # c[Len(c)] => Len(x[f]) = Len(d[f])
  <2>1. Grown(c, d, start, e, x, su, s)
    BY <1>5 DEF Grows
  <2> QED BY <2>1 DEF Grown
<1>9. /\ Len(z) = Total(c, d) + n
      /\ \A i \in 1 .. Len(z) : (z[i] = Hole) <=> (i - Total(c, d) \in 1 .. n)
  <2> DEFINE q == Contents(c, d)
  <2>1. q \in Seq(Byte) /\ Len(q) = Total(c, d) /\ Total(c, d) \in Nat
    BY <1>3
  <2>2. Plain(q)
    BY <1>1, <1>3, NoHolesPlain
  <2> HIDE DEF q
  <2>3. /\ Len(q \o s) = Len(q) + n
        /\ \A i \in 1 .. Len(q) + n : (q \o s)[i] = IF i <= Len(q) THEN q[i] ELSE s[i - Len(q)]
    BY <1>2, <2>1, ConcatProperties
  <2>4. ASSUME NEW i \in 1 .. Len(q) + n PROVE ((q \o s)[i] = Hole) <=> (i - Len(q) \in 1 .. n)
    <3>1. CASE i <= Len(q)
      <4>1. i \in 1 .. Len(q) /\ i - Len(q) \notin 1 .. n
        BY <2>1, <3>1
      <4> QED BY <2>2, <2>3, <3>1, <4>1 DEF Plain
    <3>2. CASE ~(i <= Len(q))
      <4>1. i - Len(q) \in 1 .. n
        BY <2>1, <3>2
      <4> QED BY <1>2, <2>3, <3>2, <4>1
    <3> QED BY <3>1, <3>2
  <2>5. z = q \o s
    BY <1>8 DEF q
  <2> HIDE DEF z
  <2> QED BY <2>1, <2>3, <2>4, <2>5
<1> DEFINE p == ph'
<1>10. p \in Placeholder /\ p.len = n
  BY <1>1
<1> HIDE DEF z
<1>11. CASE t = NULL
  <2>1. c = <<>> /\ Len(c) = 0
    <3>1. c = <<>>
      BY <1>3, <1>11, GoodTail
    <3>2. Len(<<>>) = 0
      OBVIOUS
    <3> QED BY <3>1, <3>2
  <2>2. Total(c, d) = 0
    <3>1. Contents(c, d) = <<>> /\ Len(<<>>) = 0
      BY <1>3, <2>1, ContentsFew
    <3> HIDE DEF c, d
    <3> QED BY <1>3, <3>1
  <2>3. Len(e) >= 1
    <3>1. CASE Len(e) = 0
      <4>1. e = <<>>
        BY <1>7, <3>1, EmptySeq DEF Lists
      <4>2. z = <<>> /\ Len(<<>>) = 0
        BY <1>7, <4>1, ContentsFew DEF z
      <4> HIDE DEF c, d
      <4> QED BY <1>1, <1>9, <2>2, <4>2
    <3> HIDE DEF c, e
    <3> QED BY <1>7, <3>1
  <2>4. e[1] = p.frag /\ p.off = 0
    <3>1. Head(e) = e[1]
      OBVIOUS
    <3> QED BY <1>1, <1>11, <3>1
  <2>5. 1 \in 1 .. Len(e) /\ Len(e) \in Nat
    <3> HIDE DEF c, e
    <3> QED BY <1>7, <2>3
  <2>6. \A j \in 1 .. Len(e) : su[e[j]] = 0
    <3>1. \A j \in 1 .. Len(e) : e[j] \in Placed(fs)
      <4> HIDE DEF e, c
      <4> QED BY <1>7, <2>1
    <3> QED BY <1>4, <3>1
  <2>7. Offsets(e, x)[1 - 1] = 0
    <3>1. Sums(Offsets(e, x), e, x, Len(e))
      BY <1>7, OffsetsDef
    <3>2. 1 - 1 = 0
      OBVIOUS
    <3> QED BY <3>1, <3>2 DEF Sums
  <2>8. su[p.frag] = 0
    BY <2>4, <2>5, <2>6
  <2> DEFINE at == Offsets(e, x)[1 - 1] + p.off - su[p.frag]
  <2>9. at = 0
    BY <2>4, <2>7, <2>8
  <2>10. /\ at + p.len <= Len(z)
        /\ \A i \in 1 .. Len(z) : (z[i] = Hole) <=> (i - at \in 1 .. p.len)
    <3> HIDE DEF at, c, d, p
    <3> QED BY <1>9, <1>10, <2>2, <2>9
  <2>11. \A j \in 1 + 1 .. Len(e) : su[e[j]] = 0
    <3> HIDE DEF e, su
    <3> QED BY <2>5, <2>6
  <2>12. MarkedAt(e, x, su, p, 1)
    <3>1. su[p.frag] <= p.off
      BY <2>4, <2>8
    <3> HIDE DEF e, x, su, p
    <3> QED BY <2>4, <2>10, <2>11, <3>1 DEF MarkedAt, z, at
  <2>13. Marked(e, x, su, p)
    <3> HIDE DEF e, x, su, p
    <3> QED BY <2>5, <2>12 DEF Marked
  <2> QED BY <1>1, <1>2, <1>5, <1>6, <2>13, NoHolesPlain DEF PhInv, Holds, LiveBuffers, Waiting
<1>12. CASE t # NULL
  <2> DEFINE L == Len(c)
  <2>1. L \in 1 .. Len(c) /\ c[L] = t /\ e[L] = t /\ t \in Placed(c) /\ L \in 1 .. Len(e)
        /\ L \in Nat /\ t \in Frag
    <3>1. c # <<>> /\ t = c[L]
      BY <1>3, <1>12, GoodTail DEF Good
    <3>2. L # 0 /\ t \in Frag
      BY <1>3, <1>12, <3>1, EmptySeq, GoodTail DEF Lists
    <3>3. L \in 1 .. Len(c) /\ L \in 1 .. Len(e)
      <4> HIDE DEF c, e
      <4> QED BY <1>7, <3>2
    <3> QED BY <1>7, <3>1, <3>2, <3>3 DEF Placed
  <2>2. p.frag = t /\ p.off = start[t] + Len(d[t]) /\ su[t] = start[t]
    BY <1>1, <1>4, <1>12, <2>1 DEF End
  <2>3. Offsets(e, x)[L - 1] = Offsets(c, d)[L - 1]
    <3>1. c \in Lists /\ Inj(c) /\ d \in Fields /\ fs \in Lists /\ x \in Fields
      BY <1>3, <1>7
    <3>2. \A f \in Placed(c) : f # c[Len(c)] => Len(x[f]) = Len(d[f])
      BY <1>8
    <3>3. e = c \o fs
      BY <1>7
    <3> HIDE DEF c, d, x, e
    <3>4. \A j \in 1 .. Len(c) : Offsets(c \o fs, x)[j - 1] = Offsets(c, d)[j - 1]
      BY <3>1, <3>2, OffsetsGrown
    <3> QED BY <2>1, <3>3, <3>4
  <2>4. Total(c, d) = Offsets(c, d)[L - 1] + Len(d[t])
    <3>1. Sums(Offsets(c, d), c, d, Len(c))
      BY <1>3, OffsetsDef
    <3> QED BY <2>1, <3>1 DEF Sums, Total
  <2>5. Len(d[t]) \in Nat /\ start[t] \in Nat /\ Offsets(c, d)[L - 1] \in Nat
    <3>1. L - 1 \in 0 .. Len(c)
      BY <2>1
    <3> QED BY <1>3, <2>1, <3>1, TotalType, LengthZero DEF Starts
  <2> DEFINE at == Offsets(e, x)[L - 1] + p.off - su[p.frag]
  <2>6. at = Total(c, d) /\ su[p.frag] <= p.off
    <3> HIDE DEF c, d, e, x, su, p, L
    <3> QED BY <2>2, <2>3, <2>4, <2>5
  <2>7. /\ at + p.len <= Len(z)
        /\ \A i \in 1 .. Len(z) : (z[i] = Hole) <=> (i - at \in 1 .. p.len)
    <3> HIDE DEF at, c, d, p
    <3> QED BY <1>3, <1>9, <1>10, <2>6
  <2>8. \A j \in L + 1 .. Len(e) : su[e[j]] = 0
    BY <1>4, <1>7
  <2>9. MarkedAt(e, x, su, p, L)
    <3> HIDE DEF e, x, su, p, L
    <3> QED BY <2>1, <2>2, <2>6, <2>7, <2>8 DEF MarkedAt, z, at
  <2>10. Marked(e, x, su, p)
    <3> HIDE DEF e, x, su, p, L
    <3> QED BY <2>1, <2>9 DEF Marked
  <2> QED BY <1>1, <1>2, <1>5, <1>6, <2>10, NoHolesPlain DEF PhInv, Holds, LiveBuffers, Waiting
<1> QED BY <1>11, <1>12
-----------------------------------------------------------------------------
(* bulp_buffer_placeholder_set.                                            *)

(* The bytes s take the place of those from at on in the queue of b.       *)
Supplied(b, at, s) ==
  /\ at \in 0 .. Len(Waiting[b]) - Len(s)
  /\ \A j \in 1 .. Len(s) : Waiting[b][at + j] = Hole
  /\ Waiting' = [Waiting EXCEPT ![b] =
       [n \in 1 .. Len(@) |-> IF n - at \in 1 .. Len(s) THEN s[n - at] ELSE @[n]]]

LEMMA SetSupplies ==
  ASSUME IInv, PhInv, NEW s \in Seq(Byte), placeholder_set(s)
  PROVE  \E b \in LiveBuffers : \E at \in Nat : Supplied(b, at, s)
<1>1. /\ ph # NULL /\ ph.fresh /\ Len(s) = ph.len /\ Core
      /\ UNCHANGED <<listVars, kind, start>> /\ live' = live /\ chain' = chain
  BY DEF placeholder_set, listVars, IInv
<1>2. PICK b \in Buffers :
        /\ live[b] /\ ph.frag \in Placed(chain[b])
        /\ data' = [f \in Frag |->
           IF f \in Placed(chain[b])
           THEN [j \in 1 .. Len(data[f]) |->
                   IF Offsets(chain[b], data)[IndexIn(chain[b], f) - 1] + j - Ahead(b)
                        \in 1 .. ph.len
                   THEN s[Offsets(chain[b], data)[IndexIn(chain[b], f) - 1] + j - Ahead(b)]
                   ELSE data[f][j]]
           ELSE data[f]]
  BY DEF placeholder_set
<1>3. b \in LiveBuffers
  BY <1>2 DEF LiveBuffers
<1>4. PICK h \in LiveBuffers : \E i \in 1 .. Len(chain[h]) : MarkedAt(chain[h], data, start, ph, i)
  BY <1>1 DEF PhInv, Holds, Marked
<1>5. PICK i \in 1 .. Len(chain[h]) : MarkedAt(chain[h], data, start, ph, i)
  BY <1>4
<1>6. h = b
  <2>1. ph.frag \in Placed(chain[h])
    BY <1>5 DEF MarkedAt, Placed
  <2>2. \A d \in LiveBuffers \ {b} : Placed(chain[d]) \cap Placed(chain[b]) = {}
    BY <1>1, <1>3, OfBuffer
  <2> QED BY <1>2, <2>1, <2>2
<1> DEFINE c == chain[b]
           d == data
           x == data'
           at == Offsets(c, d)[i - 1] + ph.off - start[ph.frag]
<1>7. /\ c \in Lists /\ Inj(c) /\ d \in Fields /\ start \in Starts
      /\ Waiting[b] = Contents(c, d) /\ Waiting[b] \in Seq(Byte)
      /\ Len(Waiting[b]) = Total(c, d) /\ Placed(c) \subseteq Frag
  BY <1>1, <1>3, OfQueue, OfBuffer
<1>8. /\ i \in 1 .. Len(c) /\ c[i] = ph.frag
      /\ start[ph.frag] <= ph.off /\ at + ph.len <= Len(Waiting[b])
      /\ \A n \in 1 .. Len(Waiting[b]) : (Waiting[b][n] = Hole) <=> (n - at \in 1 .. ph.len)
  BY <1>5, <1>6, <1>7 DEF MarkedAt
<1>9. Ahead(b) = at /\ IndexIn(c, ph.frag) = i
  <2>1. IndexIn(c, c[i]) = i
    BY <1>7, <1>8, IndexInList
  <2> QED BY <1>8, <2>1 DEF Ahead
<1>10. at \in Nat
  <2>1. ph.off \in Nat /\ ph.frag \in Frag
    BY <1>1 DEF IInv, Ends, Placeholder
  <2>2. start[ph.frag] \in Nat
    BY <1>7, <2>1 DEF Starts
  <2>3. i - 1 \in 0 .. Len(c)
    BY <1>8
  <2>4. Offsets(c, d)[i - 1] \in Nat
    BY <1>7, <2>3, TotalType
  <2> DEFINE A == Offsets(c, d)[i - 1]
             B == start[ph.frag]
             C == ph.off
  <2>5. A \in Nat /\ B \in Nat /\ C \in Nat /\ B <= C /\ at = A + C - B
    BY <1>8, <2>1, <2>2, <2>4
  <2> HIDE DEF A, B, C, at
  <2> QED BY ONLY <2>5
<1>11. x \in Fields
  BY <1>1, PlaceholderSetKeeps DEF IInv, Core, Shape
<1>12. ASSUME NEW k \in 1 .. Len(c)
       PROVE  /\ Len(x[c[k]]) = Len(d[c[k]])
              /\ \A m \in 1 .. Len(d[c[k]]) :
                   x[c[k]][m] = IF Offsets(c, d)[k - 1] + m - at \in 1 .. ph.len
                                THEN s[Offsets(c, d)[k - 1] + m - at] ELSE d[c[k]][m]
  <2>1. c[k] \in Placed(c) /\ c[k] \in Frag /\ IndexIn(c, c[k]) = k
    BY <1>7, IndexInList DEF Placed
  <2>2. Len(d[c[k]]) \in Nat
    BY <1>7, <2>1, LengthZero
  <2>3. x[c[k]] = [j \in 1 .. Len(d[c[k]]) |->
                     IF Offsets(c, d)[k - 1] + j - at \in 1 .. ph.len
                     THEN s[Offsets(c, d)[k - 1] + j - at] ELSE d[c[k]][j]]
    BY <1>2, <1>9, <2>1
  <2> HIDE DEF at, c, d, x
  <2> QED BY <2>2, <2>3
<1>13. /\ \A k \in 0 .. Len(c) : Offsets(c, d)[k] = Offsets(c, x)[k]
       /\ Total(c, d) = Total(c, x)
  <2>1. \A f \in Placed(c) : Len(d[f]) = Len(x[f])
    BY <1>12 DEF Placed
  <2> HIDE DEF c, d, x
  <2> QED BY <1>7, <1>11, <2>1, OffsetsSame
<1> DEFINE q == Contents(c, d)
           z == Contents(c, x)
           y == [n \in 1 .. Len(q) |-> IF n - at \in 1 .. Len(s) THEN s[n - at] ELSE q[n]]
<1>14. /\ q \in Seq(Byte) /\ z \in Seq(Byte) /\ Len(q) = Total(c, d)
       /\ Len(z) = Len(q) /\ Len(q) \in Nat
  BY <1>7, <1>11, <1>13, ContentsTyped
<1>15. ASSUME NEW n \in 1 .. Len(z)
       PROVE  z[n] = IF n - at \in 1 .. Len(s) THEN s[n - at] ELSE q[n]
  <2>1. PICK k \in 1 .. Len(c) : \E m \in 1 .. Len(x[c[k]]) :
          n = Offsets(c, x)[k - 1] + m /\ z[n] = x[c[k]][m]
    BY <1>7, <1>11, Located
  <2>2. PICK m \in 1 .. Len(x[c[k]]) : n = Offsets(c, x)[k - 1] + m /\ z[n] = x[c[k]][m]
    BY <2>1
  <2>3. k - 1 \in 0 .. Len(c)
    OBVIOUS
  <2>4. n = Offsets(c, d)[k - 1] + m /\ m \in 1 .. Len(d[c[k]])
    BY <1>12, <1>13, <2>2, <2>3
  <2>5. q[n] = d[c[k]][m] /\ Offsets(c, d)[k - 1] \in Nat
    BY <1>7, <2>4, Spell
  <2>6. z[n] = IF Offsets(c, d)[k - 1] + m - at \in 1 .. ph.len
               THEN s[Offsets(c, d)[k - 1] + m - at] ELSE d[c[k]][m]
    BY <1>12, <2>2, <2>4
  <2> DEFINE r == n - at
  <2>7. Offsets(c, d)[k - 1] + m - at = r
    <3> DEFINE o == Offsets(c, d)[k - 1]
    <3>1. o \in Nat /\ m \in Nat /\ at \in Nat /\ n = o + m
      BY <1>10, <2>4, <2>5
    <3> HIDE DEF o, at
    <3>2. o + m - at = n - at
      BY <3>1
    <3> QED BY <3>2 DEF o
  <2>8. z[n] = IF r \in 1 .. Len(s) THEN s[r] ELSE q[n]
    BY <1>1, <2>5, <2>6, <2>7
  <2> QED BY <2>8
<1>16. z = y
  <2>1. \A n \in 1 .. Len(q) : y[n] = z[n]
    BY <1>14, <1>15
  <2>2. y = [n \in 1 .. Len(q) |-> z[n]]
    BY <2>1
  <2> HIDE DEF z, y, q
  <2>3. z = [n \in 1 .. Len(z) |-> z[n]]
    BY <1>14
  <2> QED BY <1>14, <2>2, <2>3
<1>17. ASSUME NEW g \in Buffers PROVE Waiting'[g] = IF g = b THEN y ELSE Waiting[g]
  <2>1. CASE g = b
    <3>1. Waiting'[b] = Contents(chain'[b], data')
      BY <1>1, <1>2 DEF Waiting, Bytes
    <3> QED BY <1>1, <1>16, <2>1, <3>1
  <2>2. CASE g # b /\ ~live[g]
    BY <1>1, <2>2 DEF Waiting
  <2>3. CASE g # b /\ live[g]
    <3>1. g \in LiveBuffers
      BY <2>3 DEF LiveBuffers
    <3>2. /\ chain[g] \in Lists /\ Placed(chain[g]) \subseteq Frag
          /\ Placed(chain[g]) \cap Placed(chain[b]) = {}
          /\ Waiting[g] = Contents(chain[g], data)
      BY <1>1, <1>3, <2>3, <3>1, OfBuffer, OfQueue
    <3>3. \A f \in Placed(chain[g]) : data'[f] = data[f]
      BY <1>2, <3>2
    <3>4. Contents(chain[g], data') = Contents(chain[g], data)
      BY <1>7, <1>11, <3>2, <3>3, ContentsSame
    <3>5. Waiting'[g] = Contents(chain'[g], data')
      BY <1>1, <2>3 DEF Waiting, Bytes
    <3> QED BY <1>1, <2>3, <3>2, <3>4, <3>5
  <2> QED BY <2>1, <2>2, <2>3
<1>18. Waiting' = [Waiting EXCEPT ![b] =
         [n \in 1 .. Len(@) |-> IF n - at \in 1 .. Len(s) THEN s[n - at] ELSE @[n]]]
  <2>1. y = [n \in 1 .. Len(Waiting[b]) |->
               IF n - at \in 1 .. Len(s) THEN s[n - at] ELSE Waiting[b][n]]
    BY <1>7
  <2> HIDE DEF y, at
  <2>2. Waiting' = [g \in Buffers |-> Waiting'[g]] /\ Waiting = [g \in Buffers |-> Waiting[g]]
    BY DEF Waiting
  <2> DEFINE w == Waiting
             v == Waiting'
  <2>3. w = [g \in Buffers |-> w[g]] /\ v = [g \in Buffers |-> v[g]]
    BY <2>2
  <2>4. \A g \in Buffers : v[g] = IF g = b THEN y ELSE w[g]
    BY <1>17
  <2>5. y = [n \in 1 .. Len(w[b]) |-> IF n - at \in 1 .. Len(s) THEN s[n - at] ELSE w[b][n]]
    BY <2>1
  <2> HIDE DEF w, v
  <2>6. v = [w EXCEPT ![b] =
          [n \in 1 .. Len(@) |-> IF n - at \in 1 .. Len(s) THEN s[n - at] ELSE @[n]]]
    BY <2>3, <2>4, <2>5
  <2> QED BY <2>6 DEF v, w
<1>19. /\ at \in 0 .. Len(Waiting[b]) - Len(s)
       /\ \A j \in 1 .. Len(s) : Waiting[b][at + j] = Hole
  <2>1. Len(Waiting[b]) \in Nat /\ ph.len \in Nat /\ Len(s) = ph.len
    BY <1>1, <1>7, LenProperties
  <2> HIDE DEF at
  <2> DEFINE A == Len(Waiting[b])
             B == Len(s)
             C == ph.len
  <2>2. A \in Nat /\ C \in Nat /\ B = C /\ at \in Nat /\ at + C <= A
    BY <1>8, <1>10, <2>1
  <2> HIDE DEF A, B, C
  <2>3. at \in 0 .. A - B /\ \A j \in 1 .. B : at + j \in 1 .. A /\ (at + j) - at \in 1 .. C
    BY ONLY <2>2
  <2> QED BY <1>8, <2>3 DEF A, B, C
<1> HIDE DEF at
<1>20. Supplied(b, at, s)
  BY <1>18, <1>19 DEF Supplied
<1> QED BY <1>3, <1>10, <1>20
-----------------------------------------------------------------------------
(* Every call is one of module ByteQueues, and keeps the placeholder.      *)

(* What is proved of each call.                                            *)
Follows == Queues!Next \/ UNCHANGED <<Waiting, io>>

LEMMA PlainTexts ==
  ASSUME NEW s \in Data
  PROVE  /\ s \in Seq(Byte) /\ Plain(s)
         /\ Append(s, NUL) \in Seq(Byte) /\ Plain(Append(s, NUL))
         /\ \A rem \in Nat : Printed(s, rem) \in Seq(Byte) /\ Plain(Printed(s, rem))
<1>1. s \in Seq(Byte \ {Hole}) /\ NUL # Hole
  BY ValueAssumption
<1>2. s \in Seq(Byte) /\ Append(s, NUL) \in Seq(Byte) /\ Len(s) \in Nat
  BY Texts, LenProperties
<1>3. Plain(s)
  BY <1>1, ElementOfSeq DEF Plain
<1>4. Plain(Append(s, NUL))
  <2>1. /\ Len(Append(s, NUL)) = Len(s) + 1
        /\ \A i \in 1 .. Len(s) : Append(s, NUL)[i] = s[i]
        /\ Append(s, NUL)[Len(s) + 1] = NUL
    BY <1>2
  <2> SUFFICES ASSUME NEW i \in 1 .. Len(Append(s, NUL)) PROVE Append(s, NUL)[i] # Hole
    BY DEF Plain
  <2>2. i \in 1 .. Len(s) \/ i = Len(s) + 1
    BY <1>2, <2>1
  <2> QED BY <1>1, <1>3, <2>1, <2>2 DEF Plain
<1>5. ASSUME NEW rem \in Nat PROVE Printed(s, rem) \in Seq(Byte) /\ Plain(Printed(s, rem))
  <2>1. Printed(s, rem) \in Seq(Byte)
    BY <1>2, PrintedTyped
  <2>2. Len(Printed(s, rem)) = Len(s) /\ \A i \in 1 .. Len(s) : Printed(s, rem)[i] \in {s[i], NUL}
    <3>1. s \in [1 .. Len(s) -> Byte]
      BY <1>2
    <3>2. DOMAIN Printed(s, rem) = 1 .. Len(s)
      BY <3>1 DEF Printed
    <3>3. \A i \in 1 .. Len(s) : Printed(s, rem)[i] \in {s[i], NUL}
      BY <3>1 DEF Printed
    <3> QED BY <1>2, <2>1, <3>2, <3>3, LenProperties
  <2> QED BY <1>1, <1>3, <2>1, <2>2 DEF Plain
<1> QED BY <1>2, <1>3, <1>4, <1>5

LEMMA PutStep ==
  ASSUME IInv, IInv', PhInv, NEW b \in LiveBuffers, NEW s \in Seq(Byte), Plain(s), Grows(b, s),
         io' = Call("put", b, NULL, 0, s), ph' = ph
  PROVE  Follows /\ PhInv'
<1>1. Core /\ Core' /\ ph \in Placeholder \cup {NULL}
  BY DEF IInv, Ends
<1>2. PhInv'
  BY <1>1, PhGrows
<1>3. Waiting' = [Waiting EXCEPT ![b] = @ \o s]
  BY <1>1, GrowsWaiting
<1>4. io'.op = "put" /\ io'.buf = b /\ io'.bytes = s
  BY DEF Call
<1>5. Waiting' = [Waiting EXCEPT ![io'.buf] = @ \o io'.bytes]
  BY <1>3, <1>4
<1>6. Queues!Put
  BY <1>4, <1>5, PutByQueues
<1> QED BY <1>2, <1>6 DEF Follows, Queues!Next

LEMMA FormatStep ==
  ASSUME IInv, IInv', PhInv, NEW b \in LiveBuffers, NEW s \in Data, NEW t \in Seq(Byte),
         Plain(t), t = s \/ (\E rem \in Nat \ {0} : t = Printed(s, rem)), Grows(b, t),
         io' = Call("format", b, NULL, 0, s), ph' = ph
  PROVE  Follows /\ PhInv'
<1>1. Core /\ Core' /\ ph \in Placeholder \cup {NULL}
  BY DEF IInv, Ends
<1>2. PhInv'
  BY <1>1, PhGrows
<1>3. Waiting' = [Waiting EXCEPT ![b] = @ \o t]
  BY <1>1, GrowsWaiting
<1>4. io'.op = "format" /\ io'.buf = b /\ io'.bytes = s
  BY DEF Call
<1>5. t \in {s, [i \in 1 .. Len(s) |-> IF i = Len(s) THEN NUL ELSE s[i]]}
  <2>1. CASE t = s
    BY <2>1
  <2>2. CASE t # s
    <3>1. PICK rem \in Nat \ {0} : t = Printed(s, rem)
      BY <2>2
    <3>2. Len(s) = rem /\ t = [s EXCEPT ![rem] = NUL]
      BY <2>2, <3>1 DEF Printed
    <3>3. s \in [1 .. Len(s) -> Byte]
      BY Texts
    <3>4. [s EXCEPT ![rem] = NUL] = [i \in 1 .. Len(s) |-> IF i = Len(s) THEN NUL ELSE s[i]]
      BY <3>2, <3>3
    <3> QED BY <3>2, <3>4
  <2> QED BY <2>1, <2>2
<1>6. Queues!Format
  <2> DEFINE r == io'.bytes
  <2>1. t \in {r, [i \in 1 .. Len(r) |-> IF i = Len(r) THEN NUL ELSE r[i]]}
    BY <1>4, <1>5
  <2>2. Waiting' = [Waiting EXCEPT ![io'.buf] = @ \o t]
    BY <1>3, <1>4
  <2>3. \E v \in {r, [i \in 1 .. Len(r) |-> IF i = Len(r) THEN NUL ELSE r[i]]} :
          Waiting' = [Waiting EXCEPT ![io'.buf] = @ \o v]
    BY ONLY <2>1, <2>2
  <2> QED BY <1>4, <2>3 DEF Queues!Format, Waiting
<1> QED BY <1>2, <1>6 DEF Follows, Queues!Next

LEMMA TakeStep ==
  ASSUME IInv, IInv', PhInv, NEW b \in LiveBuffers, NEW n \in Nat, Unlink(b, n), Deliver(b, n)
  PROVE  Follows /\ PhInv'
<1>1. Core /\ Core' /\ ph \in Placeholder \cup {NULL} /\ data' \in Fields
  BY DEF IInv, Ends, Core, Shape
<1>2. PICK k \in Nat, part \in Nat :
           /\ k = Whole(chain[b], n) /\ Takes(b, k, part)
           /\ Taken(chain[b], n) = Offsets(chain[b], data)[k] + part
           /\ Taken(chain[b], n) = IF n <= Len(Waiting[b]) THEN n ELSE Len(Waiting[b])
  BY <1>1, UnlinkTakes
<1>3. b \in Buffers /\ Waiting[b] = Bytes(b) /\ Len(Waiting[b]) \in Nat
  BY <1>1, OfQueue, LenProperties
<1>4. ph' = Disturb(b, k, n)
  BY <1>2 DEF Unlink
<1>5. Offsets(chain[b], data)[k] + part <= n
  BY <1>2, <1>3
<1>6. PhInv'
  BY <1>1, <1>2, <1>4, <1>5, PhTakes
<1> DEFINE m == Offsets(chain[b], data)[k] + part
<1>7. m \in 0 .. Len(Waiting[b]) /\ Waiting' = [Waiting EXCEPT ![b] = SubSeq(@, m + 1, Len(@))]
  BY <1>1, <1>2, TakesWaiting
<1>8. /\ m = IF n <= Len(Waiting[b]) THEN n ELSE Len(Waiting[b])
      /\ io' = Call("take", b, NULL, n, SubSeq(Waiting[b], 1, m))
  BY <1>2, <1>3 DEF Deliver
<1> HIDE DEF m
<1>9. m \in Nat
  BY <1>3, <1>7
<1>10. Queues!Take
  BY <1>3, <1>7, <1>8, <1>9, TakeByQueues
<1> QED BY <1>6, <1>10 DEF Follows, Queues!Next

LEMMA MoveByQueues ==
  ASSUME NEW dst \in Buffers, NEW src \in Buffers, dst # src, NEW n \in Nat, NEW m \in Nat,
         m = IF n <= Len(Waiting[src]) THEN n ELSE Len(Waiting[src]),
         io' = Call("move", src, dst, n, <<>>), Moved(dst, src, m)
  PROVE  Queues!Next
<1>1. io'.op = "move" /\ io'.buf = src /\ io'.to = dst /\ io'.want = n
  BY DEF Call
<1>2. /\ Waiting' = [Waiting EXCEPT ![src] = SubSeq(@, m + 1, Len(@)),
                                    ![dst] = @ \o SubSeq(Waiting[src], 1, m)]
      /\ m = IF n <= Len(Waiting[src]) THEN n ELSE Len(Waiting[src])
  BY DEF Moved
<1>3. LET q == Waiting[io'.buf]
          k == IF io'.want <= Len(q) THEN io'.want ELSE Len(q)
      IN Waiting' = [Waiting EXCEPT ![io'.buf] = SubSeq(@, k + 1, Len(@)),
                                    ![io'.to]  = @ \o SubSeq(q, 1, k)]
  BY ONLY <1>1, <1>2
<1>4. Queues!Move
  BY ONLY <1>1, <1>3 DEF Queues!Move, Waiting
<1> QED BY <1>4 DEF Queues!Next

LEMMA DrainStep ==
  ASSUME IInv, IInv', PhInv, NEW dst \in Buffers, NEW src \in Buffers, drain(dst, src)
  PROVE  Follows /\ PhInv'
<1>1. /\ Core /\ Core' /\ ph \in Placeholder \cup {NULL} /\ data' \in Fields
      /\ dst \in LiveBuffers /\ src \in LiveBuffers /\ dst # src
      /\ io' = Call("move", src, dst, size[src], <<>>)
  BY ReadyIsLive DEF IInv, Ends, Core, Shape, drain
<1>2. PhInv'
  BY <1>1, PhDrains
<1>3. /\ Len(Waiting[src]) = size[src] /\ Len(Waiting[src]) = Total(chain[src], data)
      /\ Waiting[src] \in Seq(Byte) /\ Len(Waiting[src]) \in Nat
  BY <1>1, OfQueue, LenProperties
<1>4. Moves(dst, src, Len(chain[src]), 0)
  BY <1>1, DrainMoves
<1> DEFINE m == Offsets(chain[src], data)[Len(chain[src])] + 0
<1>5. Moved(dst, src, m)
  BY <1>1, <1>4, MovesWaiting
<1>6. m = Len(Waiting[src])
  BY <1>3 DEF Total
<1> HIDE DEF m
<1>7. m \in Nat /\ size[src] \in Nat /\ m = IF size[src] <= Len(Waiting[src]) THEN size[src] ELSE Len(Waiting[src])
  BY <1>3, <1>6
<1>8. Queues!Next
  BY <1>1, <1>5, <1>7, MoveByQueues
<1> QED BY <1>2, <1>8 DEF Follows

LEMMA TransferStep ==
  ASSUME IInv, IInv', PhInv, NEW dst \in Buffers, NEW src \in Buffers, NEW n \in Nat,
         transfer(dst, src, n)
  PROVE  Follows /\ PhInv'
<1>1. /\ Core /\ Core' /\ ph \in Placeholder \cup {NULL} /\ data' \in Fields
      /\ dst \in LiveBuffers /\ src \in LiveBuffers /\ dst # src
      /\ io' = Call("move", src, dst, n, <<>>)
  BY ReadyIsLive DEF IInv, Ends, Core, Shape, transfer
<1>2. PICK k \in Nat, part \in Nat :
           /\ Moves(dst, src, k, part)
           /\ Offsets(chain[src], data)[k] + part
                = IF n <= Len(Waiting[src]) THEN n ELSE Len(Waiting[src])
           /\ ph' = Disturb(src, k, Offsets(chain[src], data)[k] + part)
  BY <1>1, TransferMoves
<1>3. PhInv'
  BY <1>1, <1>2, PhMoves
<1> DEFINE m == Offsets(chain[src], data)[k] + part
<1>4. Moved(dst, src, m)
  BY <1>1, <1>2, MovesWaiting
<1>5. m = IF n <= Len(Waiting[src]) THEN n ELSE Len(Waiting[src])
  BY <1>2
<1> HIDE DEF m
<1>6. m \in Nat
  BY <1>4 DEF Moved
<1>7. Queues!Next
  BY <1>1, <1>4, <1>5, <1>6, MoveByQueues
<1> QED BY <1>3, <1>7 DEF Follows

LEMMA QuietStep ==
  ASSUME PhInv, UNCHANGED <<live, chain, start, data, ph>>, io' = NoCall \/ io' = io
  PROVE  Follows /\ PhInv'
<1>1. Waiting' = Waiting /\ PhInv'
  BY QuietWaiting
<1>2. CASE io' = io
  BY <1>1, <1>2 DEF Follows
<1>3. CASE io' = NoCall
  <2>1. io'.op = "idle"
    BY <1>3 DEF NoCall, Call
  <2>2. Queues!Silent
    BY <1>1, <2>1, SilentByQueues
  <2> QED BY <1>1, <2>2 DEF Follows, Queues!Next
<1> QED BY <1>2, <1>3

LEMMA AppendStep ==
  ASSUME IInv, IInv', PhInv, NEW b \in Buffers, NEW s \in Seq(Byte), Plain(s), append(b, s)
  PROVE  Follows /\ PhInv'
<1>1. /\ b \in LiveBuffers /\ Store(b, s) /\ live' = live /\ ph' = ph
      /\ io' = Call("put", b, NULL, 0, s)
  BY ReadyIsLive DEF append
<1>2. Grows(b, s)
  BY <1>1, StoreGrows DEF IInv
<1> QED BY <1>1, <1>2, PutStep

LEMMA AppendSmallStep ==
  ASSUME IInv, IInv', PhInv, NEW b \in Buffers, NEW s \in Seq(Byte), Plain(s),
         append_small(b, s)
  PROVE  Follows /\ PhInv'
<1>1. CASE append(b, s)
  BY <1>1, AppendStep
<1>2. CASE ~append(b, s)
  <2>1. /\ last[b] # NULL /\ Ready(b) /\ data' = [data EXCEPT ![last[b]] = @ \o s]
        /\ UNCHANGED <<live, chain, start>> /\ ph' = ph
        /\ io' = Call("put", b, NULL, 0, s)
    BY <1>2 DEF append_small
  <2>2. b \in LiveBuffers
    BY <2>1, ReadyIsLive
  <2>3. Grows(b, s)
    BY <2>1, <2>2, InPlaceGrows DEF IInv
  <2> QED BY <2>1, <2>2, <2>3, PutStep
<1> QED BY <1>1, <1>2

LEMMA AppendForeignStep ==
  ASSUME IInv, IInv', PhInv, NEW b \in Buffers, NEW o \in Foreign, NEW s \in Seq(Byte), Plain(s),
         append_foreign(b, o, s)
  PROVE  Follows /\ PhInv'
<1>1. /\ b \in LiveBuffers /\ o \in Foreign \ lent /\ live' = live /\ ph' = ph
      /\ io' = Call("put", b, NULL, 0, s) /\ Core
  BY ReadyIsLive DEF append_foreign, IInv
<1>2. Grows(b, s)
  <2>1. CASE s = <<>>
    <3>1. UNCHANGED <<live, chain, start, data>>
      BY <1>1, <2>1 DEF append_foreign, fragVars
    <3>2. data' \in Fields
      BY <3>1 DEF IInv, Core, Shape
    <3> QED BY <1>1, <2>1, <3>1, <3>2, NothingGrows
  <2>2. CASE s # <<>>
    <3>1. StoreForeign(b, o, s, {})
      BY <2>2 DEF append_foreign
    <3>2. {} \in {{}} \cup Trials(b)
      OBVIOUS
    <3> QED BY <1>1, <3>1, <3>2, StoreForeignGrows
  <2> QED BY <2>1, <2>2
<1> QED BY <1>1, <1>2, PutStep

LEMMA VprintfStep ==
  ASSUME IInv, IInv', PhInv, NEW b \in Buffers, NEW s \in Data, vprintf(b, s)
  PROVE  Follows /\ PhInv'
<1> DEFINE room == Room(last[b])
           rem == IF room = 0 THEN Cap ELSE room
<1>1. /\ b \in LiveBuffers /\ live' = live /\ ph' = ph /\ Core
      /\ io' = Call("format", b, NULL, 0, s)
  BY ReadyIsLive DEF vprintf, IInv
<1>2. rem \in Nat \ {0}
  <2>1. room \in Nat
    BY <1>1, OfBuffer
  <2> QED BY <2>1, CapNat
<1>3. s \in Seq(Byte) /\ Plain(s) /\ Printed(s, rem) \in Seq(Byte) /\ Plain(Printed(s, rem))
  BY <1>2, PlainTexts
<1> HIDE DEF rem
<1>4. \/ /\ s = <<>>
         /\ \E trial \in Trials(b) : /\ start' = With(start, trial, 0)
                                     /\ data' = With(data, trial, <<>>)
         /\ UNCHANGED chain
      \/ Store(b, Printed(s, rem))
      \/ \E trial \in Trials(b), o \in Foreign \ lent : StoreForeign(b, o, s, trial)
  BY Zenon DEF vprintf, rem
<1>5. CASE /\ s = <<>>
           /\ \E trial \in Trials(b) : /\ start' = With(start, trial, 0)
                                       /\ data' = With(data, trial, <<>>)
           /\ UNCHANGED chain
  <2>1. Grows(b, <<>>)
    BY <1>1, <1>5, TrialGrows
  <2> QED BY <1>1, <1>3, <1>5, <2>1, FormatStep
<1>6. CASE Store(b, Printed(s, rem))
  <2> DEFINE t == Printed(s, rem)
  <2>1. t \in Seq(Byte) /\ Plain(t) /\ \E r \in Nat \ {0} : t = Printed(s, r)
    BY <1>2, <1>3
  <2>2. Store(b, t)
    BY <1>6
  <2> HIDE DEF t
  <2>3. Grows(b, t)
    BY <1>1, <2>1, <2>2, StoreGrows
  <2> QED BY <1>1, <2>1, <2>3, FormatStep
<1>7. CASE \E trial \in Trials(b), o \in Foreign \ lent : StoreForeign(b, o, s, trial)
  <2>1. PICK trial \in Trials(b), o \in Foreign \ lent : StoreForeign(b, o, s, trial)
    BY <1>7
  <2>2. trial \in {{}} \cup Trials(b)
    BY <2>1
  <2>3. Grows(b, s)
    BY <1>1, <1>3, <2>1, <2>2, StoreForeignGrows
  <2> QED BY <1>1, <1>3, <2>3, FormatStep
<1> QED BY <1>4, <1>5, <1>6, <1>7

LEMMA PlaceholderStep ==
  ASSUME IInv, IInv', PhInv, NEW b \in Buffers, NEW n \in Nat, append_placeholder(b, n)
  PROVE  Follows /\ PhInv'
<1> DEFINE s == [i \in 1 .. n |-> Hole]
<1>1. /\ b \in LiveBuffers /\ Store(b, s) /\ live' = live /\ Core /\ Core'
      /\ io' = Call("put", b, NULL, 0, s) /\ ph'.fresh /\ n > 0
      /\ ph' = [frag  |-> IF last[b] = NULL THEN Head(chain'[b]) ELSE last[b],
                off   |-> IF last[b] = NULL THEN 0 ELSE End(last[b]),
                len   |-> n,
                fresh |-> TRUE]
  BY ReadyIsLive DEF append_placeholder, IInv
<1>2. s \in Seq(Byte)
  BY Texts
<1> HIDE DEF s
<1>3. ph' \in Placeholder
  BY BeginsTyped
<1>4. PhInv'
  BY <1>1, <1>3, PhBegins
<1>5. Waiting' = [Waiting EXCEPT ![b] = @ \o s]
  BY <1>1, <1>2, StoreGrows, GrowsWaiting
<1>6. io'.op = "put" /\ io'.buf = b /\ io'.bytes = s
  BY <1>1 DEF Call
<1>7. Waiting' = [Waiting EXCEPT ![io'.buf] = @ \o io'.bytes]
  BY <1>5, <1>6
<1>8. Queues!Put
  BY <1>6, <1>7, PutByQueues
<1> QED BY <1>4, <1>8 DEF Follows, Queues!Next

LEMMA SupplyStep ==
  ASSUME IInv, PhInv, NEW s \in Seq(Byte), placeholder_set(s)
  PROVE  Follows /\ PhInv'
<1>1. ph' = NULL /\ io' = Call("supply", NULL, NULL, 0, s)
  BY DEF placeholder_set
<1>2. PhInv'
  BY <1>1 DEF PhInv
<1>3. PICK b \in LiveBuffers, at \in Nat : Supplied(b, at, s)
  BY SetSupplies
<1>4. io'.op = "supply" /\ io'.bytes = s /\ b \in Buffers
  BY <1>1 DEF Call, LiveBuffers
<1>5. Queues!Supply
  <2> DEFINE r == io'.bytes
  <2>1. Supplied(b, at, r)
    BY <1>3, <1>4
  <2>2. \E g \in Buffers : \E i \in 0 .. Len(Waiting[g]) - Len(r) :
          /\ \A j \in 1 .. Len(r) : Waiting[g][i + j] = Hole
          /\ Waiting' = [Waiting EXCEPT ![g] =
               [n \in 1 .. Len(@) |-> IF n - i \in 1 .. Len(r) THEN r[n - i] ELSE @[n]]]
    <3> HIDE DEF r
    <3> QED BY <1>4, <2>1 DEF Supplied
  <2> QED BY <1>4, <2>2 DEF Queues!Supply, Waiting
<1> QED BY <1>2, <1>5 DEF Follows, Queues!Next

LEMMA EmptyStep ==
  ASSUME IInv, IInv', PhInv, NEW b \in Buffers, clear(b) \/ reset(b)
  PROVE  Follows /\ PhInv'
<1>1. /\ Core /\ Core' /\ b \in LiveBuffers /\ LetGo(b) /\ ph \in Placeholder \cup {NULL}
      /\ io' = Call("empty", b, NULL, 0, <<>>)
  BY ReadyIsLive DEF IInv, Ends, clear, reset, LetGo
<1>2. /\ \A d \in Buffers : d # b => chain'[d] = chain[d]
      /\ \/ live' = [live EXCEPT ![b] = FALSE]
         \/ live' = live /\ chain'[b] = <<>>
  BY <1>1 DEF clear, reset, Core, Shape
<1>3. PhInv'
  BY <1>1, <1>2, PhLetGo
<1>4. Waiting' = [Waiting EXCEPT ![b] = <<>>]
  BY <1>1, <1>2, LetGoWaiting
<1>5. io'.op = "empty" /\ io'.buf = b
  BY <1>1 DEF Call
<1>6. Queues!Empty
  BY <1>4, <1>5 DEF Queues!Empty, Waiting
<1> QED BY <1>3, <1>6 DEF Follows, Queues!Next

LEMMA InitStep ==
  ASSUME IInv, PhInv, NEW b \in Buffers, init(b)
  PROVE  Follows /\ PhInv'
<1>1. Waiting' = Waiting /\ PhInv'
  BY InitWaiting DEF IInv
<1>2. io'.op = "idle"
  BY DEF init, NoCall, Call
<1>3. Queues!Silent
  BY <1>1, <1>2, SilentByQueues
<1> QED BY <1>1, <1>3 DEF Follows, Queues!Next

LEMMA AddingStep ==
  ASSUME IInv, IInv', PhInv, NEW b \in Buffers, Adding(b)
  PROVE  Follows /\ PhInv'
<1>n. MaxSize \in Nat /\ 0 .. MaxSize \subseteq Nat
  BY SizeAssumption
<1>1. CASE \E s \in Data : append(b, s)
  BY <1>1, PlainTexts, AppendStep
<1>2. CASE \E s \in Data : append_string0(b, s)
  BY <1>2, PlainTexts, AppendStep DEF append_string0
<1>3. CASE \E n \in 0 .. MaxSize : append_repeated_byte(b, n, NUL)
  <2>1. PICK n \in 0 .. MaxSize : append(b, [i \in 1 .. n |-> NUL])
    BY <1>3 DEF append_repeated_byte
  <2> DEFINE s == [i \in 1 .. n |-> NUL]
  <2>2. s \in Seq(Byte) /\ Len(s) = n /\ n \in Nat
    BY <1>n, Texts
  <2>3. Plain(s)
    BY <2>2, ValueAssumption DEF Plain
  <2>4. append(b, s)
    BY <2>1
  <2> HIDE DEF s
  <2> QED BY <2>2, <2>3, <2>4, AppendStep
<1>4. CASE \E s \in Data : append_small(b, s)
  BY <1>4, PlainTexts, AppendSmallStep
<1>5. CASE readv(b)
  BY <1>5, PlainTexts, AppendStep DEF readv
<1>6. CASE \E o \in Foreign, s \in Data : append_foreign(b, o, s)
  BY <1>6, PlainTexts, AppendForeignStep
<1>7. CASE \E s \in Data : vprintf(b, s)
  BY <1>7, VprintfStep
<1>8. CASE \E n \in 1 .. MaxSize : append_placeholder(b, n)
  BY <1>8, PlaceholderStep
<1> QED BY <1>1, <1>2, <1>3, <1>4, <1>5, <1>6, <1>7, <1>8 DEF Adding

LEMMA ReadStep ==
  ASSUME IInv, IInv', PhInv, NEW b \in Buffers, NEW n \in Nat, read(b, n)
  PROVE  Follows /\ PhInv'
<1>1. b \in LiveBuffers /\ Unlink(b, n) /\ Deliver(b, n)
  BY ReadyIsLive DEF read
<1> QED BY <1>1, TakeStep

LEMMA TakingStep ==
  ASSUME IInv, IInv', PhInv, NEW b \in Buffers, Taking(b)
  PROVE  Follows /\ PhInv'
<1>1. CASE \E n \in 0 .. MaxSize : read(b, n)
  BY <1>1, SizeAssumption, ReadStep
<1>2. CASE \E n \in 0 .. MaxSize : discard(b, n)
  BY <1>2, SizeAssumption, ReadStep DEF discard
<1>3. CASE \E x \in {LF, NUL} : read_until(b, x)
  <2>1. PICK x \in {LF, NUL} : read_until(b, x)
    BY <1>3
  <2>2. PICK n \in Nat : read(b, n)
    BY <2>1, ReadUntilReads
  <2> QED BY <2>2, ReadStep
<1>4. CASE empty_to_string(b)
  BY <1>4, ReadStep DEF empty_to_string, IInv, Core, Shape
<1>5. CASE \E w \in 1 .. MaxSize : writev(b, w)
  BY <1>5, ReadStep DEF writev
<1>6. CASE \E m, w \in 1 .. MaxSize : writev_len(b, m, w)
  BY <1>6, ReadStep DEF writev_len, writev
<1> QED BY <1>1, <1>2, <1>3, <1>4, <1>5, <1>6 DEF Taking

LEMMA FlushingStep ==
  ASSUME IInv, IInv', PhInv, NEW b \in Buffers, Flushing(b)
  PROVE  Follows /\ PhInv'
<1>1. CASE write_all_to_fd(b)
  BY <1>1, QuietStep DEF write_all_to_fd, listVars, fragVars
<1>2. CASE \E w \in 1 .. MaxSize : write_all_step(b, w)
  <2>1. PICK w \in 1 .. MaxSize : write_all_step(b, w)
    BY <1>2
  <2>2. b \in LiveBuffers /\ Unlink(b, w) /\ Deliver(b, w) /\ w \in Nat
    BY <2>1, ValueAssumption DEF write_all_step, IInv, Ends, LiveBuffers
  <2> QED BY <2>2, TakeStep
<1>3. CASE write_all_fails(b)
  BY <1>3, QuietStep DEF write_all_fails, listVars, fragVars
<1> QED BY <1>1, <1>2, <1>3 DEF Flushing

LEMMA NextStep ==
  ASSUME IInv, PhInv, [Next]_vars
  PROVE  Follows /\ PhInv'
<1>0. IInv'
  BY NextKeepsIInv
<1>1. ASSUME NEW b \in Buffers, Adding(b) PROVE Follows /\ PhInv'
  BY <1>0, <1>1, AddingStep
<1>2. ASSUME NEW b \in Buffers, Taking(b) PROVE Follows /\ PhInv'
  BY <1>0, <1>2, TakingStep
<1>3. ASSUME NEW b \in Buffers, Flushing(b) PROVE Follows /\ PhInv'
  BY <1>0, <1>3, FlushingStep
<1>4. ASSUME NEW b \in Buffers, Discarding(b) PROVE Follows /\ PhInv'
  BY <1>0, <1>4, EmptyStep, InitStep DEF Discarding
<1>5. ASSUME NEW dst \in Buffers, NEW src \in Buffers, Moving(dst, src) PROVE Follows /\ PhInv'
  <2>1. CASE drain(dst, src)
    BY <1>0, <2>1, DrainStep
  <2>2. CASE \E n \in 0 .. MaxSize : transfer(dst, src, n)
    BY <1>0, <2>2, SizeAssumption, TransferStep
  <2> QED BY <1>5, <2>1, <2>2 DEF Moving
<1>6. ASSUME NEW s \in Data, placeholder_set(s) PROVE Follows /\ PhInv'
  BY <1>6, Texts, SupplyStep
<1>7. CASE cleanup_recycling_bin
  BY <1>7, QuietStep DEF cleanup_recycling_bin, listVars
<1>8. CASE UNCHANGED vars
  BY <1>8, QuietStep DEF vars, listVars, fragVars
<1> QED BY <1>1, <1>2, <1>3, <1>4, <1>5, <1>6, <1>7, <1>8 DEF Next

LEMMA InitFollows ==
  ASSUME Init
  PROVE  Queues!Init /\ PhInv
<1>1. PhInv
  BY DEF Init, PhInv
<1>2. io.op = "idle"
  BY DEF Init, NoCall, Call
<1>3. ASSUME NEW b \in Buffers PROVE Bytes(b) = <<>>
  <2>1. chain[b] = <<>> /\ data \in Fields
    <3>1. IInv
      BY InitIsIInv
    <3> QED BY <3>1 DEF Init, IInv, Core, Shape
  <2> QED BY <2>1, ContentsFew DEF Bytes
<1>4. [b \in Buffers |-> IF live[b] THEN Bytes(b) ELSE <<>>] = [b \in Buffers |-> <<>>]
  BY <1>3 DEF Init
<1> QED BY <1>1, <1>2, <1>4 DEF Queues!Init, Queues!Idle

(* The invariant of the placeholder holds in every state of the program.   *)
THEOREM PlaceholderKept == Spec => [](IInv /\ PhInv)
<1>1. Init => IInv /\ PhInv
  BY InitIsIInv, InitFollows
<1>2. IInv /\ PhInv /\ [Next]_vars => IInv' /\ PhInv'
  BY NextKeepsIInv, NextStep
<1> QED BY <1>1, <1>2, PTL DEF Spec

(* Whatever sequence of calls is made on the buffers of the program, and   *)
(* however the fragments are allocated, recycled, spliced and copied, the  *)
(* bytes go in and come out as they do with FIFO queues.                   *)
THEOREM BuffersAreQueues == Spec => ImplementsByteQueues
<1>1. Init => Queues!Init
  BY InitFollows
<1>2. IInv /\ PhInv /\ [Next]_vars => Follows
  BY NextStep
<1>3. Follows =>
        [Queues!Next]_<<[b \in Buffers |-> IF live[b] THEN Bytes(b) ELSE <<>>], io>>
  BY DEF Follows, Waiting
<1>4. IInv /\ PhInv /\ [Next]_vars =>
        [Queues!Next]_<<[b \in Buffers |-> IF live[b] THEN Bytes(b) ELSE <<>>], io>>
  BY <1>2, <1>3
<1> QED BY <1>1, <1>4, PlaceholderKept, PTL DEF Spec, ImplementsByteQueues, Queues!Spec

LEMMA MarkedIsFound ==
  ASSUME IInv, PhInv
  PROVE  PlaceholderFindsItsBytes
<1> SUFFICES ASSUME ph # NULL, ph.fresh
             PROVE  \E b \in LiveBuffers :
      /\ ph.frag \in Placed(chain[b])
      /\ LET i == IndexIn(chain[b], ph.frag)
             rest == Contents(SubSeq(chain[b], i, Len(chain[b])), data)
             skip == ph.off - start[ph.frag]
         IN /\ skip >= 0
            /\ \A j \in 1 .. Len(rest) :
                 rest[j] = Hole <=> j - skip \in 1 .. ph.len
            /\ \A j \in i + 1 .. Len(chain[b]) :
                 Hole \in Placed(data[chain[b][j]]) => start[chain[b][j]] = 0
  BY DEF PlaceholderFindsItsBytes
<1>1. PICK b \in LiveBuffers : Marked(chain[b], data, start, ph)
  BY DEF PhInv, Holds
<1> DEFINE c == chain[b]
           d == data
           q == Contents(c, d)
<1>2. PICK i \in 1 .. Len(c) : MarkedAt(c, d, start, ph, i)
  BY <1>1 DEF Marked
<1>3. /\ c \in Lists /\ Inj(c) /\ d \in Fields /\ start \in Starts /\ Len(c) \in Nat
      /\ q \in Seq(Byte) /\ Len(q) \in Nat
  BY OfQueue, LenProperties DEF IInv, Lists
<1> DEFINE off == Offsets(c, d)[i - 1]
           skip == ph.off - start[ph.frag]
           at == off + ph.off - start[ph.frag]
           rest == Contents(SubSeq(c, i, Len(c)), d)
<1>4. /\ c[i] = ph.frag /\ start[ph.frag] <= ph.off
      /\ \A n \in 1 .. Len(q) : (q[n] = Hole) <=> (n - at \in 1 .. ph.len)
      /\ \A j \in i + 1 .. Len(c) : Offsets(c, d)[j - 1] < at + ph.len => start[c[j]] = 0
  BY <1>2 DEF MarkedAt
<1>5. IndexIn(c, ph.frag) = i /\ ph.frag \in Placed(c)
  <2>1. IndexIn(c, c[i]) = i
    BY <1>3, IndexInList
  <2> QED BY <1>4, <2>1 DEF Placed
<1>6. ph.off \in Nat /\ start[ph.frag] \in Nat /\ off \in Nat /\ ph.len \in Nat
  <2>1. ph.off \in Nat /\ ph.frag \in Frag /\ ph.len \in Nat
    BY DEF IInv, Ends, Placeholder
  <2>2. start[ph.frag] \in Nat
    BY <1>3, <2>1 DEF Starts
  <2>3. i - 1 \in 0 .. Len(c)
    BY <1>3
  <2> QED BY <1>3, <2>1, <2>2, <2>3, TotalType
<1>7. /\ off \in 0 .. Len(q) /\ rest \in Seq(Byte) /\ Len(rest) = Len(q) - off
      /\ \A j \in 1 .. Len(rest) : rest[j] = q[off + j]
  <2> DEFINE k == i - 1
             u == Contents(SubSeq(c, 1, k), d)
             v == Contents(SubSeq(c, k + 1, Len(c)), d)
  <2>1. k \in 0 .. Len(c) /\ k + 1 = i
    BY <1>3
  <2>2. q = u \o v /\ Len(u) = off /\ u \in Seq(Byte) /\ v \in Seq(Byte)
    BY <1>3, <2>1, ContentsCut
  <2>3. v = rest
    BY <2>1
  <2> HIDE DEF q, off, rest, u, v
  <2>4. /\ Len(u \o v) = Len(u) + Len(v) /\ Len(v) \in Nat /\ Len(u) \in Nat
        /\ \A j \in 1 .. Len(u) + Len(v) : (u \o v)[j] = IF j <= Len(u) THEN u[j] ELSE v[j - Len(u)]
    BY <2>2, ConcatProperties, LenProperties
  <2>5. ASSUME NEW j \in 1 .. Len(v) PROVE v[j] = q[off + j]
    <3>1. off + j \in 1 .. Len(u) + Len(v) /\ ~(off + j <= Len(u)) /\ (off + j) - Len(u) = j
      BY <2>2, <2>4
    <3> QED BY <2>2, <2>4, <3>1
  <2> QED BY <2>2, <2>3, <2>4, <2>5
<1>8. skip >= 0
  BY <1>4, <1>6
<1>9. ASSUME NEW j \in 1 .. Len(rest)
      PROVE  (rest[j] = Hole) <=> (j - skip \in 1 .. ph.len)
  <2> HIDE DEF q, off, rest
  <2>1. off + j \in 1 .. Len(q) /\ (off + j) - at = j - skip
    BY <1>3, <1>6, <1>7
  <2> HIDE DEF at, skip
  <2> QED BY <1>4, <1>7, <2>1
<1>10. ASSUME NEW j \in i + 1 .. Len(c), Hole \in Placed(d[c[j]])
       PROVE  start[c[j]] = 0
  <2>1. PICK m \in 1 .. Len(d[c[j]]) : d[c[j]][m] = Hole
    BY <1>10 DEF Placed
  <2>2. j \in 1 .. Len(c)
    BY <1>3
  <2> DEFINE o == Offsets(c, d)[j - 1]
  <2>3. o \in Nat /\ o + m \in 1 .. Len(q) /\ q[o + m] = Hole
    BY <1>3, <2>1, <2>2, Spell
  <2>4. m \in Nat /\ m >= 1 /\ at \in Int
    BY <1>6
  <2> HIDE DEF q, at, o
  <2>5. (o + m) - at \in 1 .. ph.len
    <3>1. \A n \in 1 .. Len(q) : (q[n] = Hole) => (n - at \in 1 .. ph.len)
      BY <1>4
    <3> DEFINE n == o + m
    <3>2. n \in 1 .. Len(q) /\ q[n] = Hole
      BY <2>3
    <3> HIDE DEF n
    <3>3. n - at \in 1 .. ph.len
      BY <3>1, <3>2
    <3> QED BY <3>3 DEF n
  <2>6. o < at + ph.len
    BY <1>6, <2>3, <2>4, <2>5
  <2> QED BY <1>4, <2>6 DEF o
<1> HIDE DEF skip
<1> QED BY <1>5, <1>8, <1>9, <1>10 DEF skip

(* The walk of bulp_buffer_placeholder_set meets exactly the bytes that    *)
(* bulp_buffer_append_placeholder reserved, whatever was called meanwhile. *)
THEOREM PlaceholderFound == Spec => []PlaceholderFindsItsBytes
<1>1. IInv /\ PhInv => PlaceholderFindsItsBytes
  BY MarkedIsFound
<1> QED BY <1>1, PlaceholderKept, PTL
=============================================================================
