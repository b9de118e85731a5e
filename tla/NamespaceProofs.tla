-------------------------- MODULE NamespaceProofs --------------------------
(***************************************************************************)
(* That the calls of bulp-namespace.c and bulp-format.c, and every turn of *)
(* the parser in bulp-namespace-parser.c, keep the heap sound, for all     *)
(* names and texts, and any number of namespaces and formats.  There are   *)
(* lemmas about the comparison of names, about one tree of names, and      *)
(* about one object of the heap that changes or is added; then one for     *)
(* each call, with the recursion of destructors and the loops over members *)
(* and components of a name; the theorems about every run of calls; then   *)
(* lemmas about tokens and about what each part of the parser returns, and *)
(* the theorems about every run of calls and texts.                        *)
(***************************************************************************)
EXTENDS DescriptionParser, RedBlackTreeProofs

(***************************************************************************)
(* Comparing names                                                         *)
(***************************************************************************)

(* a comes before b for what is at i: a ends there, or has less.           *)
Differ(a, b, i) ==
  /\ i \in 1 .. Len(b) /\ i - 1 <= Len(a)
  /\ \A j \in 1 .. i - 1 : a[j] = b[j]
  /\ i <= Len(a) => a[i] < b[i]

LEMMA SameStart ==
  ASSUME NEW a \in Seq(Nat), NEW b \in Seq(Nat), NEW k \in Nat, k <= Len(a), k <= Len(b)
  PROVE  SubSeq(a, 1, k) = SubSeq(b, 1, k) <=> \A j \in 1 .. k : a[j] = b[j]
<1> DEFINE u == SubSeq(a, 1, k)
           v == SubSeq(b, 1, k)
<1>1. /\ u \in Seq(Nat) /\ Len(u) = k /\ \A j \in 1 .. k : u[j] = a[j]
      /\ v \in Seq(Nat) /\ Len(v) = k /\ \A j \in 1 .. k : v[j] = b[j]
  BY CutSeq
<1> HIDE DEF u, v
<1>2. (\A j \in 1 .. k : u[j] = v[j]) => u = v
  BY <1>1, SeqEqual
<1>3. u = v => \A j \in 1 .. k : a[j] = b[j]
  BY <1>1
<1>4. (\A j \in 1 .. k : a[j] = b[j]) => \A j \in 1 .. k : u[j] = v[j]
  BY <1>1
<1>5. u = v <=> \A j \in 1 .. k : a[j] = b[j]
  BY <1>2, <1>3, <1>4
<1> QED BY <1>5 DEF u, v

(* strcmp is negative where the names differ so.                           *)
LEMMA StrCmpIs ==
  ASSUME NEW a \in Seq(Nat), NEW b \in Seq(Nat)
  PROVE  /\ StrCmp(a, b) \in {-1, 0, 1}
         /\ StrCmp(a, b) = 0 <=> a = b
         /\ StrCmp(a, b) < 0 <=> \E i \in 1 .. Len(b) : Differ(a, b, i)
<1> DEFINE Less == \/ IsStrictPrefix(a, b)
                   \/ \E i \in DOMAIN a \cap DOMAIN b :
                        a[i] < b[i] /\ SubSeq(a, 1, i - 1) = SubSeq(b, 1, i - 1)
<1>1. StrCmp(a, b) = IF a = b THEN 0 ELSE IF Less THEN -1 ELSE 1
  BY DEF StrCmp
<1>2. /\ Len(a) \in Nat /\ Len(b) \in Nat /\ DOMAIN a = 1 .. Len(a) /\ DOMAIN b = 1 .. Len(b)
      /\ \A j \in 1 .. Len(a) : a[j] \in Nat
      /\ \A j \in 1 .. Len(b) : b[j] \in Nat
  BY LenProperties, ElementOfSeq
<1>3. ASSUME IsStrictPrefix(a, b) PROVE \E i \in 1 .. Len(b) : Differ(a, b, i)
  <2>1. Len(a) <= Len(b) /\ SubSeq(a, 1, Len(a)) = SubSeq(b, 1, Len(a)) /\ a # b
    BY <1>3 DEF IsStrictPrefix, IsPrefix
  <2>2. \A j \in 1 .. Len(a) : a[j] = b[j]
    BY <1>2, <2>1, SameStart
  <2>3. Len(a) # Len(b)
    BY <2>1, <2>2, SeqEqual
  <2>4. PICK i : i = Len(a) + 1
    OBVIOUS
  <2>5. i \in 1 .. Len(b) /\ i - 1 = Len(a) /\ ~(i <= Len(a))
    <3>1. Len(a) \in Nat /\ Len(b) \in Nat /\ Len(a) <= Len(b) /\ Len(a) # Len(b)
      BY <1>2, <2>1, <2>3
    <3> QED BY ONLY <2>4, <3>1
  <2>6. Differ(a, b, i)
    BY <1>2, <2>2, <2>5 DEF Differ
  <2> QED BY <2>5, <2>6
<1>4. ASSUME NEW i \in DOMAIN a \cap DOMAIN b, a[i] < b[i],
             SubSeq(a, 1, i - 1) = SubSeq(b, 1, i - 1)
      PROVE  \E k \in 1 .. Len(b) : Differ(a, b, k)
  <2>1. i \in 1 .. Len(b) /\ i \in 1 .. Len(a) /\ i - 1 \in Nat /\ i - 1 <= Len(a) /\ i - 1 <= Len(b)
    BY <1>2
  <2>2. \A j \in 1 .. i - 1 : a[j] = b[j]
    BY <1>4, <2>1, SameStart
  <2> QED BY <1>4, <2>1, <2>2 DEF Differ
<1>5. ASSUME NEW i \in 1 .. Len(b), Differ(a, b, i) PROVE a # b /\ Less
  <2>1. /\ i \in Nat /\ i - 1 \in Nat /\ i - 1 <= Len(a) /\ i - 1 <= Len(b)
        /\ \A j \in 1 .. i - 1 : a[j] = b[j]
        /\ i <= Len(a) => a[i] < b[i]
    BY <1>2, <1>5 DEF Differ
  <2>2. SubSeq(a, 1, i - 1) = SubSeq(b, 1, i - 1)
    BY <2>1, SameStart
  <2>3. CASE i <= Len(a)
    <3>1. i \in DOMAIN a \cap DOMAIN b /\ a[i] < b[i]
      BY <1>2, <2>1, <2>3
    <3>2. a # b
      BY <1>2, <3>1
    <3> QED BY <2>2, <3>1, <3>2
  <2>4. CASE ~(i <= Len(a))
    <3>1. i - 1 = Len(a) /\ Len(a) < Len(b)
      BY <1>2, <2>1, <2>4
    <3> QED BY <2>2, <3>1, <1>2 DEF IsStrictPrefix, IsPrefix
  <2> QED BY <2>3, <2>4
<1>6. Less <=> \E i \in 1 .. Len(b) : Differ(a, b, i)
  BY <1>3, <1>4, <1>5
<1>7. Less => a # b
  BY <1>5, <1>6
<1> HIDE DEF Less
<1> QED BY <1>1, <1>6, <1>7

LEMMA DifferOrders ==
  ASSUME NEW a \in Seq(Nat), NEW b \in Seq(Nat), NEW c \in Seq(Nat),
         NEW i \in 1 .. Len(b), Differ(a, b, i)
  PROVE  /\ \A k \in 1 .. Len(c) : Differ(b, c, k) => \E m \in 1 .. Len(c) : Differ(a, c, m)
         /\ \A k \in 1 .. Len(a) : ~Differ(b, a, k)
<1>1. /\ Len(a) \in Nat /\ Len(b) \in Nat /\ Len(c) \in Nat
      /\ \A j \in 1 .. Len(a) : a[j] \in Nat
      /\ \A j \in 1 .. Len(b) : b[j] \in Nat
      /\ \A j \in 1 .. Len(c) : c[j] \in Nat
  BY LenProperties, ElementOfSeq
<1>2. /\ i \in Nat /\ i >= 1 /\ i <= Len(b) /\ i - 1 <= Len(a)
      /\ \A j \in 1 .. i - 1 : a[j] = b[j]
      /\ i <= Len(a) => a[i] < b[i]
  BY <1>1 DEF Differ
<1>3. ASSUME NEW k \in 1 .. Len(c), Differ(b, c, k)
      PROVE  \E m \in 1 .. Len(c) : Differ(a, c, m)
  <2>1. /\ k \in Nat /\ k >= 1 /\ k <= Len(c) /\ k - 1 <= Len(b)
        /\ \A j \in 1 .. k - 1 : b[j] = c[j]
        /\ k <= Len(b) => b[k] < c[k]
    BY <1>1, <1>3 DEF Differ
  <2>2. CASE i < k
    <3>1. i \in 1 .. Len(c) /\ i \in 1 .. k - 1 /\ i \in 1 .. Len(b)
      BY <1>1, <1>2, <2>1, <2>2
    <3>2. \A j \in 1 .. i - 1 : a[j] = c[j]
      BY <1>2, <2>1, <2>2
    <3>3. i <= Len(a) => a[i] < c[i]
      BY <1>2, <2>1, <3>1
    <3> QED BY <1>2, <3>1, <3>2, <3>3 DEF Differ
  <2>3. CASE ~(i < k)
    <3>1. k <= i /\ k \in 1 .. Len(b) /\ b[k] < c[k]
      BY <1>1, <1>2, <2>1, <2>3
    <3>2. \A j \in 1 .. k - 1 : a[j] = c[j]
      BY <1>2, <2>1, <3>1
    <3>3. ASSUME k <= Len(a) PROVE a[k] < c[k]
      <4>1. k \in 1 .. Len(a)
        BY <2>1, <3>3
      <4>2. a[k] = b[k] \/ a[k] < b[k]
        <5>1. CASE k = i
          BY <1>2, <3>3, <5>1
        <5>2. CASE k # i
          <6>1. k \in 1 .. i - 1
            BY <1>2, <2>1, <3>1, <5>2
          <6> QED BY <1>2, <6>1
        <5> QED BY <5>1, <5>2
      <4>3. a[k] \in Nat /\ b[k] \in Nat /\ c[k] \in Nat /\ b[k] < c[k]
        BY <1>1, <3>1, <4>1
      <4>4. \A p, q, r \in Nat : (p = q \/ p < q) /\ q < r => p < r
        OBVIOUS
      <4> QED BY <4>2, <4>3, <4>4
    <3>4. k - 1 <= Len(a)
      BY <1>1, <1>2, <2>1, <3>1
    <3> QED BY <3>2, <3>3, <3>4 DEF Differ
  <2> QED BY <2>2, <2>3
<1>4. ASSUME NEW k \in 1 .. Len(a), Differ(b, a, k) PROVE FALSE
  <2>1. /\ k \in Nat /\ k >= 1 /\ k <= Len(a) /\ k - 1 <= Len(b)
        /\ \A j \in 1 .. k - 1 : b[j] = a[j]
        /\ k <= Len(b) => b[k] < a[k]
    BY <1>1, <1>4 DEF Differ
  <2>2. CASE i < k
    <3>1. i \in 1 .. k - 1 /\ i \in 1 .. Len(a) /\ i \in 1 .. Len(b) /\ i <= Len(a)
      BY <1>1, <1>2, <2>1, <2>2
    <3>2. a[i] < b[i] /\ b[i] = a[i] /\ a[i] \in Nat
      BY <1>1, <1>2, <2>1, <3>1
    <3> QED BY <3>2
  <2>3. CASE k < i
    <3>1. k \in 1 .. i - 1 /\ k \in 1 .. Len(a) /\ k <= Len(b)
      BY <1>1, <1>2, <2>1, <2>3
    <3>2. b[k] < a[k] /\ b[k] = a[k] /\ a[k] \in Nat
      BY <1>1, <1>2, <2>1, <3>1
    <3> QED BY <3>2
  <2>4. CASE i = k
    <3>1. k \in 1 .. Len(a) /\ k \in 1 .. Len(b)
      BY <1>1, <1>2, <2>1, <2>4
    <3>2. b[k] < a[k] /\ a[k] < b[k] /\ a[k] \in Nat /\ b[k] \in Nat
      BY <1>1, <1>2, <2>1, <2>4, <3>1
    <3> QED BY <3>2
  <2> QED BY <1>2, <2>1, <2>2, <2>3, <2>4
<1> QED BY <1>3, <1>4

LEMMA DifferTotal ==
  ASSUME NEW a \in Seq(Nat), NEW b \in Seq(Nat), a # b
  PROVE  \/ \E i \in 1 .. Len(b) : Differ(a, b, i)
         \/ \E i \in 1 .. Len(a) : Differ(b, a, i)
<1>1. /\ Len(a) \in Nat /\ Len(b) \in Nat
      /\ \A j \in 1 .. Len(a) : a[j] \in Nat
      /\ \A j \in 1 .. Len(b) : b[j] \in Nat
  BY LenProperties, ElementOfSeq
<1> DEFINE D == {j \in Nat : j >= 1 /\ (j <= Len(a) /\ j <= Len(b) => a[j] # b[j])
                             /\ (j <= Len(a) \/ j <= Len(b))}
<1>2. D # {}
  <2>1. CASE Len(a) = Len(b)
    <3>1. PICK j \in 1 .. Len(a) : a[j] # b[j]
      BY <2>1, SeqEqual
    <3>2. j \in D
      BY <1>1, <2>1, <3>1
    <3> QED BY <3>2
  <2>2. CASE Len(a) < Len(b)
    <3>1. Len(a) + 1 \in D
      BY <1>1, <2>2
    <3> QED BY <3>1
  <2>3. CASE Len(b) < Len(a)
    <3>1. Len(b) + 1 \in D
      BY <1>1, <2>3
    <3> QED BY <3>1
  <2> QED BY <1>1, <2>1, <2>2, <2>3
<1>3. PICK d \in D : \A j \in D : d <= j
  <2>1. D \in SUBSET Nat
    OBVIOUS
  <2> HIDE DEF D
  <2> QED BY <1>2, <2>1, NatMin
<1>4. d \in Nat /\ d >= 1 /\ (d <= Len(a) /\ d <= Len(b) => a[d] # b[d])
      /\ (d <= Len(a) \/ d <= Len(b))
  OBVIOUS
<1>5. ASSUME NEW j \in 1 .. d - 1 PROVE j <= Len(a) /\ j <= Len(b) /\ a[j] = b[j]
  <2>1. j \in Nat /\ j >= 1 /\ j < d
    BY <1>4
  <2>2. j \notin D
    <3> HIDE DEF D
    <3> QED BY <1>3, <1>4, <2>1
  <2> QED BY <1>1, <1>4, <2>1, <2>2
<1> HIDE DEF D
<1>6. d - 1 <= Len(a) /\ d - 1 <= Len(b)
  <2>1. CASE d = 1
    BY <1>1, <2>1
  <2>2. CASE d # 1
    <3>1. d - 1 \in 1 .. d - 1
      BY <1>4, <2>2
    <3> QED BY <1>5, <3>1
  <2> QED BY <2>1, <2>2
<1>7. CASE d <= Len(b) /\ (d <= Len(a) => a[d] < b[d])
  <2>1. d \in 1 .. Len(b) /\ Differ(a, b, d)
    BY <1>1, <1>4, <1>5, <1>6, <1>7 DEF Differ
  <2> QED BY <2>1
<1>8. CASE d <= Len(a) /\ (d <= Len(b) => b[d] < a[d])
  <2>1. d \in 1 .. Len(a) /\ Differ(b, a, d)
    BY <1>1, <1>4, <1>5, <1>6, <1>8 DEF Differ
  <2> QED BY <2>1
<1>9. CASE d <= Len(a) /\ d <= Len(b)
  <2>1. a[d] \in Nat /\ b[d] \in Nat /\ a[d] # b[d]
    BY <1>1, <1>4, <1>9
  <2> QED BY <1>7, <1>8, <1>9, <2>1
<1> QED BY <1>4, <1>7, <1>8, <1>9

(* strcmp of names is an order of them.                                    *)
LEMMA CmpIs ==
  ASSUME NEW x \in Names, NEW y \in Names
  PROVE  /\ Cmp[x][y] \in {-1, 0, 1}
         /\ Cmp[x][y] = 0 <=> x = y
         /\ Cmp[x][y] < 0 => ~(Cmp[y][x] < 0)
         /\ Cmp[x][y] < 0 \/ Cmp[y][x] < 0 \/ x = y
         /\ \A z \in Names : Cmp[x][y] < 0 /\ Cmp[y][z] < 0 => Cmp[x][z] < 0
<1>1. \A u \in Names : Spelling[u] \in Seq(Nat)
  BY NamesAssumption
<1>2. \A u, v \in Names : Spelling[u] = Spelling[v] => u = v
  BY NamesAssumption
<1>3. ASSUME NEW u \in Names, NEW v \in Names
      PROVE  /\ Cmp[u][v] \in {-1, 0, 1}
             /\ Cmp[u][v] = 0 <=> Spelling[u] = Spelling[v]
             /\ Cmp[u][v] < 0 <=> \E i \in 1 .. Len(Spelling[v]) : Differ(Spelling[u], Spelling[v], i)
  <2>1. Cmp[u][v] = StrCmp(Spelling[u], Spelling[v])
    BY DEF Cmp
  <2> DEFINE a == Spelling[u]
             b == Spelling[v]
  <2>2. a \in Seq(Nat) /\ b \in Seq(Nat)
    BY <1>1
  <2> HIDE DEF a, b
  <2>3. /\ StrCmp(a, b) \in {-1, 0, 1} /\ (StrCmp(a, b) = 0 <=> a = b)
        /\ StrCmp(a, b) < 0 <=> \E i \in 1 .. Len(b) : Differ(a, b, i)
    BY <2>2, StrCmpIs
  <2> QED BY <2>1, <2>3 DEF a, b
<1>4. Cmp[x][y] = 0 <=> x = y
  BY <1>2, <1>3
<1>5. Cmp[x][y] < 0 => ~(Cmp[y][x] < 0)
  <2>1. SUFFICES ASSUME Cmp[x][y] < 0 PROVE ~(Cmp[y][x] < 0)
    OBVIOUS
  <2>2. PICK i \in 1 .. Len(Spelling[y]) : Differ(Spelling[x], Spelling[y], i)
    BY <1>3, <2>1
  <2>3. \A k \in 1 .. Len(Spelling[x]) : ~Differ(Spelling[y], Spelling[x], k)
    BY <1>1, <2>2, DifferOrders
  <2> QED BY <1>3, <2>3
<1>6. Cmp[x][y] < 0 \/ Cmp[y][x] < 0 \/ x = y
  <2>1. SUFFICES ASSUME x # y PROVE Cmp[x][y] < 0 \/ Cmp[y][x] < 0
    OBVIOUS
  <2>2. Spelling[x] # Spelling[y]
    BY <1>2, <2>1
  <2> QED BY <1>1, <1>3, <2>2, DifferTotal
<1>7. ASSUME NEW z \in Names, Cmp[x][y] < 0, Cmp[y][z] < 0 PROVE Cmp[x][z] < 0
  <2>1. PICK i \in 1 .. Len(Spelling[y]) : Differ(Spelling[x], Spelling[y], i)
    BY <1>3, <1>7
  <2>2. PICK k \in 1 .. Len(Spelling[z]) : Differ(Spelling[y], Spelling[z], k)
    BY <1>3, <1>7
  <2>3. \E m \in 1 .. Len(Spelling[z]) : Differ(Spelling[x], Spelling[z], m)
    BY <1>1, <2>1, <2>2, DifferOrders
  <2> QED BY <1>3, <2>3
<1> QED BY <1>3, <1>4, <1>5, <1>6, <1>7

(***************************************************************************)
(* The tree of a namespace                                                 *)
(***************************************************************************)

LEMMA NodeIdsAre ==
  /\ \A name \in Names : /\ Malloced(name) \in NodeIds /\ OnStack(name) \in NodeIds
                         /\ NodeName(Malloced(name)) = name /\ NodeName(OnStack(name)) = name
  /\ \A a, b : Malloced(a) # OnStack(b) /\ (Malloced(a) = Malloced(b) => a = b)
  /\ \A x \in NodeIds : /\ NodeName(x) \in Names
                        /\ x = Malloced(NodeName(x)) \/ x = OnStack(NodeName(x))
  /\ NULL \notin NodeIds
<1>1. \A a, b : /\ Malloced(a) # OnStack(b) /\ (Malloced(a) = Malloced(b) => a = b)
                /\ NodeName(Malloced(a)) = a /\ NodeName(OnStack(a)) = a
  BY DEF Malloced, OnStack, NodeName
<1>2. \A x \in NodeIds : \E name \in Names : x = Malloced(name) \/ x = OnStack(name)
  BY DEF NodeIds
<1>3. \A name \in Names : Malloced(name) \in NodeIds /\ OnStack(name) \in NodeIds
  BY DEF NodeIds
<1>4. NULL \notin NodeIds
  <2>1. \A name \in Names : Malloced(name) # NULL /\ OnStack(name) # NULL
    BY NullAssumption DEF Malloced, OnStack
  <2> QED BY <1>2, <2>1
<1> QED BY <1>1, <1>2, <1>3, <1>4

LEMMA NodesInOrderIs ==
  /\ \A x, y \in NodeIds : <<x, y>> \in NodesInOrder <=> Cmp[NodeName(x)][NodeName(y)] < 0
  /\ \A x, y : <<x, y>> \in NodesInOrder => x \in NodeIds /\ y \in NodeIds
  /\ IsOrder(NodesInOrder)
<1>1. \A x, y : <<x, y>> \in NodesInOrder
                  <=> x \in NodeIds /\ y \in NodeIds /\ Cmp[NodeName(x)][NodeName(y)] < 0
  <2> TAKE x, y
  <2> DEFINE p == <<x, y>>
  <2>1. p \in NodesInOrder <=> p \in NodeIds \X NodeIds /\ Cmp[NodeName(p[1])][NodeName(p[2])] < 0
    BY DEF NodesInOrder
  <2>2. p[1] = x /\ p[2] = y /\ (p \in NodeIds \X NodeIds <=> x \in NodeIds /\ y \in NodeIds)
    OBVIOUS
  <2> QED BY <2>1, <2>2
<1>2. ASSUME NEW x, NEW y, NEW z, <<x, y>> \in NodesInOrder, <<y, z>> \in NodesInOrder
      PROVE  <<x, z>> \in NodesInOrder
  <2>1. /\ x \in NodeIds /\ y \in NodeIds /\ z \in NodeIds
        /\ Cmp[NodeName(x)][NodeName(y)] < 0 /\ Cmp[NodeName(y)][NodeName(z)] < 0
    BY <1>1, <1>2
  <2>2. NodeName(x) \in Names /\ NodeName(y) \in Names /\ NodeName(z) \in Names
    BY <2>1, NodeIdsAre
  <2>3. Cmp[NodeName(x)][NodeName(z)] < 0
    BY <2>1, <2>2, CmpIs
  <2> QED BY <1>1, <2>1, <2>3
<1> QED BY <1>1, <1>2 DEF IsOrder

(* Between calls, the nodes of a namespace live in malloc'ed memory.       *)
Homes == {Malloced(name) : name \in Names}
Tidy(t) == Balanced(t, NodesInOrder) /\ Nodes(t) \subseteq Homes

LEMMA HomesAre == /\ Homes \subseteq NodeIds
                  /\ \A x \in Homes : NodeName(x) \in Names /\ x = Malloced(NodeName(x))
                  /\ \A name \in Names : Malloced(name) \in Homes
  BY NodeIdsAre DEF Homes

(* The comparator goes along with the order of the tree.                   *)
LEMMA AgainstIs ==
  ASSUME NEW t, Nodes(t) \subseteq Homes, NEW name \in Names,
         NEW order, order = AgainstNodes(Cmp, name, t)
  PROVE  /\ Equal(t, order) = Nodes(t) \cap {Malloced(name)}
         /\ GoesAlong(t, NodesInOrder, order)
         /\ \A x \in NodeIds : NodeName(x) = name => Sorts(t, NodesInOrder, order, x)
<1>1. \A x \in Nodes(t) : /\ x \in NodeIds /\ NodeName(x) \in Names /\ x = Malloced(NodeName(x))
                          /\ order[x] = Cmp[name][NodeName(x)]
  BY HomesAre DEF AgainstNodes
<1>2. \A x \in Nodes(t) : /\ order[x] \in {-1, 0, 1}
                          /\ order[x] = 0 <=> NodeName(x) = name
                          /\ order[x] < 0 => ~(Cmp[NodeName(x)][name] < 0)
                          /\ order[x] < 0 \/ Cmp[NodeName(x)][name] < 0 \/ NodeName(x) = name
  BY <1>1, CmpIs
<1>3. Equal(t, order) = Nodes(t) \cap {Malloced(name)}
  BY <1>1, <1>2, NodeIdsAre DEF Equal
<1>4. ASSUME NEW y \in Equal(t, order), NEW z \in Nodes(t)
      PROVE  /\ <<y, z>> \in NodesInOrder => order[z] < 0
             /\ <<z, y>> \in NodesInOrder => ~(order[z] < 0) /\ order[z] # 0
  <2>1. y \in Nodes(t) /\ y \in NodeIds /\ NodeName(y) = name /\ z \in NodeIds
    BY <1>1, <1>2 DEF Equal
  <2>2. /\ <<y, z>> \in NodesInOrder <=> Cmp[name][NodeName(z)] < 0
        /\ <<z, y>> \in NodesInOrder <=> Cmp[NodeName(z)][name] < 0
    BY <2>1, NodesInOrderIs
  <2>3. <<z, y>> \in NodesInOrder => NodeName(z) # name
    <3>1. Cmp[name][name] = 0
      BY CmpIs
    <3> QED BY <2>2, <3>1
  <2> QED BY <1>1, <1>2, <2>2, <2>3
<1>5. ASSUME NEW x \in NodeIds, NodeName(x) = name, NEW z \in Nodes(t)
      PROVE  /\ order[z] < 0 => <<x, z>> \in NodesInOrder
             /\ ~(order[z] < 0) /\ order[z] # 0 => <<z, x>> \in NodesInOrder
  BY <1>1, <1>2, <1>5, NodesInOrderIs
<1> QED BY <1>3, <1>4, <1>5 DEF GoesAlong, Sorts

(* The tree u is t, and the name is bound to own besides.                  *)
Gets(t, name, own, u) ==
  /\ Tidy(u) /\ Nodes(u) = Nodes(t) \cup {Malloced(name)}
  /\ u.at[Malloced(name)].entry = own
  /\ \A z \in Nodes(t) : u.at[z].entry = t.at[z].entry

LEMMA LookupName ==
  ASSUME NEW t, Tidy(t), NEW name \in Names
  PROVE  Lookup(t, AgainstNodes(Cmp, name, t))
           = IF Malloced(name) \in Nodes(t) THEN Malloced(name) ELSE NULL
<1> DEFINE order == AgainstNodes(Cmp, name, t)
<1>1. /\ Equal(t, order) = Nodes(t) \cap {Malloced(name)}
      /\ GoesAlong(t, NodesInOrder, order)
  BY AgainstIs DEF Tidy
<1> HIDE DEF order
<1>2. IF Equal(t, order) = {} THEN Lookup(t, order) = NULL
      ELSE Lookup(t, order) \in Equal(t, order)
  BY <1>1, LookupFinds DEF Tidy
<1> QED BY <1>1, <1>2 DEF order

LEMMA InsertName ==
  ASSUME NEW t, Tidy(t), NEW x \in NodeIds, NEW name, name = NodeName(x),
         Malloced(name) \notin Nodes(t), NEW own,
         NEW u, u = Insert(t, x, own, AgainstNodes(Cmp, name, t))
  PROVE  /\ Balanced(u, NodesInOrder) /\ x \notin Nodes(t) /\ Nodes(u) = Nodes(t) \cup {x}
         /\ u.at[x].entry = own
         /\ \A z \in Nodes(t) : u.at[z].entry = t.at[z].entry
<1> DEFINE order == AgainstNodes(Cmp, name, t)
<1>1. name \in Names /\ x # NULL
  BY NodeIdsAre
<1>2. x \notin Nodes(t)
  BY HomesAre DEF Tidy
<1>3. /\ Equal(t, order) = {} /\ Sorts(t, NodesInOrder, order, x)
  BY <1>1, AgainstIs DEF Tidy
<1> HIDE DEF order
<1>4. u = Insert(t, x, own, order) /\ Balanced(t, NodesInOrder) /\ IsOrder(NodesInOrder)
  BY NodesInOrderIs DEF order, Tidy
<1>5. /\ Balanced(u, NodesInOrder)
      /\ \A z \in Nodes(t) : z \in Nodes(u) /\ u.at[z].entry = t.at[z].entry
      /\ Equal(t, order) = {} => Nodes(u) = Nodes(t) \cup {x} /\ u.at[x].entry = own
  BY <1>1, <1>2, <1>3, <1>4, InsertKeeps
<1> QED BY <1>2, <1>3, <1>5

LEMMA InsertGets ==
  ASSUME NEW t, Tidy(t), NEW name \in Names, Malloced(name) \notin Nodes(t), NEW own
  PROVE  Gets(t, name, own, Insert(t, Malloced(name), own, AgainstNodes(Cmp, name, t)))
<1> DEFINE u == Insert(t, Malloced(name), own, AgainstNodes(Cmp, name, t))
           x == Malloced(name)
<1>1. x \in NodeIds /\ name = NodeName(x) /\ x \in Homes
  BY NodeIdsAre, HomesAre
<1>2. /\ Balanced(u, NodesInOrder) /\ Nodes(u) = Nodes(t) \cup {x}
      /\ u.at[x].entry = own
      /\ \A z \in Nodes(t) : u.at[z].entry = t.at[z].entry
  BY <1>1, InsertName
<1> HIDE DEF u, x
<1>3. Tidy(u)
  BY <1>1, <1>2 DEF Tidy
<1>4. Gets(t, name, own, u)
  BY <1>2, <1>3 DEF Gets, x
<1> QED BY <1>4 DEF u, x

(* A node of the stack that has found the place makes way for one that     *)
(* stays.                                                                  *)
LEMMA ReplaceGets ==
  ASSUME NEW t, Tidy(t), NEW name \in Names, Malloced(name) \notin Nodes(t), NEW own, NEW u,
         u = Insert(t, OnStack(name), NULL, AgainstNodes(Cmp, name, t))
  PROVE  Gets(t, name, own, ReplaceNode(u, OnStack(name), Malloced(name), own))
<1> DEFINE x == OnStack(name)
           y == Malloced(name)
           v == ReplaceNode(u, x, y, own)
<1>1. /\ x \in NodeIds /\ name = NodeName(x) /\ y \in Homes /\ y \in NodeIds /\ name = NodeName(y)
      /\ x # y /\ y # NULL
  BY NodeIdsAre, HomesAre
<1>2. /\ Balanced(u, NodesInOrder) /\ x \notin Nodes(t) /\ Nodes(u) = Nodes(t) \cup {x}
      /\ \A z \in Nodes(t) : u.at[z].entry = t.at[z].entry
  BY <1>1, InsertName
<1>3. StandsIn(u, NodesInOrder, x, y)
  <2>1. \A z : /\ <<x, z>> \in NodesInOrder => <<y, z>> \in NodesInOrder
               /\ <<z, x>> \in NodesInOrder => <<z, y>> \in NodesInOrder
    BY <1>1, NodesInOrderIs
  <2> QED BY <2>1 DEF StandsIn
<1>4. x \in Nodes(u) /\ y \notin Nodes(u)
  BY <1>1, <1>2
<1> HIDE DEF x, y
<1>5. /\ Balanced(v, NodesInOrder) /\ Nodes(v) = (Nodes(u) \ {x}) \cup {y}
      /\ \A z \in Nodes(u) \ {x} : v.at[z].entry = u.at[z].entry
      /\ v.at[y].entry = own
  BY <1>1, <1>2, <1>3, <1>4, ReplaceKeeps
<1> HIDE DEF v
<1>6. Nodes(v) = Nodes(t) \cup {y}
  BY <1>2, <1>5
<1>7. Gets(t, name, own, v)
  BY <1>1, <1>2, <1>5, <1>6 DEF Gets, Tidy, y
<1> QED BY <1>7 DEF v, x, y

LEMMA TidyIs ==
  ASSUME NEW t, Tidy(t)
  PROVE  IsRedBlackTree(t, NodesInOrder) /\ \A x \in Nodes(t) : x = Malloced(NodeName(x))
  BY HomesAre, BalancedIsRedBlack DEF Tidy
LEMMA EmptyIsTidy == Tidy(EmptyTree) /\ Nodes(EmptyTree) = {}
  BY EmptyTreeIs DEF Tidy

(***************************************************************************)
(* The heap                                                                *)
(***************************************************************************)

IsList(q) == Len(q) \in Nat /\ q = [i \in 1 .. Len(q) |-> q[i]]

LEMMA ListOfSeq ==
  ASSUME NEW S, NEW q \in Seq(S)
  PROVE  IsList(q)
<1>1. Len(q) \in Nat /\ DOMAIN q = 1 .. Len(q)
  BY LenProperties
<1> QED BY <1>1 DEF IsList

LEMMA ListIs ==
  ASSUME NEW q, IsList(q)
  PROVE  /\ Len(q) \in Nat /\ DOMAIN q = 1 .. Len(q)
         /\ \A e : IsList(Append(q, e)) /\ Len(Append(q, e)) = Len(q) + 1
                   /\ Append(q, e)[Len(q) + 1] = e
                   /\ \A i \in 1 .. Len(q) : Append(q, e)[i] = q[i]
         /\ \E S : q \in Seq(S)
<1>1. Len(q) \in Nat /\ q = [i \in 1 .. Len(q) |-> q[i]]
  BY DEF IsList
<1>2. DOMAIN q = 1 .. Len(q)
  BY <1>1
<1>3. ASSUME NEW e
      PROVE  IsList(Append(q, e)) /\ Len(Append(q, e)) = Len(q) + 1
             /\ Append(q, e)[Len(q) + 1] = e
             /\ \A i \in 1 .. Len(q) : Append(q, e)[i] = q[i]
  <2> DEFINE S == {q[i] : i \in 1 .. Len(q)} \cup {e}
             n == Len(q)
             a == Append(q, e)
  <2>1. q \in [1 .. n -> S] /\ e \in S /\ n \in Nat
    BY <1>1
  <2> HIDE DEF S
  <2>2. q \in Seq(S)
    BY <2>1
  <2>3. /\ a \in Seq(S) /\ Len(a) = n + 1 /\ a[n + 1] = e
        /\ \A i \in 1 .. n : a[i] = q[i]
    BY <2>1, <2>2, AppendProperties
  <2>4. IsList(a)
    BY <2>3, ListOfSeq
  <2> QED BY <2>1, <2>3, <2>4
<1>4. \E S : q \in Seq(S)
  <2> DEFINE S == {q[i] : i \in 1 .. Len(q)}
             n == Len(q)
  <2>1. q \in [1 .. n -> S] /\ n \in Nat
    BY <1>1
  <2> HIDE DEF S
  <2> QED BY <2>1
<1> QED BY <1>1, <1>2, <1>3, <1>4

LiveSpace(o) ==
  /\ o.ref_count \in Nat \ {0}
  /\ o = [ref_count |-> o.ref_count, is_toplevel |-> o.is_toplevel, by_name |-> o.by_name]
LiveFormat(o) ==
  /\ o.ref_count \in Nat \ {0}
  /\ o = [ref_count |-> o.ref_count, type |-> o.type, members |-> o.members,
          canonical_ns |-> o.canonical_ns, canonical_name |-> o.canonical_name,
          array_of |-> o.array_of, element |-> o.element]
SpaceCount(s) == Len(s.ns)
FormatCount(s) == Len(s.fmt)

Shape(s) ==
  /\ s = [ns |-> s.ns, fmt |-> s.fmt, global |-> s.global, crashed |-> s.crashed,
          leaks |-> s.leaks]
  /\ s.crashed \in BOOLEAN
  /\ IsList(s.ns) /\ IsList(s.fmt) /\ IsList(s.leaks)
  /\ \A n \in 1 .. SpaceCount(s) : s.ns[n] = Freed \/ LiveSpace(s.ns[n])
  /\ \A f \in 1 .. FormatCount(s) : s.fmt[f] = Freed \/ LiveFormat(s.fmt[f])

LEMMA ShapeIs ==
  ASSUME NEW s, Shape(s)
  PROVE  /\ SpaceCount(s) \in Nat /\ DOMAIN s.ns = 1 .. SpaceCount(s)
         /\ FormatCount(s) \in Nat /\ DOMAIN s.fmt = 1 .. FormatCount(s)
         /\ \A n \in 1 .. SpaceCount(s) :
              /\ s.ns[n].ref_count \in Nat /\ (Alive(s.ns[n]) <=> LiveSpace(s.ns[n]))
              /\ ~Alive(s.ns[n]) <=> s.ns[n].ref_count = 0
              /\ ~Alive(s.ns[n]) <=> s.ns[n] = Freed
         /\ \A f \in 1 .. FormatCount(s) :
              /\ s.fmt[f].ref_count \in Nat /\ (Alive(s.fmt[f]) <=> LiveFormat(s.fmt[f]))
              /\ ~Alive(s.fmt[f]) <=> s.fmt[f].ref_count = 0
              /\ ~Alive(s.fmt[f]) <=> s.fmt[f] = Freed
         /\ LiveSpaces(s) = {n \in 1 .. SpaceCount(s) : Alive(s.ns[n])}
         /\ LiveFormats(s) = {f \in 1 .. FormatCount(s) : Alive(s.fmt[f])}
<1>1. /\ SpaceCount(s) \in Nat /\ DOMAIN s.ns = 1 .. SpaceCount(s)
      /\ FormatCount(s) \in Nat /\ DOMAIN s.fmt = 1 .. FormatCount(s)
  BY ListIs DEF Shape, SpaceCount, FormatCount
<1>2. Freed.ref_count = 0
  BY DEF Freed
<1>3. ASSUME NEW n \in 1 .. SpaceCount(s)
      PROVE  /\ s.ns[n].ref_count \in Nat /\ (Alive(s.ns[n]) <=> LiveSpace(s.ns[n]))
             /\ ~Alive(s.ns[n]) <=> s.ns[n].ref_count = 0
             /\ ~Alive(s.ns[n]) <=> s.ns[n] = Freed
  BY <1>2 DEF Shape, LiveSpace, Alive
<1>4. ASSUME NEW f \in 1 .. FormatCount(s)
      PROVE  /\ s.fmt[f].ref_count \in Nat /\ (Alive(s.fmt[f]) <=> LiveFormat(s.fmt[f]))
             /\ ~Alive(s.fmt[f]) <=> s.fmt[f].ref_count = 0
             /\ ~Alive(s.fmt[f]) <=> s.fmt[f] = Freed
  BY <1>2 DEF Shape, LiveFormat, Alive
<1> QED BY <1>1, <1>3, <1>4 DEF LiveSpaces, LiveFormats

(* u is s but for the object with one number, or with one object more.     *)
SameRest(s, u) == u.global = s.global /\ u.crashed = s.crashed /\ u.leaks = s.leaks
FormatSet(s, u, f, o) ==
  /\ Shape(u) /\ SameRest(s, u) /\ u.ns = s.ns
  /\ FormatCount(u) = FormatCount(s) /\ u.fmt[f] = o
  /\ \A g \in 1 .. FormatCount(s) : g # f => u.fmt[g] = s.fmt[g]
SpaceSet(s, u, n, o) ==
  /\ Shape(u) /\ SameRest(s, u) /\ u.fmt = s.fmt
  /\ SpaceCount(u) = SpaceCount(s) /\ u.ns[n] = o
  /\ \A m \in 1 .. SpaceCount(s) : m # n => u.ns[m] = s.ns[m]
FormatAdded(s, u, o) ==
  /\ Shape(u) /\ SameRest(s, u) /\ u.ns = s.ns
  /\ FormatCount(u) = FormatCount(s) + 1 /\ u.fmt[FormatCount(u)] = o
  /\ \A g \in 1 .. FormatCount(s) : u.fmt[g] = s.fmt[g]
SpaceAdded(s, u, o) ==
  /\ Shape(u) /\ SameRest(s, u) /\ u.fmt = s.fmt
  /\ SpaceCount(u) = SpaceCount(s) + 1 /\ u.ns[SpaceCount(u)] = o
  /\ \A m \in 1 .. SpaceCount(s) : u.ns[m] = s.ns[m]

ListSet(q, i, o, r) ==
  IsList(r) /\ Len(r) = Len(q) /\ r[i] = o /\ \A j \in 1 .. Len(q) : j # i => r[j] = q[j]

LEMMA ListSets ==
  ASSUME NEW q, IsList(q), NEW i \in 1 .. Len(q), NEW o
  PROVE  ListSet(q, i, o, [q EXCEPT ![i] = o])
<1> DEFINE r == [q EXCEPT ![i] = o]
<1> DEFINE n == Len(q)
           S == {q[j] : j \in 1 .. n} \cup {o}
<1>1. n \in Nat /\ q = [j \in 1 .. n |-> q[j]]
  BY DEF IsList
<1>2. r = [j \in 1 .. n |-> IF j = i THEN o ELSE q[j]]
  BY <1>1
<1>3. r \in [1 .. n -> S]
  BY <1>2
<1> HIDE DEF S, r
<1>4. r \in Seq(S) /\ Len(r) = n
  BY <1>1, <1>3, FunctionIsSeq
<1>5. r[i] = o /\ \A j \in 1 .. n : j # i => r[j] = q[j]
  BY <1>2
<1>6. ListSet(q, i, o, r)
  BY <1>4, <1>5, ListOfSeq DEF ListSet
<1> QED BY <1>6 DEF r

LEMMA FormatSets ==
  ASSUME NEW s, Shape(s), NEW f \in 1 .. FormatCount(s), NEW o, o = Freed \/ LiveFormat(o),
         NEW u, u = [s EXCEPT !.fmt[f] = o]
  PROVE  FormatSet(s, u, f, o)
<1> DEFINE r == [s.fmt EXCEPT ![f] = o]
<1>1. u = [ns |-> s.ns, fmt |-> r, global |-> s.global, crashed |-> s.crashed,
           leaks |-> s.leaks]
  BY DEF Shape
<1>2. /\ IsList(r) /\ Len(r) = Len(s.fmt) /\ r[f] = o
      /\ \A g \in 1 .. Len(s.fmt) : g # f => r[g] = s.fmt[g]
  <2>1. IsList(s.fmt) /\ f \in 1 .. Len(s.fmt)
    BY DEF Shape, FormatCount
  <2>2. ListSet(s.fmt, f, o, r)
    BY <2>1, ListSets
  <2> QED BY <2>2 DEF ListSet
<1> HIDE DEF r
<1>3. u.ns = s.ns /\ u.fmt = r /\ SameRest(s, u)
  BY <1>1 DEF SameRest
<1>4. Shape(u)
  <2>1. u = [ns |-> u.ns, fmt |-> u.fmt, global |-> u.global, crashed |-> u.crashed,
             leaks |-> u.leaks]
    BY <1>1, <1>3 DEF SameRest
  <2>2. \A g \in 1 .. FormatCount(u) : u.fmt[g] = Freed \/ LiveFormat(u.fmt[g])
    BY <1>2, <1>3 DEF Shape, FormatCount
  <2> QED BY <1>2, <1>3, <2>1, <2>2 DEF Shape, SameRest, SpaceCount
<1> QED BY <1>2, <1>3, <1>4 DEF FormatSet, FormatCount

LEMMA SpaceSets ==
  ASSUME NEW s, Shape(s), NEW n \in 1 .. SpaceCount(s), NEW o, o = Freed \/ LiveSpace(o),
         NEW u, u = [s EXCEPT !.ns[n] = o]
  PROVE  SpaceSet(s, u, n, o)
<1> DEFINE r == [s.ns EXCEPT ![n] = o]
<1>1. u = [ns |-> r, fmt |-> s.fmt, global |-> s.global, crashed |-> s.crashed,
           leaks |-> s.leaks]
  BY DEF Shape
<1>2. /\ IsList(r) /\ Len(r) = Len(s.ns) /\ r[n] = o
      /\ \A g \in 1 .. Len(s.ns) : g # n => r[g] = s.ns[g]
  <2>1. IsList(s.ns) /\ n \in 1 .. Len(s.ns)
    BY DEF Shape, SpaceCount
  <2>2. ListSet(s.ns, n, o, r)
    BY <2>1, ListSets
  <2> QED BY <2>2 DEF ListSet
<1> HIDE DEF r
<1>3. u.fmt = s.fmt /\ u.ns = r /\ SameRest(s, u)
  BY <1>1 DEF SameRest
<1>4. Shape(u)
  <2>1. u = [ns |-> u.ns, fmt |-> u.fmt, global |-> u.global, crashed |-> u.crashed,
             leaks |-> u.leaks]
    BY <1>1, <1>3 DEF SameRest
  <2>2. \A g \in 1 .. SpaceCount(u) : u.ns[g] = Freed \/ LiveSpace(u.ns[g])
    BY <1>2, <1>3 DEF Shape, SpaceCount
  <2> QED BY <1>2, <1>3, <2>1, <2>2 DEF Shape, SameRest, FormatCount
<1> QED BY <1>2, <1>3, <1>4 DEF SpaceSet, SpaceCount

LEMMA FormatAdds ==
  ASSUME NEW s, Shape(s), NEW o, LiveFormat(o), NEW u, u = [s EXCEPT !.fmt = Append(@, o)]
  PROVE  FormatAdded(s, u, o)
<1> DEFINE r == Append(s.fmt, o)
<1>1. u = [ns |-> s.ns, fmt |-> r, global |-> s.global, crashed |-> s.crashed,
           leaks |-> s.leaks]
  BY DEF Shape
<1>2. /\ IsList(r) /\ Len(r) = Len(s.fmt) + 1 /\ r[Len(s.fmt) + 1] = o
      /\ \A g \in 1 .. Len(s.fmt) : r[g] = s.fmt[g]
      /\ Len(s.fmt) \in Nat
  BY ListIs DEF Shape
<1> HIDE DEF r
<1>3. u.ns = s.ns /\ u.fmt = r /\ SameRest(s, u)
  BY <1>1 DEF SameRest
<1>4. Shape(u)
  <2>1. u = [ns |-> u.ns, fmt |-> u.fmt, global |-> u.global, crashed |-> u.crashed,
             leaks |-> u.leaks]
    BY <1>1, <1>3 DEF SameRest
  <2>2. ASSUME NEW g \in 1 .. FormatCount(u) PROVE u.fmt[g] = Freed \/ LiveFormat(u.fmt[g])
    <3>1. g \in 1 .. Len(s.fmt) \/ g = Len(s.fmt) + 1
      BY <1>2, <1>3 DEF FormatCount
    <3> QED BY <1>2, <1>3, <3>1 DEF Shape, FormatCount
  <2> QED BY <1>2, <1>3, <2>1, <2>2 DEF Shape, SameRest, SpaceCount
<1> QED BY <1>2, <1>3, <1>4 DEF FormatAdded, FormatCount

LEMMA SpaceAdds ==
  ASSUME NEW s, Shape(s), NEW o, LiveSpace(o), NEW u, u = [s EXCEPT !.ns = Append(@, o)]
  PROVE  SpaceAdded(s, u, o)
<1> DEFINE r == Append(s.ns, o)
<1>1. u = [ns |-> r, fmt |-> s.fmt, global |-> s.global, crashed |-> s.crashed,
           leaks |-> s.leaks]
  BY DEF Shape
<1>2. /\ IsList(r) /\ Len(r) = Len(s.ns) + 1 /\ r[Len(s.ns) + 1] = o
      /\ \A g \in 1 .. Len(s.ns) : r[g] = s.ns[g]
      /\ Len(s.ns) \in Nat
  BY ListIs DEF Shape
<1> HIDE DEF r
<1>3. u.fmt = s.fmt /\ u.ns = r /\ SameRest(s, u)
  BY <1>1 DEF SameRest
<1>4. Shape(u)
  <2>1. u = [ns |-> u.ns, fmt |-> u.fmt, global |-> u.global, crashed |-> u.crashed,
             leaks |-> u.leaks]
    BY <1>1, <1>3 DEF SameRest
  <2>2. ASSUME NEW g \in 1 .. SpaceCount(u) PROVE u.ns[g] = Freed \/ LiveSpace(u.ns[g])
    <3>1. g \in 1 .. Len(s.ns) \/ g = Len(s.ns) + 1
      BY <1>2, <1>3 DEF SpaceCount
    <3> QED BY <1>2, <1>3, <3>1 DEF Shape, SpaceCount
  <2> QED BY <1>2, <1>3, <2>1, <2>2 DEF Shape, SameRest, FormatCount
<1> QED BY <1>2, <1>3, <1>4 DEF SpaceAdded, SpaceCount

(* A crash changes nothing else.                                           *)
Crashed(s, u) ==
  /\ Shape(u) /\ u.crashed /\ u.ns = s.ns /\ u.fmt = s.fmt /\ u.global = s.global
  /\ u.leaks = s.leaks

LEMMA CrashIs ==
  ASSUME NEW s, Shape(s)
  PROVE  Crashed(s, Crash(s))
<1>1. ASSUME NEW c, c \in BOOLEAN, c, NEW u, u = [s EXCEPT !.crashed = c]
      PROVE  Crashed(s, u)
  <2>1. u = [ns |-> s.ns, fmt |-> s.fmt, global |-> s.global, crashed |-> c,
             leaks |-> s.leaks]
    BY <1>1 DEF Shape
  <2>2. /\ u.ns = s.ns /\ u.fmt = s.fmt /\ u.global = s.global /\ u.leaks = s.leaks
        /\ u.crashed = c
    BY <2>1
  <2>3. Shape(u)
    BY <1>1, <2>1, <2>2 DEF Shape, SpaceCount, FormatCount
  <2>4. u.crashed
    BY <1>1, <2>2
  <2> QED BY <2>2, <2>3, <2>4 DEF Crashed
<1> QED BY <1>1 DEF Crash

-----------------------------------------------------------------------------
(* What is so of the heap during a call too.                               *)

Refers(s, e) ==
  \/ e = Entry("FORMAT", e.v) /\ e.v \in 1 .. FormatCount(s)
  \/ e = Entry("SUBNAMESPACE", e.v) /\ e.v \in 1 .. SpaceCount(s)
TreeSound(s, t) == Tidy(t) /\ \A x \in Nodes(t) : Refers(s, t.at[x].entry)
MembersSound(s, o) ==
  /\ IsList(o.members)
  /\ \A i \in 1 .. Len(o.members) : o.members[i] \in 1 .. FormatCount(s) \cup {NULL}
  /\ o.array_of \in 1 .. FormatCount(s) \cup {NULL}

(* The canonical name of the format f, that of the object o, leads to it.  *)
LeadsTo(s, o, f) ==
  \/ o.canonical_ns = NULL
  \/ /\ o.canonical_ns \in 1 .. SpaceCount(s) /\ o.canonical_name \in Names
     /\ Alive(s.ns[o.canonical_ns]) =>
          LET t == s.ns[o.canonical_ns].by_name
              x == Malloced(o.canonical_name)
          IN x \in Nodes(t) /\ t.at[x].entry = Entry("FORMAT", f)

Sound(s) ==
  /\ Shape(s) /\ s.global \in 1 .. SpaceCount(s) \cup {NULL}
  /\ \A n \in 1 .. SpaceCount(s) : Alive(s.ns[n]) => TreeSound(s, s.ns[n].by_name)
  /\ \A f \in 1 .. FormatCount(s) :
       Alive(s.fmt[f]) => MembersSound(s, s.fmt[f]) /\ LeadsTo(s, s.fmt[f], f)

(* What has become of the heap s: no number is used again, and what a name *)
(* is bound to stays.                                                      *)
Kept(t, v) == Nodes(t) \subseteq Nodes(v) /\ \A x \in Nodes(t) : v.at[x].entry = t.at[x].entry
Evolves(s, u) ==
  /\ SpaceCount(s) <= SpaceCount(u) /\ FormatCount(s) <= FormatCount(u)
  /\ \A n \in 1 .. SpaceCount(s) :
       Alive(u.ns[n]) => Alive(s.ns[n]) /\ Kept(s.ns[n].by_name, u.ns[n].by_name)
Becomes(s, u) == Sound(u) /\ Evolves(s, u)

LEMMA EvolvesIs ==
  ASSUME NEW s, Sound(s)
  PROVE  /\ Evolves(s, s)
         /\ \A u, v : Evolves(s, u) /\ Sound(u) /\ Evolves(u, v) /\ Sound(v) => Evolves(s, v)
<1>0. SpaceCount(s) \in Nat /\ FormatCount(s) \in Nat
  BY ShapeIs DEF Sound
<1>1. Evolves(s, s)
  BY <1>0 DEF Evolves, Kept
<1>2. ASSUME NEW u, NEW v, Evolves(s, u), Sound(u), Evolves(u, v), Sound(v)
      PROVE  Evolves(s, v)
  <2>1. /\ SpaceCount(u) \in Nat /\ FormatCount(u) \in Nat
        /\ SpaceCount(v) \in Nat /\ FormatCount(v) \in Nat
    BY <1>2, ShapeIs DEF Sound
  <2>2. /\ SpaceCount(s) <= SpaceCount(u) /\ FormatCount(s) <= FormatCount(u)
        /\ SpaceCount(u) <= SpaceCount(v) /\ FormatCount(u) <= FormatCount(v)
    BY <1>2 DEF Evolves
  <2>3. ASSUME NEW n \in 1 .. SpaceCount(s), Alive(v.ns[n])
        PROVE  Alive(s.ns[n]) /\ Kept(s.ns[n].by_name, v.ns[n].by_name)
    <3>1. n \in 1 .. SpaceCount(u)
      BY <1>0, <2>1, <2>2
    <3>2. Alive(u.ns[n]) /\ Kept(u.ns[n].by_name, v.ns[n].by_name)
      BY <1>2, <2>3, <3>1 DEF Evolves
    <3>3. Alive(s.ns[n]) /\ Kept(s.ns[n].by_name, u.ns[n].by_name)
      BY <1>2, <3>2 DEF Evolves
    <3> QED BY <3>2, <3>3 DEF Kept
  <2> QED BY <1>0, <2>1, <2>2, <2>3 DEF Evolves
<1> QED BY <1>1, <1>2

LEMMA NumbersAre == /\ \A i \in Nat : i # NULL
                    /\ \A type, v : Entry(type, v).type = type /\ Entry(type, v).v = v
                    /\ "FORMAT" # "SUBNAMESPACE"
                    /\ \A s, e : Sound(s) /\ Refers(s, e) => e # NULL /\ e.v # NULL
<1>1. \A i \in Nat : i # NULL
  BY NullAssumption
<1>2. \A type, v : Entry(type, v).type = type /\ Entry(type, v).v = v
  BY DEF Entry
<1>3. ASSUME NEW s, NEW e, Sound(s), Refers(s, e) PROVE e # NULL /\ e.v # NULL
  <2>1. e.v \in Nat
    BY <1>3, ShapeIs DEF Refers, Sound
  <2>2. e = [type |-> "FORMAT", v |-> e.v] \/ e = [type |-> "SUBNAMESPACE", v |-> e.v]
    BY <1>3 DEF Refers, Entry
  <2>3. e \in [type : {"FORMAT", "SUBNAMESPACE"}, v : Nat]
    BY <2>1, <2>2
  <2> QED BY <1>1, <2>1, <2>3, NullAssumption
<1> QED BY <1>1, <1>2, <1>3

(* A format is changed, or destroyed.                                      *)
LEMMA FormatSetSound ==
  ASSUME NEW s, Sound(s), NEW u, NEW f \in 1 .. FormatCount(s), NEW o, FormatSet(s, u, f, o),
         Alive(o) => MembersSound(s, o) /\ LeadsTo(s, o, f)
  PROVE  Becomes(s, u)
<1>1. /\ Shape(s) /\ Shape(u) /\ u.ns = s.ns /\ u.global = s.global
      /\ FormatCount(u) = FormatCount(s) /\ SpaceCount(u) = SpaceCount(s)
      /\ u.fmt[f] = o /\ \A g \in 1 .. FormatCount(s) : g # f => u.fmt[g] = s.fmt[g]
      /\ SpaceCount(s) \in Nat /\ FormatCount(s) \in Nat
  BY ShapeIs DEF Sound, FormatSet, SameRest, SpaceCount
<1>2. \A e : Refers(u, e) <=> Refers(s, e)
  BY <1>1 DEF Refers
<1>3. \A n \in 1 .. SpaceCount(u) : Alive(u.ns[n]) => TreeSound(u, u.ns[n].by_name)
  BY <1>1, <1>2 DEF Sound, TreeSound
<1>4. ASSUME NEW g \in 1 .. FormatCount(u), Alive(u.fmt[g])
      PROVE  MembersSound(u, u.fmt[g]) /\ LeadsTo(u, u.fmt[g], g)
  <2>1. MembersSound(s, u.fmt[g]) /\ LeadsTo(s, u.fmt[g], g)
    BY <1>1, <1>4 DEF Sound
  <2> QED BY <1>1, <2>1 DEF MembersSound, LeadsTo
<1>5. Sound(u)
  BY <1>1, <1>3, <1>4 DEF Sound
<1>6. Evolves(s, u)
  BY <1>1 DEF Evolves, Kept
<1> QED BY <1>5, <1>6 DEF Becomes

(* A namespace is changed, or destroyed.                                   *)
LEMMA SpaceSetSound ==
  ASSUME NEW s, Sound(s), NEW u, NEW n \in 1 .. SpaceCount(s), NEW o, SpaceSet(s, u, n, o),
         Alive(o) => /\ Alive(s.ns[n]) /\ TreeSound(s, o.by_name)
                     /\ Kept(s.ns[n].by_name, o.by_name)
  PROVE  Becomes(s, u)
<1>1. /\ Shape(s) /\ Shape(u) /\ u.fmt = s.fmt /\ u.global = s.global
      /\ FormatCount(u) = FormatCount(s) /\ SpaceCount(u) = SpaceCount(s)
      /\ u.ns[n] = o /\ \A m \in 1 .. SpaceCount(s) : m # n => u.ns[m] = s.ns[m]
      /\ SpaceCount(s) \in Nat /\ FormatCount(s) \in Nat
  BY ShapeIs DEF Sound, SpaceSet, SameRest, FormatCount
<1>2. \A e : Refers(u, e) <=> Refers(s, e)
  BY <1>1 DEF Refers
<1>3. ASSUME NEW m \in 1 .. SpaceCount(s), Alive(u.ns[m])
      PROVE  /\ Alive(s.ns[m]) /\ TreeSound(s, u.ns[m].by_name)
             /\ Kept(s.ns[m].by_name, u.ns[m].by_name)
  <2>1. CASE m = n
    BY <1>1, <1>3, <2>1
  <2>2. CASE m # n
    <3>1. u.ns[m] = s.ns[m]
      BY <1>1, <2>2
    <3> QED BY <1>3, <3>1 DEF Sound, Kept
  <2> QED BY <2>1, <2>2
<1>4. \A m \in 1 .. SpaceCount(u) : Alive(u.ns[m]) => TreeSound(u, u.ns[m].by_name)
  BY <1>1, <1>2, <1>3 DEF TreeSound
<1>5. ASSUME NEW g \in 1 .. FormatCount(u), Alive(u.fmt[g])
      PROVE  MembersSound(u, u.fmt[g]) /\ LeadsTo(u, u.fmt[g], g)
  <2>1. MembersSound(s, u.fmt[g]) /\ LeadsTo(s, u.fmt[g], g)
    BY <1>1, <1>5 DEF Sound
  <2>2. MembersSound(u, u.fmt[g])
    BY <1>1, <2>1 DEF MembersSound
  <2> DEFINE m == u.fmt[g].canonical_ns
             x == Malloced(u.fmt[g].canonical_name)
  <2>3. CASE m = NULL
    BY <2>2, <2>3 DEF LeadsTo
  <2>4. CASE m # NULL
    <3>1. /\ m \in 1 .. SpaceCount(s) /\ u.fmt[g].canonical_name \in Names
          /\ Alive(s.ns[m]) => /\ x \in Nodes(s.ns[m].by_name)
                               /\ s.ns[m].by_name.at[x].entry = Entry("FORMAT", g)
      BY <2>1, <2>4 DEF LeadsTo
    <3>2. Alive(u.ns[m]) => /\ x \in Nodes(u.ns[m].by_name)
                            /\ u.ns[m].by_name.at[x].entry = Entry("FORMAT", g)
      BY <1>3, <3>1 DEF Kept
    <3> QED BY <1>1, <2>2, <3>1, <3>2 DEF LeadsTo
  <2> QED BY <2>3, <2>4
<1>6. Sound(u)
  BY <1>1, <1>4, <1>5 DEF Sound
<1>7. Evolves(s, u)
  BY <1>1, <1>3 DEF Evolves
<1> QED BY <1>6, <1>7 DEF Becomes

(* A format is made.                                                       *)
LEMMA FormatAddedSound ==
  ASSUME NEW s, Sound(s), NEW u, NEW o, FormatAdded(s, u, o),
         MembersSound(s, o), o.canonical_ns = NULL
  PROVE  Becomes(s, u)
<1>1. /\ Shape(s) /\ Shape(u) /\ u.ns = s.ns /\ u.global = s.global
      /\ FormatCount(u) = FormatCount(s) + 1 /\ SpaceCount(u) = SpaceCount(s)
      /\ u.fmt[FormatCount(u)] = o /\ \A g \in 1 .. FormatCount(s) : u.fmt[g] = s.fmt[g]
      /\ SpaceCount(s) \in Nat /\ FormatCount(s) \in Nat
  BY ShapeIs DEF Sound, FormatAdded, SameRest, SpaceCount
<1>2. \A e : Refers(s, e) => Refers(u, e)
  BY <1>1 DEF Refers
<1>3. \A n \in 1 .. SpaceCount(u) : Alive(u.ns[n]) => TreeSound(u, u.ns[n].by_name)
  BY <1>1, <1>2 DEF Sound, TreeSound
<1>4. ASSUME NEW g \in 1 .. FormatCount(u), Alive(u.fmt[g])
      PROVE  MembersSound(u, u.fmt[g]) /\ LeadsTo(u, u.fmt[g], g)
  <2>1. MembersSound(s, u.fmt[g]) /\ LeadsTo(s, u.fmt[g], g)
    <3>1. CASE g \in 1 .. FormatCount(s)
      BY <1>1, <1>4, <3>1 DEF Sound
    <3>2. CASE g \notin 1 .. FormatCount(s)
      <4>1. g = FormatCount(u)
        BY <1>1, <3>2
      <4> QED BY <1>1, <4>1 DEF LeadsTo
    <3> QED BY <3>1, <3>2
  <2>2. \A i : i \in 1 .. FormatCount(s) => i \in 1 .. FormatCount(u)
    BY <1>1
  <2>3. LeadsTo(u, u.fmt[g], g)
    BY <1>1, <2>1 DEF LeadsTo
  <2> QED BY <2>1, <2>2, <2>3 DEF MembersSound
<1>5. Sound(u)
  BY <1>1, <1>3, <1>4 DEF Sound
<1>6. Evolves(s, u)
  BY <1>1 DEF Evolves, Kept
<1> QED BY <1>5, <1>6 DEF Becomes

(* A namespace is made.                                                    *)
LEMMA SpaceAddedSound ==
  ASSUME NEW s, Sound(s), NEW u, NEW o, SpaceAdded(s, u, o), o.by_name = EmptyTree
  PROVE  Becomes(s, u)
<1>1. /\ Shape(s) /\ Shape(u) /\ u.fmt = s.fmt /\ u.global = s.global
      /\ FormatCount(u) = FormatCount(s) /\ SpaceCount(u) = SpaceCount(s) + 1
      /\ u.ns[SpaceCount(u)] = o /\ \A m \in 1 .. SpaceCount(s) : u.ns[m] = s.ns[m]
      /\ SpaceCount(s) \in Nat /\ FormatCount(s) \in Nat
  BY ShapeIs DEF Sound, SpaceAdded, SameRest, FormatCount
<1>2. \A e : Refers(s, e) => Refers(u, e)
  BY <1>1 DEF Refers
<1>3. ASSUME NEW n \in 1 .. SpaceCount(u), Alive(u.ns[n])
      PROVE  TreeSound(u, u.ns[n].by_name)
  <2>1. CASE n \in 1 .. SpaceCount(s)
    BY <1>1, <1>2, <1>3, <2>1 DEF Sound, TreeSound
  <2>2. CASE n \notin 1 .. SpaceCount(s)
    <3>1. n = SpaceCount(u)
      BY <1>1, <2>2
    <3> QED BY <1>1, <3>1, EmptyIsTidy DEF TreeSound
  <2> QED BY <2>1, <2>2
<1>4. ASSUME NEW g \in 1 .. FormatCount(u), Alive(u.fmt[g])
      PROVE  MembersSound(u, u.fmt[g]) /\ LeadsTo(u, u.fmt[g], g)
  <2>1. MembersSound(s, u.fmt[g]) /\ LeadsTo(s, u.fmt[g], g)
    BY <1>1, <1>4 DEF Sound
  <2>2. \A i : i \in 1 .. SpaceCount(s) => i \in 1 .. SpaceCount(u) /\ u.ns[i] = s.ns[i]
    BY <1>1
  <2>3. LeadsTo(u, u.fmt[g], g)
    BY <2>1, <2>2 DEF LeadsTo
  <2> QED BY <1>1, <2>1, <2>3 DEF MembersSound
<1>5. u.global \in 1 .. SpaceCount(u) \cup {NULL}
  BY <1>1 DEF Sound
<1>6. Sound(u)
  BY <1>1, <1>3, <1>4, <1>5 DEF Sound
<1>7. Evolves(s, u)
  BY <1>1 DEF Evolves, Kept
<1> QED BY <1>6, <1>7 DEF Becomes

LEMMA CrashSound ==
  ASSUME NEW s, Sound(s), NEW u, Crashed(s, u)
  PROVE  Becomes(s, u)
<1>1. /\ Shape(u) /\ u.ns = s.ns /\ u.fmt = s.fmt /\ u.global = s.global
      /\ FormatCount(u) = FormatCount(s) /\ SpaceCount(u) = SpaceCount(s)
      /\ SpaceCount(s) \in Nat /\ FormatCount(s) \in Nat
  BY ShapeIs DEF Sound, Crashed, SpaceCount, FormatCount
<1>2. Sound(u)
  <2>1. \A e : Refers(u, e) <=> Refers(s, e)
    BY <1>1 DEF Refers
  <2>2. \A n \in 1 .. SpaceCount(u) : Alive(u.ns[n]) => TreeSound(u, u.ns[n].by_name)
    BY <1>1, <2>1 DEF Sound, TreeSound
  <2>3. ASSUME NEW f \in 1 .. FormatCount(u), Alive(u.fmt[f])
        PROVE  MembersSound(u, u.fmt[f]) /\ LeadsTo(u, u.fmt[f], f)
    <3>1. MembersSound(s, u.fmt[f]) /\ LeadsTo(s, u.fmt[f], f)
      BY <1>1, <2>3 DEF Sound
    <3> QED BY <1>1, <3>1 DEF MembersSound, LeadsTo
  <2> QED BY <1>1, <2>2, <2>3 DEF Sound
<1>3. Evolves(s, u)
  BY <1>1 DEF Evolves, Kept
<1> QED BY <1>2, <1>3 DEF Becomes

-----------------------------------------------------------------------------
(* The recursive functions of the calls: what they do with the i-th thing. *)

Step(call, list, n, cmp, s, i, x) ==
  IF call = "give back" THEN IF x.todo = <<>> THEN x ELSE Unref(x)
  ELSE IF call = "take" THEN IF list[i] = NULL THEN x ELSE FormatRef(x, list[i])
  ELSE IF call = "force"
       THEN IF x.v = NULL THEN x ELSE ForceSubnamespace1(x.s, n, list[i])
  ELSE IF call = "force on"
       THEN IF x.v = NULL THEN x ELSE ForceSubnamespace1(x.s, x.v, list[i])
  ELSE IF call = "mark" THEN ArrayMark(x, list, cmp)
  ELSE IF call = "add" THEN AddBuiltin(x, list[i])
  ELSE IF IsSpace(x) THEN EntryFor(cmp, s, x.v, list[i]) ELSE NULL
Steps(g, call, list, n, cmp, s, b, max) ==
  g = [i \in 0 .. max |-> IF i = 0 THEN b ELSE Step(call, list, n, cmp, s, i, g[i - 1])]

LEMMA StepsExist ==
  ASSUME NEW call, NEW list, NEW m, NEW cmp, NEW s, NEW b, NEW max \in Nat
  PROVE  \E g : Steps(g, call, list, m, cmp, s, b, max)
<1> DEFINE T == {k \in 0 .. max : \E g : Steps(g, call, list, m, cmp, s, b, k)}
           St(i, x) == Step(call, list, m, cmp, s, i, x)
<1>1. 0 \in T
  <2> DEFINE g == [i \in 0 .. 0 |-> b]
  <2>1. g = [i \in 0 .. 0 |-> IF i = 0 THEN b ELSE Step(call, list, m, cmp, s, i, g[i - 1])]
    OBVIOUS
  <2>2. Steps(g, call, list, m, cmp, s, b, 0)
    BY <2>1 DEF Steps
  <2> QED BY <2>2
<1>2. ASSUME NEW k \in 1 .. max, k - 1 \in T PROVE k \in T
  <2>1. PICK g : Steps(g, call, list, m, cmp, s, b, k - 1)
    BY <1>2
  <2>0. g = [i \in 0 .. k - 1 |-> IF i = 0 THEN b ELSE St(i, g[i - 1])]
    BY <2>1 DEF Steps
  <2> HIDE DEF St
  <2> DEFINE h == [i \in 0 .. k |-> IF i = k THEN St(k, g[k - 1]) ELSE g[i]]
             e == [i \in 0 .. k |-> IF i = 0 THEN b ELSE St(i, h[i - 1])]
  <2>2. ASSUME NEW i \in 0 .. k PROVE h[i] = e[i]
    <3>1. CASE i = k
      <4>1. k - 1 \in 0 .. k /\ k - 1 # k /\ k # 0 /\ k \in 0 .. k
        OBVIOUS
      <4>2. h[k - 1] = g[k - 1] /\ h[k] = St(k, g[k - 1])
        BY <4>1
      <4> HIDE DEF h
      <4> QED BY <3>1, <4>1, <4>2
    <3>2. CASE i # k
      <4>1. i \in 0 .. k - 1 /\ h[i] = g[i]
        BY <3>2
      <4>2. g[i] = IF i = 0 THEN b ELSE St(i, g[i - 1])
        BY <2>0, <4>1
      <4>3. i # 0 => i - 1 \in 0 .. k /\ i - 1 # k
        BY <3>2
      <4>4. i # 0 => h[i - 1] = g[i - 1]
        BY <4>3
      <4> HIDE DEF h
      <4> QED BY <4>1, <4>2, <4>4
    <3> QED BY <3>1, <3>2
  <2>3. h = e
    <3>1. h = [i \in 0 .. k |-> h[i]] /\ e = [i \in 0 .. k |-> e[i]]
      OBVIOUS
    <3> HIDE DEF h, e
    <3> QED BY <2>2, <3>1
  <2>4. Steps(h, call, list, m, cmp, s, b, k)
    BY <2>3 DEF Steps, St
  <2> HIDE DEF h
  <2> QED BY <2>4
<1>3. 0 .. max \subseteq T
  <2> HIDE DEF T
  <2> QED BY <1>1, <1>2, IndexInduction
<1> QED BY <1>3

-----------------------------------------------------------------------------
(* Each call keeps the heap sound.                                         *)

LEMMA FormatRefKeeps ==
  ASSUME NEW s, Sound(s), NEW f \in 1 .. FormatCount(s) \cup {NULL}
  PROVE  Becomes(s, FormatRef(s, f))
<1>1. CASE f # NULL /\ Alive(s.fmt[f])
  <2>1. f \in 1 .. FormatCount(s) /\ LiveFormat(s.fmt[f]) /\ Shape(s)
    BY <1>1, ShapeIs DEF Sound
  <2> DEFINE c == s.fmt[f].ref_count + 1
             o == [s.fmt[f] EXCEPT !.ref_count = c]
  <2>2. FormatRef(s, f) = [s EXCEPT !.fmt[f] = o]
    BY <1>1 DEF FormatRef
  <2>3. LiveFormat(o) /\ o.members = s.fmt[f].members /\ o.array_of = s.fmt[f].array_of
        /\ o.canonical_ns = s.fmt[f].canonical_ns /\ o.canonical_name = s.fmt[f].canonical_name
    <3>1. c \in Nat \ {0}
      BY <2>1 DEF LiveFormat
    <3> HIDE DEF c
    <3> QED BY <2>1, <3>1 DEF LiveFormat
  <2> HIDE DEF o
  <2>4. MembersSound(s, o) /\ LeadsTo(s, o, f)
    <3>1. MembersSound(s, s.fmt[f]) /\ LeadsTo(s, s.fmt[f], f)
      BY <1>1, <2>1 DEF Sound
    <3> QED BY <2>3, <3>1 DEF MembersSound, LeadsTo
  <2>5. FormatSet(s, FormatRef(s, f), f, o)
    BY <2>1, <2>2, <2>3, FormatSets
  <2> QED BY <2>1, <2>4, <2>5, FormatSetSound
<1>2. CASE ~(f # NULL /\ Alive(s.fmt[f]))
  <2>1. Crashed(s, FormatRef(s, f))
    BY <1>2, CrashIs DEF FormatRef, Sound
  <2> QED BY <2>1, CrashSound
<1> QED BY <1>1, <1>2

LEMMA NamespaceRefKeeps ==
  ASSUME NEW s, Sound(s), NEW n \in 1 .. SpaceCount(s)
  PROVE  Becomes(s, NamespaceRef(s, n))
<1>1. CASE Alive(s.ns[n])
  <2>1. LiveSpace(s.ns[n]) /\ Shape(s) /\ TreeSound(s, s.ns[n].by_name)
    BY <1>1, ShapeIs DEF Sound
  <2> DEFINE c == s.ns[n].ref_count + 1
             o == [s.ns[n] EXCEPT !.ref_count = c]
  <2>2. NamespaceRef(s, n) = [s EXCEPT !.ns[n] = o]
    BY <1>1 DEF NamespaceRef
  <2>3. LiveSpace(o) /\ o.by_name = s.ns[n].by_name
    <3>1. c \in Nat \ {0}
      BY <2>1 DEF LiveSpace
    <3> HIDE DEF c
    <3> QED BY <2>1, <3>1 DEF LiveSpace
  <2> HIDE DEF o
  <2>4. SpaceSet(s, NamespaceRef(s, n), n, o)
    BY <2>1, <2>2, <2>3, SpaceSets
  <2> QED BY <1>1, <2>1, <2>3, <2>4, SpaceSetSound DEF Kept
<1>2. CASE ~Alive(s.ns[n])
  <2>1. Crashed(s, NamespaceRef(s, n))
    BY <1>2, CrashIs DEF NamespaceRef, Sound
  <2> QED BY <2>1, CrashSound
<1> QED BY <1>1, <1>2

-----------------------------------------------------------------------------
(* A destructor of a namespace comes by every node once.                   *)

Enumerates(q, S) ==
  /\ q \in Seq(S)
  /\ \A z \in S : \E i \in 1 .. Len(q) : q[i] = z
  /\ \A i, j \in 1 .. Len(q) : q[i] = q[j] => i = j

LEMMA EnumeratesFew == /\ Enumerates(<<>>, {})
                       /\ \A x : Enumerates(<<x>>, {x})
<1>1. <<>> \in Seq({}) /\ Len(<<>>) = 0
  BY EmptySeq
<1>2. ASSUME NEW x PROVE <<x>> \in Seq({x}) /\ Len(<<x>>) = 1 /\ <<x>>[1] = x
  OBVIOUS
<1> QED BY <1>1, <1>2 DEF Enumerates

LEMMA EnumeratesBoth ==
  ASSUME NEW A, NEW B, A \cap B = {}, NEW a, NEW b, Enumerates(a, A), Enumerates(b, B)
  PROVE  Enumerates(a \o b, A \cup B)
<1> DEFINE S == A \cup B
           q == a \o b
<1>0. a \in Seq(A) /\ b \in Seq(B)
  BY DEF Enumerates
<1>1. /\ a \in Seq(S) /\ b \in Seq(S) /\ Len(a) \in Nat /\ Len(b) \in Nat
      /\ \A i \in 1 .. Len(a) : a[i] \in A
      /\ \A i \in 1 .. Len(b) : b[i] \in B
  <2>1. A \subseteq S /\ B \subseteq S
    OBVIOUS
  <2> HIDE DEF S
  <2>2. /\ Len(a) \in Nat /\ Len(b) \in Nat
        /\ \A i \in 1 .. Len(a) : a[i] \in A
        /\ \A i \in 1 .. Len(b) : b[i] \in B
    BY <1>0, LenProperties, ElementOfSeq
  <2> QED BY <1>0, <2>1, <2>2
<1> HIDE DEF S
<1>2. /\ q \in Seq(S) /\ Len(q) = Len(a) + Len(b)
      /\ \A i \in 1 .. Len(a) : q[i] = a[i]
      /\ \A i \in 1 .. Len(b) : q[Len(a) + i] = b[i]
      /\ \A i \in 1 .. Len(q) : ~(i <= Len(a)) => q[i] = b[i - Len(a)]
  <2>1. /\ q \in Seq(S) /\ Len(q) = Len(a) + Len(b)
        /\ \A i \in 1 .. Len(a) + Len(b) : q[i] = IF i <= Len(a) THEN a[i] ELSE b[i - Len(a)]
    BY <1>1, ConcatProperties
  <2> QED BY <1>1, <2>1
<1> HIDE DEF q
<1>3. ASSUME NEW z \in S PROVE \E i \in 1 .. Len(q) : q[i] = z
  <2>1. CASE z \in A
    <3>1. PICK i \in 1 .. Len(a) : a[i] = z
      BY <2>1 DEF Enumerates
    <3> QED BY <1>1, <1>2, <3>1
  <2>2. CASE z \in B
    <3>1. PICK i \in 1 .. Len(b) : b[i] = z
      BY <2>2 DEF Enumerates
    <3>2. Len(a) + i \in 1 .. Len(q) /\ q[Len(a) + i] = z
      BY <1>1, <1>2, <3>1
    <3> QED BY <3>2
  <2> QED BY <2>1, <2>2 DEF S
<1>4. ASSUME NEW i \in 1 .. Len(q)
      PROVE  \/ i \in 1 .. Len(a) /\ q[i] = a[i] /\ q[i] \in A
             \/ i - Len(a) \in 1 .. Len(b) /\ q[i] = b[i - Len(a)] /\ q[i] \in B
  <2>1. CASE i <= Len(a)
    BY <1>1, <1>2, <2>1
  <2>2. CASE ~(i <= Len(a))
    <3>1. i - Len(a) \in 1 .. Len(b)
      BY <1>1, <1>2, <2>2
    <3>2. q[i] = b[i - Len(a)]
      BY <1>1, <1>2, <2>2
    <3> QED BY <1>1, <3>1, <3>2
  <2> QED BY <2>1, <2>2
<1>5. ASSUME NEW i \in 1 .. Len(q), NEW j \in 1 .. Len(q), q[i] = q[j] PROVE i = j
  <2>1. CASE i \in 1 .. Len(a) /\ q[i] = a[i] /\ q[i] \in A
    <3>1. j \in 1 .. Len(a) /\ q[j] = a[j]
      BY <1>4, <1>5, <2>1
    <3> QED BY <1>5, <2>1, <3>1 DEF Enumerates
  <2>2. CASE i - Len(a) \in 1 .. Len(b) /\ q[i] = b[i - Len(a)] /\ q[i] \in B
    <3>1. j - Len(a) \in 1 .. Len(b) /\ q[j] = b[j - Len(a)]
      BY <1>4, <1>5, <2>2
    <3>2. i - Len(a) = j - Len(a)
      BY <1>5, <2>2, <3>1 DEF Enumerates
    <3>3. i \in Int /\ j \in Int /\ Len(a) \in Int
      BY <1>1, <1>2
    <3> QED BY <3>2, <3>3
  <2> QED BY <1>4, <2>1, <2>2
<1>6. Enumerates(q, S)
  BY <1>2, <1>3, <1>5 DEF Enumerates
<1> QED BY <1>6 DEF q, S

After(t, f, x) ==
  IF x = NULL THEN <<>> ELSE f[t.at[x].left] \o f[t.at[x].right] \o <<x>>

LEMMA PostOrderExists ==
  ASSUME NEW t, NEW below, NEW less, Search(t, below, less)
  PROVE  \E f : f = [x \in Places(t) |-> After(t, f, x)]
<1> DEFINE D(n) == {x \in Nodes(t) : Cardinality(below[x]) <= n} \cup {NULL}
           E(n, f) == f = [x \in D(n) |-> After(t, f, x)]
           N == Cardinality(Nodes(t))
           T == {n \in 0 .. N : \E f : E(n, f)}
<1>0. NULL \notin Nodes(t)
  BY DEF Search, IsTree
<1>1. N \in Nat /\ \A x \in Nodes(t) : Cardinality(below[x]) \in Nat /\ Cardinality(below[x]) <= N
  <2>1. N \in Nat
    BY FS_CardinalityType DEF Search, IsTree
  <2>2. \A x \in Nodes(t) : Cardinality(below[x]) \in Nat /\ Cardinality(below[x]) <= N
    BY BelowCounts
  <2> QED BY <2>1, <2>2
<1>2. ASSUME NEW x \in Nodes(t), NEW side \in Sides, NEW k, k = t.at[x][side], k # NULL
      PROVE  k \in Nodes(t) /\ Cardinality(below[k]) < Cardinality(below[x])
  <2>2. k \in Nodes(t) /\ below[k] \subseteq below[x] /\ x \notin below[k]
    BY <1>2, KidsApart
  <2> QED BY <2>2, BelowCounts
<1>3. 0 \in T
  <2>1. ASSUME NEW x \in D(0), x # NULL PROVE FALSE
    <3>1. Cardinality(below[x]) = 0 /\ x \in Nodes(t)
      BY <1>1, <2>1
    <3>2. x \in below[x] /\ below[x] \in SUBSET Nodes(t) /\ IsFiniteSet(Nodes(t))
      BY <3>1, KidIs DEF Sides, Search, IsTree
    <3>3. IsFiniteSet(below[x])
      BY <3>2, FS_Subset
    <3> QED BY <3>1, <3>2, <3>3, FS_EmptySet
  <2> DEFINE f == [x \in D(0) |-> <<>>]
  <2>2. f = [x \in D(0) |-> After(t, f, x)]
    <3> HIDE DEF D
    <3> QED BY <2>1 DEF After
  <2>3. E(0, f)
    BY <2>2
  <2> HIDE DEF E, f
  <2> QED BY <1>1, <2>3
<1>4. ASSUME NEW n \in 1 .. N, n - 1 \in T PROVE n \in T
  <2>1. PICK f : E(n - 1, f)
    BY <1>4
  <2> DEFINE h == [x \in D(n) |-> IF x \in D(n - 1) THEN f[x] ELSE After(t, f, x)]
             e == [x \in D(n) |-> After(t, h, x)]
  <2>2. ASSUME NEW x \in D(n), x # NULL, NEW side \in Sides, NEW k, k = t.at[x][side]
        PROVE  k \in D(n - 1) /\ k \in D(n)
    <3>1. CASE k # NULL
      <4>1. k \in Nodes(t) /\ Cardinality(below[k]) < Cardinality(below[x])
        BY <1>2, <2>2, <3>1
      <4> QED BY <1>1, <2>2, <4>1
    <3>2. CASE k = NULL
      BY <3>2
    <3> QED BY <3>1, <3>2
  <2>3. \A x \in D(n) : h[x] = IF x \in D(n - 1) THEN f[x] ELSE After(t, f, x)
    <3> HIDE DEF D
    <3> QED OBVIOUS
  <2>4. \A x \in D(n - 1) : f[x] = After(t, f, x)
    <3> HIDE DEF D
    <3> QED BY <2>1
  <2> HIDE DEF h, D
  <2>5. ASSUME NEW x \in D(n) PROVE h[x] = After(t, h, x)
    <3>1. h[x] = After(t, f, x)
      BY <2>3, <2>4
    <3>2. x # NULL => h[t.at[x].left] = f[t.at[x].left] /\ h[t.at[x].right] = f[t.at[x].right]
      <4>1. x # NULL => \A side \in Sides : t.at[x][side] \in D(n - 1) /\ t.at[x][side] \in D(n)
        BY <2>2
      <4>2. x # NULL => /\ t.at[x].left \in D(n - 1) /\ t.at[x].left \in D(n)
                        /\ t.at[x].right \in D(n - 1) /\ t.at[x].right \in D(n)
        BY <4>1 DEF Sides
      <4> QED BY <2>3, <4>2
    <3>3. After(t, f, x) = After(t, h, x)
      BY <3>2 DEF After
    <3> QED BY <3>1, <3>3
  <2>6. h = e
    <3>1. h = [x \in D(n) |-> h[x]]
      BY DEF h
    <3> QED BY <2>5, <3>1
  <2>7. E(n, h)
    BY <2>6
  <2> HIDE DEF E
  <2> QED BY <2>7
<1>5. N \in T
  <2>1. 0 .. N \subseteq T
    <3> HIDE DEF T, N
    <3> QED BY <1>1, <1>3, <1>4, IndexInduction
  <2> QED BY <1>1, <2>1
<1>6. D(N) = Places(t)
  BY <1>1 DEF Places
<1>7. PICK f : E(N, f)
  BY <1>5
<1> HIDE DEF D, N
<1> QED BY <1>6, <1>7

LEMMA PostOrderIs ==
  ASSUME NEW t, NEW less, Balanced(t, less)
  PROVE  Enumerates(PostOrder(t), Nodes(t))
<1>1. PICK below : Search(t, below, less)
  BY DEF Balanced
<1> DEFINE from == CHOOSE f : f = [x \in Nodes(t) \cup {NULL} |->
             IF x = NULL THEN <<>> ELSE f[t.at[x].left] \o f[t.at[x].right] \o <<x>>]
<1>2. PostOrder(t) = from[t.top]
  BY DEF PostOrder
<1>3. from = [x \in Places(t) |-> After(t, from, x)]
  <2>1. \E f : f = [x \in Nodes(t) \cup {NULL} |->
             IF x = NULL THEN <<>> ELSE f[t.at[x].left] \o f[t.at[x].right] \o <<x>>]
    BY <1>1, PostOrderExists DEF After, Places
  <2>2. from = [x \in Nodes(t) \cup {NULL} |->
             IF x = NULL THEN <<>> ELSE from[t.at[x].left] \o from[t.at[x].right] \o <<x>>]
    BY <2>1
  <2> HIDE DEF from
  <2> QED BY <2>2 DEF After, Places
<1> HIDE DEF from
<1>4. /\ NULL \notin Nodes(t) /\ t.top \in Places(t) /\ below[NULL] = {} /\ below[t.top] = Nodes(t)
  BY <1>1 DEF Search, IsTree, IsSearchTree
<1>5. Enumerates(from[NULL], below[NULL])
  BY <1>3, <1>4, EnumeratesFew DEF After, Places
<1> DEFINE T == {x \in Nodes(t) : Enumerates(from[x], below[x])}
<1>6. ASSUME NEW x \in Nodes(t), \A side \in Sides : t.at[x][side] # NULL => t.at[x][side] \in T
      PROVE  x \in T
  <2> DEFINE l == t.at[x].left
             r == t.at[x].right
  <2>1. Enumerates(from[l], below[l]) /\ Enumerates(from[r], below[r])
    BY <1>5, <1>6 DEF Sides
  <2>2. /\ below[x] = {x} \cup below[l] \cup below[r]
        /\ x \notin below[l] \cup below[r] /\ below[l] \cap below[r] = {}
    BY <1>1 DEF Search, IsSearchTree, Hangs
  <2>3. from[x] = from[l] \o from[r] \o <<x>>
    BY <1>3, <1>4 DEF After, Places
  <2> HIDE DEF l, r
  <2>4. Enumerates(from[l] \o from[r], below[l] \cup below[r])
    BY <2>1, <2>2, EnumeratesBoth
  <2>5. Enumerates(<<x>>, {x}) /\ (below[l] \cup below[r]) \cap {x} = {}
    BY <2>2, EnumeratesFew
  <2>6. Enumerates(from[l] \o from[r] \o <<x>>, (below[l] \cup below[r]) \cup {x})
    BY <2>4, <2>5, EnumeratesBoth
  <2>7. (below[l] \cup below[r]) \cup {x} = below[x]
    BY <2>2
  <2> QED BY <2>3, <2>6, <2>7
<1>7. Nodes(t) \subseteq T
  <2> HIDE DEF T
  <2> QED BY <1>1, <1>6, SubtreeInduction
<1>8. Enumerates(from[t.top], below[t.top])
  BY <1>4, <1>5, <1>7 DEF Places
<1> QED BY <1>2, <1>4, <1>8

-----------------------------------------------------------------------------
(* References that are given back.                                         *)

LEMMA ListTail ==
  ASSUME NEW q, IsList(q), q # <<>>
  PROVE  /\ IsList(Tail(q)) /\ Len(Tail(q)) = Len(q) - 1 /\ Len(q) \in Nat \ {0}
         /\ Head(q) = q[1] /\ 1 \in 1 .. Len(q)
         /\ \A i \in 1 .. Len(q) - 1 : Tail(q)[i] = q[i + 1] /\ i + 1 \in 1 .. Len(q)
<1>1. PICK S : q \in Seq(S)
  BY ListIs
<1>2. /\ Len(q) \in Nat \ {0} /\ Head(q) = q[1]
      /\ Tail(q) \in Seq(S) /\ Len(Tail(q)) = Len(q) - 1
      /\ \A i \in 1 .. Len(Tail(q)) : Tail(q)[i] = q[i + 1]
  <2>1. Len(q) \in Nat \ {0} /\ Head(q) = q[1]
    BY <1>1, EmptySeq, LenProperties
  <2>2. /\ Tail(q) \in Seq(S) /\ Len(Tail(q)) = Len(q) - 1
        /\ \A i \in 1 .. Len(Tail(q)) : Tail(q)[i] = q[i + 1]
    BY <1>1, HeadTailProperties
  <2> QED BY <2>1, <2>2
<1>3. IsList(Tail(q))
  BY <1>2, ListOfSeq
<1> QED BY <1>2, <1>3

LEMMA ListJoins ==
  ASSUME NEW a, IsList(a), NEW b, IsList(b)
  PROVE  /\ IsList(a \o b) /\ Len(a \o b) = Len(a) + Len(b) /\ Len(a) \in Nat /\ Len(b) \in Nat
         /\ \A i \in 1 .. Len(a) : (a \o b)[i] = a[i]
         /\ \A i \in 1 .. Len(b) : (a \o b)[Len(a) + i] = b[i]
         /\ \A i \in 1 .. Len(a \o b) : \/ i \in 1 .. Len(a) /\ (a \o b)[i] = a[i]
                                        \/ i - Len(a) \in 1 .. Len(b) /\ (a \o b)[i] = b[i - Len(a)]
<1>1. PICK A, B : a \in Seq(A) /\ b \in Seq(B)
  BY ListIs
<1> DEFINE S == A \cup B
<1>2. a \in Seq(S) /\ b \in Seq(S)
  BY <1>1
<1> HIDE DEF S
<1>3. /\ a \o b \in Seq(S) /\ Len(a \o b) = Len(a) + Len(b)
      /\ \A i \in 1 .. Len(a) + Len(b) : (a \o b)[i] = IF i <= Len(a) THEN a[i] ELSE b[i - Len(a)]
  BY <1>2, ConcatProperties
<1>4. Len(a) \in Nat /\ Len(b) \in Nat /\ IsList(a \o b)
  BY <1>2, <1>3, LenProperties, ListOfSeq
<1> DEFINE q == a \o b
<1>5. \A i \in 1 .. Len(a) : q[i] = a[i]
  BY <1>3, <1>4
<1>6. \A i \in 1 .. Len(b) : q[Len(a) + i] = b[i]
  BY <1>3, <1>4
<1>7. ASSUME NEW i \in 1 .. Len(q)
      PROVE  \/ i \in 1 .. Len(a) /\ q[i] = a[i]
             \/ i - Len(a) \in 1 .. Len(b) /\ q[i] = b[i - Len(a)]
  <2>1. i \in 1 .. Len(a) + Len(b) /\ q[i] = IF i <= Len(a) THEN a[i] ELSE b[i - Len(a)]
    BY <1>3
  <2> HIDE DEF q
  <2> QED BY <1>4, <2>1
<1> QED BY <1>3, <1>4, <1>5, <1>6, <1>7

Pending(s, e) == e = Entry("FORMAT", NULL) \/ Refers(s, e)
TodoSound(s, q) == IsList(q) /\ \A i \in 1 .. Len(q) : Pending(s, q[i])
OnlyFormats(q) == \A i \in 1 .. Len(q) : q[i].type = "FORMAT"
Object(s, e) == s[KindOf(e)][e.v]

LEMMA DroppedIs ==
  ASSUME NEW s, Sound(s), NEW e, Refers(s, e), Alive(Object(s, e))
  PROVE  /\ TodoSound(s, Dropped(s, e))
         /\ e.type = "FORMAT" =>
              /\ OnlyFormats(Dropped(s, e))
              /\ Len(Dropped(s, e)) = Len(s.fmt[e.v].members)
              /\ \A i \in 1 .. Len(s.fmt[e.v].members) :
                   Dropped(s, e)[i] = Entry("FORMAT", s.fmt[e.v].members[i])
         /\ e.type # "FORMAT" =>
              LET t == s.ns[e.v].by_name
                  order == PostOrder(t)
              IN /\ Enumerates(order, Nodes(t)) /\ Len(Dropped(s, e)) = Len(order)
                 /\ \A i \in 1 .. Len(order) : Dropped(s, e)[i] = t.at[order[i]].entry
<1>1. CASE e.type = "FORMAT"
  <2>1. e.v \in 1 .. FormatCount(s) /\ Object(s, e) = s.fmt[e.v]
    BY <1>1 DEF Refers, Entry, Object, KindOf
  <2> DEFINE m == s.fmt[e.v].members
             d == Dropped(s, e)
             S == {Entry("FORMAT", m[i]) : i \in 1 .. Len(m)}
  <2>2. IsList(m) /\ \A i \in 1 .. Len(m) : m[i] \in 1 .. FormatCount(s) \cup {NULL}
    BY <2>1 DEF Sound, MembersSound
  <2>3. DOMAIN m = 1 .. Len(m) /\ Len(m) \in Nat
    BY <2>2, ListIs
  <2>4. d = [i \in 1 .. Len(m) |-> Entry("FORMAT", m[i])]
    BY <1>1, <2>3 DEF Dropped
  <2> HIDE DEF m, d
  <2>5. d \in [1 .. Len(m) -> S]
    BY <2>4
  <2> HIDE DEF S
  <2>6. d \in Seq(S) /\ Len(d) = Len(m)
    BY <2>3, <2>5, FunctionIsSeq
  <2>7. \A i \in 1 .. Len(m) : d[i] = Entry("FORMAT", m[i])
    BY <2>4
  <2>8. TodoSound(s, d) /\ OnlyFormats(d)
    <3>1. IsList(d)
      BY <2>6, ListOfSeq
    <3>2. ASSUME NEW i \in 1 .. Len(d) PROVE Pending(s, d[i]) /\ d[i].type = "FORMAT"
      BY <2>2, <2>6, <2>7, NumbersAre DEF Pending, Refers
    <3> QED BY <3>1, <3>2 DEF TodoSound, OnlyFormats
  <2> QED BY <1>1, <2>6, <2>7, <2>8 DEF m, d
<1>2. CASE e.type # "FORMAT"
  <2>1. e.v \in 1 .. SpaceCount(s) /\ Object(s, e) = s.ns[e.v]
    BY <1>2, NumbersAre DEF Refers, Object, KindOf
  <2> DEFINE t == s.ns[e.v].by_name
             order == PostOrder(t)
             d == Dropped(s, e)
             S == {t.at[order[i]].entry : i \in 1 .. Len(order)}
  <2>2. TreeSound(s, t)
    BY <2>1 DEF Sound
  <2>3. Enumerates(order, Nodes(t))
    BY <2>2, PostOrderIs DEF TreeSound, Tidy
  <2>4. /\ order \in Seq(Nodes(t)) /\ Len(order) \in Nat /\ DOMAIN order = 1 .. Len(order)
        /\ \A i \in 1 .. Len(order) : order[i] \in Nodes(t)
    BY <2>3, LenProperties, ElementOfSeq DEF Enumerates
  <2>5. d = [i \in 1 .. Len(order) |-> t.at[order[i]].entry]
    BY <1>2, <2>4 DEF Dropped
  <2> HIDE DEF t, d, order
  <2>6. d \in [1 .. Len(order) -> S]
    BY <2>5
  <2> HIDE DEF S
  <2>7. d \in Seq(S) /\ Len(d) = Len(order)
    BY <2>4, <2>6, FunctionIsSeq
  <2>8. \A i \in 1 .. Len(order) : d[i] = t.at[order[i]].entry
    BY <2>5
  <2>9. TodoSound(s, d)
    <3>1. IsList(d)
      BY <2>7, ListOfSeq
    <3>2. ASSUME NEW i \in 1 .. Len(d) PROVE Pending(s, d[i])
      BY <2>2, <2>4, <2>7, <2>8 DEF Pending, TreeSound
    <3> QED BY <3>1, <3>2 DEF TodoSound
  <2> QED BY <1>2, <2>3, <2>7, <2>8, <2>9 DEF t, d, order
<1> QED BY <1>1, <1>2

(* What a call leaves alone that is about formats only.                    *)
SpacesKept(s, u) == u.ns = s.ns
UnrefResult(r, u) ==
  /\ Becomes(r.s, u.s) /\ TodoSound(u.s, u.todo)
  /\ OnlyFormats(r.todo) => SpacesKept(r.s, u.s) /\ OnlyFormats(u.todo)

(* An unref that leaves or destroys the object: o is what is left of it.   *)
LEMMA SetObject ==
  ASSUME NEW s, Sound(s), NEW e, Refers(s, e), NEW o,
         \/ o = Freed
         \/ \E c \in Nat \ {0} : o = [Object(s, e) EXCEPT !.ref_count = c],
         Alive(Object(s, e)),
         NEW u, u = [s EXCEPT ![KindOf(e)][e.v] = o]
  PROVE  /\ Becomes(s, u) /\ SameRest(s, u) /\ Object(u, e) = o
         /\ e.type = "FORMAT" => e.v \in 1 .. FormatCount(s) /\ FormatSet(s, u, e.v, o)
         /\ e.type # "FORMAT" => e.v \in 1 .. SpaceCount(s) /\ SpaceSet(s, u, e.v, o)
<1>0. Shape(s) /\ ~Alive(Freed)
  BY DEF Sound, Alive, Freed
<1>1. CASE e.type = "FORMAT"
  <2>1. /\ e.v \in 1 .. FormatCount(s) /\ KindOf(e) = "fmt" /\ \A x : Object(x, e) = x.fmt[e.v]
    BY <1>1 DEF Refers, Entry, Object, KindOf
  <2>2. LiveFormat(s.fmt[e.v]) /\ MembersSound(s, s.fmt[e.v]) /\ LeadsTo(s, s.fmt[e.v], e.v)
    BY <1>0, <2>1, ShapeIs DEF Sound
  <2>3. o = Freed \/ (/\ LiveFormat(o) /\ o.members = s.fmt[e.v].members
                      /\ o.array_of = s.fmt[e.v].array_of
                      /\ o.canonical_ns = s.fmt[e.v].canonical_ns
                      /\ o.canonical_name = s.fmt[e.v].canonical_name)
    <3>1. ASSUME NEW c \in Nat \ {0}, o = [s.fmt[e.v] EXCEPT !.ref_count = c]
          PROVE  /\ LiveFormat(o) /\ o.members = s.fmt[e.v].members
                 /\ o.array_of = s.fmt[e.v].array_of
                 /\ o.canonical_ns = s.fmt[e.v].canonical_ns
                 /\ o.canonical_name = s.fmt[e.v].canonical_name
      BY <2>2, <3>1 DEF LiveFormat
    <3> QED BY <2>1, <3>1
  <2>4. FormatSet(s, u, e.v, o)
    <3>1. u = [s EXCEPT !.fmt[e.v] = o]
      BY <2>1
    <3> QED BY <1>0, <2>1, <2>3, <3>1, FormatSets
  <2>5. Alive(o) => MembersSound(s, o) /\ LeadsTo(s, o, e.v)
    BY <1>0, <2>2, <2>3 DEF MembersSound, LeadsTo
  <2>6. Becomes(s, u)
    BY <2>1, <2>4, <2>5, FormatSetSound
  <2> QED BY <1>1, <2>1, <2>4, <2>6 DEF FormatSet
<1>2. CASE e.type # "FORMAT"
  <2>1. /\ e.v \in 1 .. SpaceCount(s) /\ KindOf(e) = "ns" /\ \A x : Object(x, e) = x.ns[e.v]
    BY <1>2, NumbersAre DEF Refers, Object, KindOf
  <2>2. LiveSpace(s.ns[e.v]) /\ TreeSound(s, s.ns[e.v].by_name)
    BY <1>0, <2>1, ShapeIs DEF Sound
  <2>3. o = Freed \/ (LiveSpace(o) /\ o.by_name = s.ns[e.v].by_name)
    <3>1. ASSUME NEW c \in Nat \ {0}, o = [s.ns[e.v] EXCEPT !.ref_count = c]
          PROVE  LiveSpace(o) /\ o.by_name = s.ns[e.v].by_name
      BY <2>2, <3>1 DEF LiveSpace
    <3> QED BY <2>1, <3>1
  <2>4. SpaceSet(s, u, e.v, o)
    <3>1. u = [s EXCEPT !.ns[e.v] = o]
      BY <2>1
    <3> QED BY <1>0, <2>1, <2>3, <3>1, SpaceSets
  <2>5. Alive(o) => TreeSound(s, o.by_name) /\ Kept(s.ns[e.v].by_name, o.by_name)
    BY <1>0, <2>2, <2>3 DEF Kept
  <2>6. Becomes(s, u)
    BY <2>1, <2>4, <2>5, SpaceSetSound
  <2> QED BY <1>2, <2>1, <2>4, <2>6 DEF SpaceSet
<1> QED BY <1>1, <1>2

LEMMA PendingStays ==
  ASSUME NEW s, Sound(s), NEW u, Becomes(s, u)
  PROVE  /\ \A e : Pending(s, e) => Pending(u, e)
         /\ \A q : TodoSound(s, q) => TodoSound(u, q)
<1>1. /\ SpaceCount(s) \in Nat /\ FormatCount(s) \in Nat
      /\ SpaceCount(u) \in Nat /\ FormatCount(u) \in Nat
      /\ SpaceCount(s) <= SpaceCount(u) /\ FormatCount(s) <= FormatCount(u)
  BY ShapeIs DEF Sound, Becomes, Evolves
<1>2. 1 .. SpaceCount(s) \subseteq 1 .. SpaceCount(u) /\ 1 .. FormatCount(s) \subseteq 1 .. FormatCount(u)
  BY <1>1
<1>3. \A e : Pending(s, e) => Pending(u, e)
  BY <1>2 DEF Pending, Refers
<1> QED BY <1>3 DEF TodoSound

(* What an unref does, by its three cases.                                 *)
UnrefCrashes(r, e) == e.v = NULL \/ Object(r.s, e).ref_count = 0
UnrefFrees(r, e) == ~UnrefCrashes(r, e) /\ ~(Object(r.s, e).ref_count > 1)
UnrefIs(r, u) ==
  LET e == Head(r.todo)
      c == Object(r.s, e).ref_count
  IN /\ UnrefCrashes(r, e) => u = [s |-> Crash(r.s), todo |-> <<>>]
     /\ ~UnrefCrashes(r, e) =>
          /\ Refers(r.s, e) /\ c \in Nat \ {0} /\ Alive(Object(r.s, e))
          /\ c > 1 => u = [s |-> [r.s EXCEPT ![KindOf(e)][e.v] =
                                    [Object(r.s, e) EXCEPT !.ref_count = c - 1]],
                           todo |-> Tail(r.todo)]
          /\ ~(c > 1) => c = 1 /\ u = [s |-> [r.s EXCEPT ![KindOf(e)][e.v] = Freed],
                                       todo |-> Dropped(r.s, e) \o Tail(r.todo)]

LEMMA UnrefDoes ==
  ASSUME NEW r, Sound(r.s), TodoSound(r.s, r.todo), r.todo # <<>>
  PROVE  UnrefIs(r, Unref(r))
<1> DEFINE e == Head(r.todo)
           c == Object(r.s, e).ref_count
<1>1. Pending(r.s, e)
  BY ListTail DEF TodoSound
<1>2. Unref(r) = IF e.v = NULL \/ c = 0 THEN [s |-> Crash(r.s), todo |-> <<>>]
     ELSE IF c > 1
     THEN [s |-> [r.s EXCEPT ![KindOf(e)][e.v].ref_count = c - 1], todo |-> Tail(r.todo)]
     ELSE [s |-> [r.s EXCEPT ![KindOf(e)][e.v] = Freed],
           todo |-> Dropped(r.s, e) \o Tail(r.todo)]
  BY DEF Unref, Object
<1> HIDE DEF e
<1>3. ASSUME ~UnrefCrashes(r, e)
      PROVE  Refers(r.s, e) /\ c \in Nat \ {0} /\ Alive(Object(r.s, e))
  <2>1. Refers(r.s, e)
    <3>1. e.v # NULL
      BY <1>3 DEF UnrefCrashes
    <3> QED BY <1>1, <3>1, NumbersAre DEF Pending
  <2>2. c \in Nat
    <3>1. CASE e.type = "FORMAT"
      <4>1. e.v \in 1 .. FormatCount(r.s) /\ Object(r.s, e) = r.s.fmt[e.v]
        BY <2>1, <3>1, NumbersAre DEF Refers, Object, KindOf
      <4> QED BY <4>1, ShapeIs DEF Sound
    <3>2. CASE e.type # "FORMAT"
      <4>1. e.v \in 1 .. SpaceCount(r.s) /\ Object(r.s, e) = r.s.ns[e.v]
        BY <2>1, <3>2, NumbersAre DEF Refers, Object, KindOf
      <4> QED BY <4>1, ShapeIs DEF Sound
    <3> QED BY <3>1, <3>2
  <2>3. c # 0
    BY <1>3 DEF UnrefCrashes
  <2> QED BY <2>1, <2>2, <2>3 DEF Alive
<1>4. [r.s EXCEPT ![KindOf(e)][e.v].ref_count = c - 1]
        = [r.s EXCEPT ![KindOf(e)][e.v] = [Object(r.s, e) EXCEPT !.ref_count = c - 1]]
  BY DEF Object
<1> HIDE DEF c
<1>5. ~UnrefCrashes(r, e) /\ ~(c > 1) => c = 1
  BY <1>3
<1> QED BY <1>2, <1>3, <1>4, <1>5 DEF UnrefIs, UnrefCrashes, e, c

LEMMA UnrefKeeps ==
  ASSUME NEW r, Sound(r.s), TodoSound(r.s, r.todo), r.todo # <<>>, NEW u, u = Unref(r)
  PROVE  UnrefResult(r, u)
<1> DEFINE e == Head(r.todo)
           c == Object(r.s, e).ref_count
<1>1. UnrefIs(r, u)
  BY UnrefDoes
<1>2. CASE UnrefCrashes(r, e)
  <2>1. u.s = Crash(r.s) /\ u.todo = <<>>
    BY <1>1, <1>2 DEF UnrefIs
  <2>2. Crashed(r.s, u.s)
    BY <2>1, CrashIs DEF Sound
  <2>3. TodoSound(u.s, u.todo) /\ OnlyFormats(u.todo)
    <3>1. IsList(<<>>) /\ Len(<<>>) = 0
      BY EmptySeq, ListOfSeq
    <3> QED BY <2>1, <3>1 DEF TodoSound, OnlyFormats
  <2>4. Becomes(r.s, u.s)
    BY <2>2, CrashSound
  <2> QED BY <2>2, <2>3, <2>4 DEF UnrefResult, SpacesKept, Crashed
<1>3. CASE ~UnrefCrashes(r, e)
  <2>1. Refers(r.s, e) /\ c \in Nat \ {0} /\ Alive(Object(r.s, e))
    BY <1>1, <1>3 DEF UnrefIs
  <2>2. /\ IsList(Tail(r.todo)) /\ TodoSound(r.s, Tail(r.todo)) /\ e = r.todo[1]
        /\ 1 \in 1 .. Len(r.todo)
        /\ OnlyFormats(r.todo) => OnlyFormats(Tail(r.todo)) /\ e.type = "FORMAT"
    <3>1. /\ IsList(Tail(r.todo)) /\ Len(Tail(r.todo)) = Len(r.todo) - 1
          /\ Head(r.todo) = r.todo[1] /\ 1 \in 1 .. Len(r.todo)
          /\ \A i \in 1 .. Len(r.todo) - 1 : Tail(r.todo)[i] = r.todo[i + 1] /\ i + 1 \in 1 .. Len(r.todo)
      BY ListTail DEF TodoSound
    <3>2. \A i \in 1 .. Len(r.todo) - 1 : Pending(r.s, Tail(r.todo)[i])
      BY <3>1 DEF TodoSound
    <3> QED BY <3>1, <3>2 DEF TodoSound, OnlyFormats
  <2>3. ASSUME NEW o, NEW v, u.s = v, v = [r.s EXCEPT ![KindOf(e)][e.v] = o],
               \/ o = Freed
               \/ \E d \in Nat \ {0} : o = [Object(r.s, e) EXCEPT !.ref_count = d],
               TodoSound(r.s, u.todo), OnlyFormats(r.todo) => OnlyFormats(u.todo)
        PROVE  UnrefResult(r, u)
    <3> HIDE DEF e
    <3>1. /\ Becomes(r.s, v)
          /\ e.type = "FORMAT" => FormatSet(r.s, v, e.v, o)
      BY <2>1, <2>3, SetObject
    <3>2. TodoSound(v, u.todo)
      BY <2>3, <3>1, PendingStays
    <3>3. OnlyFormats(r.todo) => SpacesKept(r.s, v)
      BY <2>2, <3>1 DEF FormatSet, SpacesKept
    <3> QED BY <2>3, <3>1, <3>2, <3>3 DEF UnrefResult
  <2>4. CASE c > 1
    <3>1. u = [s |-> [r.s EXCEPT ![KindOf(e)][e.v] = [Object(r.s, e) EXCEPT !.ref_count = c - 1]],
               todo |-> Tail(r.todo)]
      BY <1>1, <1>3, <2>4 DEF UnrefIs
    <3>2. c - 1 \in Nat \ {0}
      BY <2>1, <2>4
    <3> DEFINE o == [Object(r.s, e) EXCEPT !.ref_count = c - 1]
               v == [r.s EXCEPT ![KindOf(e)][e.v] = o]
    <3>3. u.s = v /\ u.todo = Tail(r.todo)
      BY <3>1
    <3>4. \E d \in Nat \ {0} : o = [Object(r.s, e) EXCEPT !.ref_count = d]
      BY <3>2
    <3>5. v = [r.s EXCEPT ![KindOf(e)][e.v] = o]
      OBVIOUS
    <3> HIDE DEF e, c, o, v
    <3> QED BY <2>2, <2>3, <3>3, <3>4, <3>5
  <2>5. CASE ~(c > 1)
    <3>1. u = [s |-> [r.s EXCEPT ![KindOf(e)][e.v] = Freed],
               todo |-> Dropped(r.s, e) \o Tail(r.todo)]
      BY <1>1, <1>3, <2>5 DEF UnrefIs
    <3> HIDE DEF e, c
    <3> DEFINE d == Dropped(r.s, e)
               a == Tail(r.todo)
    <3>8. u.todo = d \o a /\ u.s = [r.s EXCEPT ![KindOf(e)][e.v] = Freed]
      <4> DEFINE x == [r.s EXCEPT ![KindOf(e)][e.v] = Freed]
                 y == d \o a
      <4>1. u = [s |-> x, todo |-> y]
        BY <3>1
      <4> HIDE DEF x, y
      <4>2. u.s = x /\ u.todo = y
        BY <4>1
      <4> QED BY <4>2 DEF x, y
    <3>2. TodoSound(r.s, d) /\ (e.type = "FORMAT" => OnlyFormats(d))
      BY <2>1, DroppedIs
    <3>3. TodoSound(r.s, a)
      BY <2>2
    <3>4. OnlyFormats(r.todo) => OnlyFormats(d) /\ OnlyFormats(a)
      BY <2>2, <3>2
    <3> HIDE DEF d, a
    <3>5. /\ IsList(d \o a)
          /\ \A i \in 1 .. Len(d \o a) : \/ i \in 1 .. Len(d) /\ (d \o a)[i] = d[i]
                                         \/ i - Len(d) \in 1 .. Len(a) /\ (d \o a)[i] = a[i - Len(d)]
      BY <3>2, <3>3, ListJoins DEF TodoSound
    <3>6. TodoSound(r.s, d \o a)
      <4> DEFINE q == d \o a
      <4>1. ASSUME NEW i \in 1 .. Len(q) PROVE Pending(r.s, q[i])
        <5> HIDE DEF q
        <5>1. \/ i \in 1 .. Len(d) /\ q[i] = d[i]
              \/ i - Len(d) \in 1 .. Len(a) /\ q[i] = a[i - Len(d)]
          BY <3>5 DEF q
        <5> QED BY <3>2, <3>3, <5>1 DEF TodoSound
      <4> QED BY <3>5, <4>1 DEF TodoSound
    <3>7. OnlyFormats(d) /\ OnlyFormats(a) => OnlyFormats(d \o a)
      <4> DEFINE q == d \o a
      <4>1. ASSUME NEW i \in 1 .. Len(q), OnlyFormats(d), OnlyFormats(a) PROVE q[i].type = "FORMAT"
        <5> HIDE DEF q
        <5>1. \/ i \in 1 .. Len(d) /\ q[i] = d[i]
              \/ i - Len(d) \in 1 .. Len(a) /\ q[i] = a[i - Len(d)]
          BY <3>5 DEF q
        <5> QED BY <4>1, <5>1 DEF OnlyFormats
      <4> QED BY <4>1 DEF OnlyFormats
    <3> QED BY <2>3, <3>4, <3>6, <3>7, <3>8
  <2> QED BY <2>4, <2>5
<1> QED BY <1>2, <1>3

(* What refers to something: the pairs of a number and a place in the      *)
(* object with that number.                                                *)
Slots(v, I) == {<<v, i>> : i \in I}
SlotsIn(F, L) == UNION {Slots(v, F[v]) : v \in L}

LEMMA SlotsAre ==
  /\ \A v, I : IsFiniteSet(I) => /\ IsFiniteSet(Slots(v, I))
                                 /\ Cardinality(Slots(v, I)) = Cardinality(I)
  /\ \A v, I, r : r \in Slots(v, I) <=> \E i \in I : r = <<v, i>>
<1>1. ASSUME NEW v, NEW I, IsFiniteSet(I)
      PROVE  IsFiniteSet(Slots(v, I)) /\ Cardinality(Slots(v, I)) = Cardinality(I)
  <2> DEFINE f == [i \in I |-> <<v, i>>]
  <2>1. f \in Bijection(I, Slots(v, I))
    <3>1. f \in [I -> Slots(v, I)] /\ \A i \in I : f[i] = <<v, i>>
      BY DEF Slots
    <3>2. \A i, j \in I : f[i] = f[j] => i = j
      BY <3>1
    <3>3. \A r \in Slots(v, I) : \E i \in I : f[i] = r
      BY <3>1 DEF Slots
    <3> HIDE DEF f
    <3> QED BY <3>1, <3>2, <3>3 DEF Bijection, Injection, Surjection, IsInjective
  <2> HIDE DEF f
  <2>2. ExistsBijection(I, Slots(v, I))
    BY <2>1 DEF ExistsBijection
  <2> QED BY <1>1, <2>2, FS_Bijection
<1>2. \A v, I, r : r \in Slots(v, I) <=> \E i \in I : r = <<v, i>>
  BY DEF Slots
<1> QED BY <1>1, <1>2

LEMMA SlotsFinite ==
  ASSUME NEW L, IsFiniteSet(L), NEW F, \A v \in L : IsFiniteSet(F[v])
  PROVE  IsFiniteSet(SlotsIn(F, L))
<1> DEFINE S == {Slots(v, F[v]) : v \in L}
           f == [v \in L |-> Slots(v, F[v])]
<1>1. f \in Surjection(L, S)
  <2>1. f \in [L -> S] /\ \A t \in S : \E v \in L : f[v] = t
    OBVIOUS
  <2> HIDE DEF f, S
  <2> QED BY <2>1 DEF Surjection
<1>2. \A t \in S : IsFiniteSet(t)
  BY SlotsAre
<1> HIDE DEF f, S
<1>3. IsFiniteSet(S)
  BY <1>1, FS_Surjection
<1>4. IsFiniteSet(UNION S)
  BY <1>2, <1>3, FS_UNION
<1> QED BY <1>4 DEF S, SlotsIn

LEMMA ReferencesCounted ==
  ASSUME NEW s, Sound(s)
  PROVE  /\ IsFiniteSet(Members(s)) /\ IsFiniteSet(Listed(s))
         /\ Cardinality(Members(s)) \in Nat /\ Cardinality(Listed(s)) \in Nat
         /\ \A f \in LiveFormats(s) : /\ DOMAIN s.fmt[f].members = 1 .. Len(s.fmt[f].members)
                                      /\ Len(s.fmt[f].members) \in Nat
         /\ \A n \in LiveSpaces(s) : IsFiniteSet(Nodes(s.ns[n].by_name))
<1>1. /\ LiveSpaces(s) = {n \in 1 .. SpaceCount(s) : Alive(s.ns[n])}
      /\ LiveFormats(s) = {f \in 1 .. FormatCount(s) : Alive(s.fmt[f])}
      /\ SpaceCount(s) \in Nat /\ FormatCount(s) \in Nat
  BY ShapeIs DEF Sound
<1>2. IsFiniteSet(LiveSpaces(s)) /\ IsFiniteSet(LiveFormats(s))
  <2>1. IsFiniteSet(1 .. SpaceCount(s)) /\ IsFiniteSet(1 .. FormatCount(s))
    BY <1>1, FS_Interval
  <2>2. LiveSpaces(s) \in SUBSET (1 .. SpaceCount(s)) /\ LiveFormats(s) \in SUBSET (1 .. FormatCount(s))
    BY <1>1
  <2> QED BY <2>1, <2>2, FS_Subset
<1>3. ASSUME NEW f \in LiveFormats(s)
      PROVE  /\ DOMAIN s.fmt[f].members = 1 .. Len(s.fmt[f].members)
             /\ Len(s.fmt[f].members) \in Nat
             /\ IsFiniteSet(DOMAIN s.fmt[f].members)
  <2>1. IsList(s.fmt[f].members)
    BY <1>1, <1>3 DEF Sound, MembersSound
  <2>2. DOMAIN s.fmt[f].members = 1 .. Len(s.fmt[f].members) /\ Len(s.fmt[f].members) \in Nat
    BY <2>1, ListIs
  <2> QED BY <2>2, FS_Interval
<1>4. ASSUME NEW n \in LiveSpaces(s) PROVE IsFiniteSet(Nodes(s.ns[n].by_name))
  <2>1. Balanced(s.ns[n].by_name, NodesInOrder)
    BY <1>1 DEF Sound, TreeSound, Tidy
  <2> QED BY <2>1 DEF Balanced, Search, IsTree
<1> DEFINE F == [f \in LiveFormats(s) |-> DOMAIN s.fmt[f].members]
           G == [n \in LiveSpaces(s) |-> Nodes(s.ns[n].by_name)]
<1>5. Members(s) = SlotsIn(F, LiveFormats(s)) /\ Listed(s) = SlotsIn(G, LiveSpaces(s))
  BY DEF Members, Listed, SlotsIn, Slots
<1>6. \A f \in LiveFormats(s) : IsFiniteSet(F[f])
  BY <1>3
<1>7. \A n \in LiveSpaces(s) : IsFiniteSet(G[n])
  BY <1>4
<1> HIDE DEF F, G
<1>8. IsFiniteSet(Members(s)) /\ IsFiniteSet(Listed(s))
  BY <1>2, <1>5, <1>6, <1>7, SlotsFinite
<1> QED BY <1>3, <1>4, <1>8, FS_CardinalityType

(* The unrefs of a call one after the other: g[i] is what is so after i.   *)
Unrefs(g, s, e, max) ==
  /\ max = 1 + Cardinality(Members(s)) + Cardinality(Listed(s)) /\ max \in Nat
  /\ g[0].s = s /\ g[0].todo = <<e>>
  /\ \A i \in 1 .. max : g[i] = IF g[i - 1].todo = <<>> THEN g[i - 1] ELSE Unref(g[i - 1])
  /\ GiveBack(s, e) = g[max].s

LEMMA GiveBackUnrefs ==
  ASSUME NEW s, Sound(s), NEW e
  PROVE  \E g, max : Unrefs(g, s, e, max)
<1> DEFINE max == 1 + Cardinality(Members(s)) + Cardinality(Listed(s))
           b == [s |-> s, todo |-> <<e>>]
           after == CHOOSE after : after = [n \in 0 .. max |->
             IF n = 0 THEN b
             ELSE LET last == after[n - 1] IN IF last.todo = <<>> THEN last ELSE Unref(last)]
<1>1. GiveBack(s, e) = after[max].s
  BY DEF GiveBack
<1>2. max \in Nat
  BY ReferencesCounted
<1>3. PICK g : Steps(g, "give back", NULL, NULL, NULL, NULL, b, max)
  <2> HIDE DEF max, b
  <2> QED BY <1>2, StepsExist
<1>4. g = [n \in 0 .. max |->
             IF n = 0 THEN b
             ELSE LET last == g[n - 1] IN IF last.todo = <<>> THEN last ELSE Unref(last)]
  <2> HIDE DEF max, b
  <2> QED BY <1>3 DEF Steps, Step
<1>5. after = [n \in 0 .. max |->
             IF n = 0 THEN b
             ELSE LET last == after[n - 1] IN IF last.todo = <<>> THEN last ELSE Unref(last)]
  <2> HIDE DEF max, b
  <2> QED BY <1>4
<1> HIDE DEF after, max
<1>6. Unrefs(after, s, e, max)
  <2>1. after[0] = b
    BY <1>2, <1>5
  <2>2. \A i \in 1 .. max : after[i] = IF after[i - 1].todo = <<>> THEN after[i - 1] ELSE Unref(after[i - 1])
    <3> TAKE i \in 1 .. max
    <3>1. i \in 0 .. max /\ i # 0
      BY <1>2
    <3> HIDE DEF b
    <3> QED BY <1>5, <3>1
  <2> QED BY <1>1, <1>2, <2>1, <2>2 DEF Unrefs, max
<1> QED BY <1>6

GivenBack(s, e, r) ==
  /\ Becomes(s, r.s) /\ TodoSound(r.s, r.todo)
  /\ e.type = "FORMAT" => SpacesKept(s, r.s) /\ OnlyFormats(r.todo)

LEMMA UnrefsKeep ==
  ASSUME NEW s, Sound(s), NEW e, Refers(s, e) \/ e = Entry("FORMAT", NULL),
         NEW g, NEW max, Unrefs(g, s, e, max)
  PROVE  \A i \in 0 .. max : GivenBack(s, e, g[i])
<1> DEFINE T == {i \in 0 .. max : GivenBack(s, e, g[i])}
<1>0. max \in Nat
  BY DEF Unrefs
<1>1. 0 \in T
  <2>1. IsList(<<e>>) /\ Len(<<e>>) = 1 /\ <<e>>[1] = e
    <3>1. <<e>> \in Seq({e})
      OBVIOUS
    <3> QED BY <3>1, ListOfSeq
  <2>2. TodoSound(s, <<e>>) /\ (e.type = "FORMAT" => OnlyFormats(<<e>>))
    BY <2>1 DEF TodoSound, OnlyFormats, Pending
  <2>3. Becomes(s, s)
    BY EvolvesIs DEF Becomes
  <2>4. GivenBack(s, e, g[0])
    BY <2>2, <2>3 DEF Unrefs, GivenBack, SpacesKept
  <2> QED BY <1>0, <2>4
<1>2. ASSUME NEW i \in 1 .. max, i - 1 \in T PROVE i \in T
  <2>1. CASE g[i - 1].todo = <<>>
    BY <1>2, <2>1 DEF Unrefs
  <2>2. CASE g[i - 1].todo # <<>>
    <3> DEFINE r == g[i - 1]
               u == g[i]
    <3>1. u = Unref(r)
      BY <2>2 DEF Unrefs
    <3>2. GivenBack(s, e, r) /\ r.todo # <<>>
      BY <1>2, <2>2
    <3> HIDE DEF r, u
    <3>3. UnrefResult(r, u)
      BY <3>1, <3>2, UnrefKeeps DEF GivenBack, Becomes
    <3>4. Becomes(s, u.s)
      BY <3>2, <3>3, EvolvesIs DEF GivenBack, UnrefResult, Becomes
    <3>5. GivenBack(s, e, u)
      BY <3>2, <3>3, <3>4 DEF GivenBack, UnrefResult, SpacesKept
    <3> QED BY <3>5 DEF u
  <2> QED BY <2>1, <2>2
<1>3. 0 .. max \subseteq T
  <2> HIDE DEF T
  <2> QED BY <1>0, <1>1, <1>2, IndexInduction
<1> QED BY <1>3

LEMMA GiveBackKeeps ==
  ASSUME NEW s, Sound(s), NEW e, Refers(s, e) \/ e = Entry("FORMAT", NULL)
  PROVE  /\ Becomes(s, GiveBack(s, e))
         /\ e.type = "FORMAT" => SpacesKept(s, GiveBack(s, e))
<1>1. PICK g, max : Unrefs(g, s, e, max)
  BY GiveBackUnrefs
<1>2. max \in Nat /\ GiveBack(s, e) = g[max].s
  BY <1>1 DEF Unrefs
<1>3. GivenBack(s, e, g[max])
  BY <1>1, <1>2, UnrefsKeep
<1> QED BY <1>2, <1>3 DEF GivenBack

-----------------------------------------------------------------------------
(* Formats are made.                                                       *)

(* The references to the members are taken one after the other.            *)
Takes(g, s, members, max) ==
  /\ max = Len(members) /\ g[0] = s
  /\ \A i \in 1 .. max :
       g[i] = IF members[i] = NULL THEN g[i - 1] ELSE FormatRef(g[i - 1], members[i])
NewObject(type, members) ==
  [ref_count |-> 1, type |-> type, members |-> members, canonical_ns |-> NULL,
   canonical_name |-> NULL, array_of |-> NULL, element |-> NULL]

LEMMA NewFormatTakes ==
  ASSUME NEW s, NEW type, NEW members, IsList(members)
  PROVE  \E g : /\ Takes(g, s, members, Len(members))
                /\ NewFormat(s, type, members)
                     = [g[Len(members)] EXCEPT !.fmt = Append(@, NewObject(type, members))]
<1> DEFINE max == Len(members)
           taken == CHOOSE taken : taken = [i \in 0 .. max |->
             IF i = 0 THEN s
             ELSE IF members[i] = NULL THEN taken[i - 1]
             ELSE FormatRef(taken[i - 1], members[i])]
<1>1. NewFormat(s, type, members)
        = [taken[max] EXCEPT !.fmt = Append(@, NewObject(type, members))]
  BY DEF NewFormat, NewObject
<1>2. max \in Nat
  BY ListIs
<1> HIDE DEF max
<1>3. PICK g : Steps(g, "take", members, NULL, NULL, NULL, s, max)
  BY <1>2, StepsExist
<1>4. g = [i \in 0 .. max |->
             IF i = 0 THEN s
             ELSE IF members[i] = NULL THEN g[i - 1]
             ELSE FormatRef(g[i - 1], members[i])]
  BY <1>3 DEF Steps, Step
<1>5. taken = [i \in 0 .. max |->
             IF i = 0 THEN s
             ELSE IF members[i] = NULL THEN taken[i - 1]
             ELSE FormatRef(taken[i - 1], members[i])]
  BY <1>4
<1> HIDE DEF taken
<1>6. taken[0] = s
  BY <1>2, <1>5
<1>7. ASSUME NEW i \in 1 .. max
      PROVE  taken[i] = IF members[i] = NULL THEN taken[i - 1]
                        ELSE FormatRef(taken[i - 1], members[i])
  <2>1. i \in 0 .. max /\ i # 0
    BY <1>2
  <2> QED BY <1>5, <2>1
<1>8. Takes(taken, s, members, max)
  BY <1>6, <1>7 DEF Takes, max
<1> QED BY <1>1, <1>8 DEF max

(* What is kept while a reference to a format is taken.                    *)
RefKept(s, u) == /\ Becomes(s, u) /\ u.ns = s.ns /\ FormatCount(u) = FormatCount(s)
                 /\ u.global = s.global /\ u.leaks = s.leaks
LEMMA FormatRefKept ==
  ASSUME NEW s, Sound(s), NEW f \in 1 .. FormatCount(s) \cup {NULL}
  PROVE  RefKept(s, FormatRef(s, f))
<1>1. Becomes(s, FormatRef(s, f))
  BY FormatRefKeeps
<1>2. CASE f # NULL /\ Alive(s.fmt[f])
  <2>1. f \in 1 .. FormatCount(s) /\ LiveFormat(s.fmt[f]) /\ Shape(s)
    BY <1>2, ShapeIs DEF Sound
  <2> DEFINE c == s.fmt[f].ref_count + 1
             o == [s.fmt[f] EXCEPT !.ref_count = c]
  <2>2. FormatRef(s, f) = [s EXCEPT !.fmt[f] = o]
    BY <1>2 DEF FormatRef
  <2>3. LiveFormat(o)
    <3>1. c \in Nat \ {0}
      BY <2>1 DEF LiveFormat
    <3> HIDE DEF c
    <3> QED BY <2>1, <3>1 DEF LiveFormat
  <2> HIDE DEF o
  <2>4. FormatSet(s, FormatRef(s, f), f, o)
    BY <2>1, <2>2, <2>3, FormatSets
  <2> QED BY <1>1, <2>4 DEF RefKept, FormatSet, SameRest
<1>3. CASE ~(f # NULL /\ Alive(s.fmt[f]))
  <2>1. Crashed(s, FormatRef(s, f))
    BY <1>3, CrashIs DEF FormatRef, Sound
  <2> QED BY <1>1, <2>1 DEF RefKept, Crashed, FormatCount
<1> QED BY <1>2, <1>3

LEMMA RefKeptIs ==
  ASSUME NEW s, Sound(s)
  PROVE  /\ RefKept(s, s)
         /\ \A u, v : RefKept(s, u) /\ RefKept(u, v) => RefKept(s, v)
<1>1. RefKept(s, s)
  BY EvolvesIs DEF RefKept, Becomes
<1>2. ASSUME NEW u, NEW v, RefKept(s, u), RefKept(u, v) PROVE RefKept(s, v)
  <2>1. Becomes(s, v)
    BY <1>2, EvolvesIs DEF RefKept, Becomes
  <2> QED BY <1>2, <2>1 DEF RefKept
<1> QED BY <1>1, <1>2

MayHave(s, members) ==
  IsList(members) /\ \A i \in 1 .. Len(members) : members[i] \in 1 .. FormatCount(s) \cup {NULL}

LEMMA TakesKeep ==
  ASSUME NEW s, Sound(s), NEW members, MayHave(s, members), NEW g, NEW max,
         Takes(g, s, members, max)
  PROVE  max \in Nat /\ \A i \in 0 .. max : RefKept(s, g[i])
<1> DEFINE T == {i \in 0 .. max : RefKept(s, g[i])}
<1>1. max \in Nat
  BY ListIs DEF MayHave, Takes
<1>2. 0 \in T
  BY <1>1, RefKeptIs DEF Takes
<1>3. ASSUME NEW i \in 1 .. max, i - 1 \in T PROVE i \in T
  <2> DEFINE r == g[i - 1]
             f == members[i]
  <2>1. RefKept(s, r)
    BY <1>3
  <2>2. g[i] = IF f = NULL THEN r ELSE FormatRef(r, f)
    BY DEF Takes
  <2>3. f \in 1 .. FormatCount(s) \cup {NULL}
    BY DEF MayHave, Takes
  <2> HIDE DEF r, f
  <2>4. Sound(r) /\ FormatCount(r) = FormatCount(s)
    BY <2>1 DEF RefKept, Becomes
  <2>5. RefKept(r, FormatRef(r, f))
    BY <2>3, <2>4, FormatRefKept
  <2>6. RefKept(s, g[i])
    BY <2>1, <2>2, <2>5, RefKeptIs
  <2> QED BY <2>6
<1>4. 0 .. max \subseteq T
  <2> HIDE DEF T
  <2> QED BY <1>1, <1>2, <1>3, IndexInduction
<1> QED BY <1>1, <1>4

(* u is s with a new format besides.                                       *)
FormatMade(s, u, type, members) ==
  /\ u = NewFormat(s, type, members)
  /\ Becomes(s, u) /\ u.ns = s.ns /\ FormatCount(u) = FormatCount(s) + 1
  /\ u.global = s.global /\ u.leaks = s.leaks
  /\ u.fmt[FormatCount(u)] = NewObject(type, members)

LEMMA NewFormatMakes ==
  ASSUME NEW s, Sound(s), NEW type, NEW members, MayHave(s, members)
  PROVE  FormatMade(s, NewFormat(s, type, members), type, members)
<1> DEFINE u == NewFormat(s, type, members)
           o == NewObject(type, members)
           max == Len(members)
<1>1. PICK g : Takes(g, s, members, max) /\ u = [g[max] EXCEPT !.fmt = Append(@, o)]
  BY NewFormatTakes DEF MayHave
<1> DEFINE r == g[max]
<1>2. RefKept(s, r)
  <2> HIDE DEF max
  <2> QED BY <1>1, TakesKeep
<1>3. u = [r EXCEPT !.fmt = Append(@, o)]
  BY <1>1
<1>4. /\ o.members = members /\ o.array_of = NULL /\ o.canonical_ns = NULL /\ LiveFormat(o)
  BY DEF NewObject, LiveFormat
<1> HIDE DEF u, o, r, max
<1>5. FormatAdded(r, u, o) /\ Sound(r)
  BY <1>2, <1>3, <1>4, FormatAdds DEF RefKept, Becomes, Sound
<1>6. MembersSound(r, o)
  BY <1>2, <1>4 DEF MembersSound, MayHave, RefKept
<1>7. Becomes(r, u)
  BY <1>4, <1>5, <1>6, FormatAddedSound
<1>8. Becomes(s, u)
  BY <1>2, <1>7, EvolvesIs DEF RefKept, Becomes
<1> QED BY <1>2, <1>5, <1>8 DEF FormatMade, FormatAdded, RefKept, SameRest, u, o

LEMMA NoMembers == \A s : MayHave(s, <<>>)
<1>1. IsList(<<>>) /\ Len(<<>>) = 0
  BY EmptySeq, ListOfSeq
<1> QED BY <1>1 DEF MayHave

(* Other fields of a format are set: the object p is as much in use as o   *)
(* and has the same members.                                               *)
Alike(o, p) ==
  /\ p.ref_count = o.ref_count
  /\ p = Freed \/ (LiveFormat(p) /\ p.type = o.type /\ p.members = o.members)
FieldsSet(s, u, f) == Becomes(s, u) /\ FormatSet(s, u, f, u.fmt[f]) /\ Alike(s.fmt[f], u.fmt[f])

LEMMA FieldsSets ==
  ASSUME NEW s, Sound(s), NEW f \in 1 .. FormatCount(s), NEW p,
         s.fmt[f] = Freed => p = Freed,
         LiveFormat(s.fmt[f]) =>
           /\ LiveFormat(p) /\ p.type = s.fmt[f].type /\ p.members = s.fmt[f].members
           /\ p.ref_count = s.fmt[f].ref_count
           /\ p.array_of \in 1 .. FormatCount(s) \cup {s.fmt[f].array_of}
           /\ \/ /\ p.canonical_ns = s.fmt[f].canonical_ns
                 /\ p.canonical_name = s.fmt[f].canonical_name
              \/ LeadsTo(s, p, f),
         NEW u, u = [s EXCEPT !.fmt[f] = p]
  PROVE  FieldsSet(s, u, f)
<1> DEFINE o == s.fmt[f]
<1>1. \/ o = Freed /\ p = Freed
      \/ LiveFormat(o) /\ LiveFormat(p) /\ MembersSound(s, o) /\ LeadsTo(s, o, f)
  BY ShapeIs DEF Sound
<1>2. FormatSet(s, u, f, p)
  BY <1>1, FormatSets DEF Sound
<1>3. Alive(p) => MembersSound(s, p) /\ LeadsTo(s, p, f)
  <2>1. ASSUME LiveFormat(o), LiveFormat(p), MembersSound(s, o), LeadsTo(s, o, f)
        PROVE  MembersSound(s, p) /\ LeadsTo(s, p, f)
    BY <2>1 DEF MembersSound, LeadsTo
  <2>2. p = Freed => ~Alive(p)
    BY DEF Freed, Alive
  <2> QED BY <1>1, <2>1, <2>2
<1>4. Becomes(s, u)
  BY <1>2, <1>3, FormatSetSound
<1>5. Alike(o, p) /\ u.fmt[f] = p
  BY <1>1, <1>2 DEF Alike, FormatSet
<1> QED BY <1>2, <1>4, <1>5 DEF FieldsSet

LEMMA ElementSets ==
  ASSUME NEW s, Sound(s), NEW f \in 1 .. FormatCount(s), NEW v,
         NEW u, u = [s EXCEPT !.fmt[f].element = v]
  PROVE  FieldsSet(s, u, f)
<1> DEFINE o == s.fmt[f]
           p == [o EXCEPT !.element = v]
<1>1. u = [s EXCEPT !.fmt[f] = p]
  OBVIOUS
<1> HIDE DEF o
<1>2. o = Freed => p = Freed
  BY DEF Freed
<1>3. LiveFormat(o) =>
        /\ LiveFormat(p) /\ p.members = o.members /\ p.array_of = o.array_of
        /\ p.canonical_ns = o.canonical_ns /\ p.canonical_name = o.canonical_name
        /\ p.type = o.type /\ p.ref_count = o.ref_count
  BY DEF LiveFormat
<1> HIDE DEF p
<1> QED BY <1>1, <1>2, <1>3, FieldsSets DEF o

LEMMA ArraySets ==
  ASSUME NEW s, Sound(s), NEW f \in 1 .. FormatCount(s), NEW v \in 1 .. FormatCount(s),
         NEW u, u = [s EXCEPT !.fmt[f].array_of = v]
  PROVE  FieldsSet(s, u, f)
<1> DEFINE o == s.fmt[f]
           p == [o EXCEPT !.array_of = v]
<1>1. u = [s EXCEPT !.fmt[f] = p]
  OBVIOUS
<1> HIDE DEF o
<1>2. o = Freed => p = Freed
  BY DEF Freed
<1>3. LiveFormat(o) =>
        /\ LiveFormat(p) /\ p.members = o.members /\ p.array_of = v
        /\ p.canonical_ns = o.canonical_ns /\ p.canonical_name = o.canonical_name
        /\ p.type = o.type /\ p.ref_count = o.ref_count
  BY DEF LiveFormat
<1> HIDE DEF p
<1> QED BY <1>1, <1>2, <1>3, FieldsSets DEF o

(* A name is given to a format once it is bound to it.                     *)
LEMMA NameSets ==
  ASSUME NEW s, Sound(s), NEW f \in 1 .. FormatCount(s), NEW n \in 1 .. SpaceCount(s),
         NEW name \in Names,
         Malloced(name) \in Nodes(s.ns[n].by_name),
         s.ns[n].by_name.at[Malloced(name)].entry = Entry("FORMAT", f),
         NEW u, u = [s EXCEPT !.fmt[f].canonical_name = name, !.fmt[f].canonical_ns = n]
  PROVE  FieldsSet(s, u, f)
<1> DEFINE o == s.fmt[f]
           q == [o EXCEPT !.canonical_name = name]
           p == [q EXCEPT !.canonical_ns = n]
<1>0. f \in DOMAIN s.fmt
  BY ShapeIs DEF Sound
<1>1. u = [s EXCEPT !.fmt[f] = p]
  BY <1>0
<1> HIDE DEF o
<1>2. o = Freed => q = Freed
  BY DEF Freed
<1>3. LiveFormat(o) =>
        /\ LiveFormat(q) /\ q.members = o.members /\ q.array_of = o.array_of
        /\ q.canonical_name = name /\ q.type = o.type /\ q.ref_count = o.ref_count
  BY DEF LiveFormat
<1> HIDE DEF q
<1>4. q = Freed => p = Freed
  BY DEF Freed
<1>5. LiveFormat(q) =>
        /\ LiveFormat(p) /\ p.members = q.members /\ p.array_of = q.array_of
        /\ p.canonical_ns = n /\ p.canonical_name = q.canonical_name
        /\ p.type = q.type /\ p.ref_count = q.ref_count
  BY DEF LiveFormat
<1> HIDE DEF p
<1>6. LiveFormat(o) => LeadsTo(s, p, f)
  BY <1>3, <1>5 DEF LeadsTo
<1> QED BY <1>1, <1>2, <1>3, <1>4, <1>5, <1>6, FieldsSets DEF o

(* The array of a format is made, and then told its element and the format *)
(* its array.                                                              *)
ArrayMade(s, f, u) ==
  \E s1, s2 : /\ FormatMade(s, s1, "ARRAY", <<>>)
              /\ FieldsSet(s1, s2, FormatCount(s1)) /\ FieldsSet(s2, u, f)
              /\ Becomes(s, u)

(* A format without members takes no reference.                            *)
LEMMA NewFormatAlone ==
  ASSUME NEW s, Sound(s), NEW type
  PROVE  FormatAdded(s, NewFormat(s, type, <<>>), NewObject(type, <<>>))
<1> DEFINE members == <<>>
           u == NewFormat(s, type, members)
           o == NewObject(type, members)
           max == Len(members)
<1>1. PICK g : Takes(g, s, members, max) /\ u = [g[max] EXCEPT !.fmt = Append(@, o)]
  BY NewFormatTakes, NoMembers DEF MayHave
<1>2. max = 0
  BY EmptySeq
<1>3. g[0] = s
  BY <1>1 DEF Takes
<1>4. LiveFormat(o)
  BY DEF NewObject, LiveFormat
<1> HIDE DEF o
<1>5. u = [s EXCEPT !.fmt = Append(@, o)]
  BY <1>1, <1>2, <1>3
<1> HIDE DEF u
<1>6. FormatAdded(s, u, o)
  BY <1>4, <1>5, FormatAdds DEF Sound
<1> QED BY <1>6 DEF u, o

LEMMA ArrayOfMakes ==
  ASSUME NEW s, Sound(s), NEW f \in 1 .. FormatCount(s), NEW junk, NEW u, u = ArrayOf(s, f, junk)
  PROVE  /\ Becomes(s, u)
         /\ u = s \/ Crashed(s, u) \/ ArrayMade(s, f, u)
         /\ ~u.crashed => u.fmt[f].array_of \in 1 .. FormatCount(u)
<1>1. CASE Alive(s.fmt[f]) /\ s.fmt[f].array_of # NULL /\ u = s
  <2>1. MembersSound(s, s.fmt[f])
    BY <1>1 DEF Sound
  <2> QED BY <1>1, <2>1, EvolvesIs DEF Becomes, MembersSound
<1>2. CASE u = Crash(s)
  <2>1. Crashed(s, u)
    BY <1>2, CrashIs DEF Sound
  <2> QED BY <2>1, CrashSound DEF Crashed
<1> DEFINE s1 == NewFormat(s, "ARRAY", <<>>)
           m == Made(s1)
<1>3. CASE Alive(s.fmt[f]) /\ u = [s1 EXCEPT !.fmt[m].element = f, !.fmt[f].array_of = m]
  <2> DEFINE s2 == [s1 EXCEPT !.fmt[m].element = f]
  <2>1. u = [s2 EXCEPT !.fmt[f].array_of = m]
    BY <1>3
  <2>2. FormatMade(s, s1, "ARRAY", <<>>)
    BY NewFormatMakes, NoMembers
  <2>3. m = FormatCount(s1)
    BY DEF Made, FormatCount
  <2>4. s2 = [s1 EXCEPT !.fmt[m].element = f]
    OBVIOUS
  <2>10. s1.fmt[f] = s.fmt[f]
    BY NewFormatAlone DEF FormatAdded
  <2> HIDE DEF s1, m, s2
  <2>5. Sound(s1) /\ m \in 1 .. FormatCount(s1) /\ f \in 1 .. FormatCount(s1) /\ m # f
    <3>1. FormatCount(s) \in Nat /\ FormatCount(s1) = FormatCount(s) + 1
      BY <2>2, ShapeIs DEF Sound, FormatMade
    <3> QED BY <2>2, <2>3, <3>1 DEF FormatMade, Becomes
  <2>6. FieldsSet(s1, s2, m)
    BY <2>4, <2>5, ElementSets
  <2>7. Sound(s2) /\ FormatCount(s2) = FormatCount(s1)
    BY <2>6 DEF FieldsSet, Becomes, FormatSet
  <2>8. FieldsSet(s2, u, f)
    BY <2>1, <2>5, <2>7, ArraySets
  <2>9. Becomes(s, u)
    <3>1. Becomes(s, s1) /\ Becomes(s1, s2) /\ Becomes(s2, u)
      BY <2>2, <2>6, <2>8 DEF FormatMade, FieldsSet
    <3>2. Becomes(s, s2)
      BY <3>1, EvolvesIs DEF Becomes
    <3> QED BY <3>1, <3>2, EvolvesIs DEF Becomes
  <2>11. u.fmt[f].array_of \in 1 .. FormatCount(u)
    <3>1. s2.fmt[f] = s.fmt[f]
      BY <2>5, <2>6, <2>10 DEF FieldsSet, FormatSet
    <3>2. LiveFormat(s2.fmt[f])
      BY <1>3, <3>1, ShapeIs DEF Sound
    <3>3. f \in DOMAIN s2.fmt /\ Shape(s2)
      BY <2>5, <2>7, ShapeIs DEF Sound
    <3>4. u.fmt[f] = [s2.fmt[f] EXCEPT !.array_of = m]
      BY <2>1, <3>3 DEF Shape
    <3>5. u.fmt[f].array_of = m
      <4> DEFINE o == s2.fmt[f]
      <4>1. LiveFormat(o) /\ u.fmt[f] = [o EXCEPT !.array_of = m]
        BY <3>2, <3>4
      <4> HIDE DEF o
      <4> QED BY <4>1 DEF LiveFormat
    <3>6. FormatCount(u) = FormatCount(s2)
      BY <2>8 DEF FieldsSet, FormatSet
    <3> QED BY <2>5, <2>7, <3>5, <3>6
  <2> QED BY <2>2, <2>3, <2>6, <2>8, <2>9, <2>11 DEF ArrayMade
<1> QED BY <1>1, <1>2, <1>3 DEF ArrayOf

-----------------------------------------------------------------------------
(* Namespaces are made, and names are bound.                               *)

NewSpace(toplevel) == [ref_count |-> 1, is_toplevel |-> toplevel, by_name |-> EmptyTree]
SpaceMade(s, u, toplevel) == Becomes(s, u) /\ SpaceAdded(s, u, NewSpace(toplevel))

LEMMA NewNamespaceMakes ==
  ASSUME NEW s, Sound(s), NEW toplevel
  PROVE  SpaceMade(s, NewNamespace(s, toplevel), toplevel)
<1> DEFINE o == NewSpace(toplevel)
           u == NewNamespace(s, toplevel)
<1>1. u = [s EXCEPT !.ns = Append(@, o)]
  BY DEF NewNamespace, NewSpace
<1>2. LiveSpace(o) /\ o.by_name = EmptyTree
  BY DEF NewSpace, LiveSpace
<1> HIDE DEF o, u
<1>3. SpaceAdded(s, u, o)
  BY <1>1, <1>2, SpaceAdds DEF Sound
<1>4. Becomes(s, u)
  BY <1>2, <1>3, SpaceAddedSound
<1>5. SpaceMade(s, u, toplevel)
  BY <1>3, <1>4 DEF SpaceMade, o
<1> QED BY <1>5 DEF u

IsLive(s, n) == n \in 1 .. SpaceCount(s) /\ Alive(s.ns[n])
TreeOf(s, n) == s.ns[n].by_name
HasName(s, n, name) == Malloced(name) \in Nodes(TreeOf(s, n))
Binding(s, n, name) == TreeOf(s, n).at[Malloced(name)].entry

LEMMA LiveIs ==
  ASSUME NEW s, Sound(s), NEW n, IsLive(s, n)
  PROVE  /\ TreeSound(s, TreeOf(s, n)) /\ Tidy(TreeOf(s, n)) /\ LiveSpace(s.ns[n])
         /\ \A name \in Names :
              /\ NodeOf(Cmp, s, n, name) = IF HasName(s, n, name) THEN Malloced(name) ELSE NULL
              /\ Bound(s, n, name) <=> HasName(s, n, name)
              /\ Query1(s, n, name) = IF HasName(s, n, name) THEN Binding(s, n, name) ELSE NULL
              /\ HasName(s, n, name) => Refers(s, Binding(s, n, name))
<1>1. TreeSound(s, TreeOf(s, n)) /\ LiveSpace(s.ns[n])
  BY ShapeIs DEF Sound, IsLive, TreeOf
<1>2. Tidy(TreeOf(s, n))
  BY <1>1 DEF TreeSound
<1>3. ASSUME NEW name \in Names
      PROVE  /\ NodeOf(Cmp, s, n, name) = IF HasName(s, n, name) THEN Malloced(name) ELSE NULL
             /\ Bound(s, n, name) <=> HasName(s, n, name)
             /\ Query1(s, n, name) = IF HasName(s, n, name) THEN Binding(s, n, name) ELSE NULL
             /\ HasName(s, n, name) => Refers(s, Binding(s, n, name))
  <2> DEFINE t == TreeOf(s, n)
  <2>1. NodeOf(Cmp, s, n, name) = Lookup(t, AgainstNodes(Cmp, name, t))
    BY DEF NodeOf, TreeOf
  <2> HIDE DEF t
  <2>2. Lookup(t, AgainstNodes(Cmp, name, t)) = IF Malloced(name) \in Nodes(t) THEN Malloced(name) ELSE NULL
    BY <1>2, LookupName DEF t
  <2>3. Malloced(name) # NULL
    BY NodeIdsAre
  <2>4. NodeOf(Cmp, s, n, name) = IF HasName(s, n, name) THEN Malloced(name) ELSE NULL
    BY <2>1, <2>2 DEF HasName, t
  <2>5. Bound(s, n, name) <=> HasName(s, n, name)
    BY <2>3, <2>4 DEF Bound
  <2>6. Query1(s, n, name) = IF HasName(s, n, name) THEN Binding(s, n, name) ELSE NULL
    BY <2>3, <2>4 DEF Query1, EntryFor, Binding, TreeOf
  <2>7. HasName(s, n, name) => Refers(s, Binding(s, n, name))
    BY <1>1 DEF HasName, Binding, TreeSound
  <2> QED BY <2>4, <2>5, <2>6, <2>7
<1> QED BY <1>1, <1>2, <1>3

(* u is s, and name is bound to own besides.                               *)
Binds(s, u, n, name, own) ==
  /\ Becomes(s, u) /\ IsLive(s, n) /\ IsLive(u, n) /\ SpaceSet(s, u, n, u.ns[n])
  /\ u.ns[n].ref_count = s.ns[n].ref_count
  /\ name \in Names /\ ~HasName(s, n, name)
  /\ Gets(TreeOf(s, n), name, own, TreeOf(u, n))

LEMMA TreeSets ==
  ASSUME NEW s, Sound(s), NEW n, IsLive(s, n), NEW name \in Names, ~HasName(s, n, name),
         NEW own, Refers(s, own), NEW v, Gets(TreeOf(s, n), name, own, v),
         NEW u, u = [s EXCEPT !.ns[n].by_name = v]
  PROVE  Binds(s, u, n, name, own)
<1> DEFINE t == TreeOf(s, n)
           o == [s.ns[n] EXCEPT !.by_name = v]
<1>1. u = [s EXCEPT !.ns[n] = o]
  OBVIOUS
<1>2. LiveSpace(s.ns[n]) /\ TreeSound(s, t) /\ n \in 1 .. SpaceCount(s) /\ Shape(s)
  BY LiveIs DEF IsLive, Sound
<1>3. LiveSpace(o) /\ o.by_name = v /\ o.ref_count = s.ns[n].ref_count /\ Alive(o)
  <2>1. LiveSpace(o) /\ o.by_name = v /\ o.ref_count = s.ns[n].ref_count
    BY <1>2 DEF LiveSpace
  <2> HIDE DEF o
  <2> QED BY <2>1 DEF LiveSpace, Alive
<1> HIDE DEF o
<1>4. SpaceSet(s, u, n, o)
  BY <1>1, <1>2, <1>3, SpaceSets
<1>5. TreeSound(s, v) /\ Kept(t, v)
  <2> HIDE DEF t
  <2>1. Gets(t, name, own, v)
    BY DEF t
  <2>2. ASSUME NEW x \in Nodes(v) PROVE Refers(s, v.at[x].entry)
    <3>1. x \in Nodes(t) \/ x = Malloced(name)
      BY <2>1 DEF Gets
    <3> QED BY <1>2, <2>1, <3>1 DEF Gets, TreeSound
  <2> QED BY <2>1, <2>2 DEF Gets, TreeSound, Kept
<1>6. Becomes(s, u)
  BY <1>2, <1>3, <1>4, <1>5, SpaceSetSound DEF IsLive, TreeOf
<1>7. u.ns[n] = o /\ SpaceCount(u) = SpaceCount(s)
  BY <1>4 DEF SpaceSet
<1> QED BY <1>2, <1>3, <1>4, <1>6, <1>7 DEF Binds, IsLive, TreeOf

LEMMA InsertBinds ==
  ASSUME NEW s, Sound(s), NEW n, IsLive(s, n), NEW name \in Names, ~HasName(s, n, name),
         NEW own, Refers(s, own)
  PROVE  Binds(s, InsertNode(s, n, Malloced(name), own), n, name, own)
<1> DEFINE t == TreeOf(s, n)
           u == InsertNode(s, n, Malloced(name), own)
           v == Insert(t, Malloced(name), own, AgainstNodes(Cmp, name, t))
<1>1. u = [s EXCEPT !.ns[n].by_name = v]
  BY NodeIdsAre DEF InsertNode, TreeOf
<1>2. Tidy(t) /\ Malloced(name) \notin Nodes(t)
  BY LiveIs DEF HasName
<1>3. Gets(t, name, own, v)
  <2> HIDE DEF t
  <2> QED BY <1>2, InsertGets
<1> HIDE DEF v, u
<1>4. Binds(s, u, n, name, own)
  BY <1>1, <1>3, TreeSets
<1> QED BY <1>4 DEF u

(* A format, or a namespace, is bound to a name and referred to.           *)
FormatBound(s, u, n, name, f) ==
  \E s0 : /\ Binds(s, s0, n, name, Entry("FORMAT", f))
          /\ \/ u = FormatRef(s0, f)
             \/ Crashed(FormatRef(s0, f), u)
             \/ FieldsSet(FormatRef(s0, f), u, f)
SpaceBound(s, u, n, name, m) ==
  \E s0 : /\ Binds(s, s0, n, name, Entry("SUBNAMESPACE", m))
          /\ u = NamespaceRef(s0, m)

LEMMA AddFormatBinds ==
  ASSUME NEW s, Sound(s), NEW n, IsLive(s, n), NEW name \in Names,
         NEW f \in 1 .. FormatCount(s), NEW canonical,
         NEW u, u = AddFormat(s, n, name, f, canonical)
  PROVE  /\ Becomes(s, u) /\ IsLive(u, n) /\ SpaceCount(u) = SpaceCount(s)
         /\ FormatCount(u) = FormatCount(s)
         /\ u = s \/ FormatBound(s, u, n, name, f)
<1> DEFINE own == Entry("FORMAT", f)
           s0 == InsertNode(s, n, Malloced(name), own)
           s1 == FormatRef(s0, f)
<1>1. CASE HasName(s, n, name)
  <2>1. Bound(s, n, name)
    BY <1>1, LiveIs
  <2>2. u = s
    BY <2>1 DEF AddFormat
  <2> QED BY <2>2, EvolvesIs DEF Becomes
<1>2. CASE ~HasName(s, n, name)
  <2>1. ~Bound(s, n, name)
    BY <1>2, LiveIs
  <2>2. \/ u = s1
        \/ u = Crash(s1)
        \/ u = [s1 EXCEPT !.fmt[f].canonical_name = name, !.fmt[f].canonical_ns = n]
    BY <2>1 DEF AddFormat
  <2>3. Refers(s, own)
    BY NumbersAre DEF Refers
  <2>4. Binds(s, s0, n, name, own)
    BY <1>2, <2>3, InsertBinds
  <2> HIDE DEF s0
  <2>5. Sound(s0) /\ f \in 1 .. FormatCount(s0) /\ FormatCount(s0) = FormatCount(s)
    BY <2>4 DEF Binds, Becomes, SpaceSet, FormatCount
  <2>6. RefKept(s0, s1)
    BY <2>5, FormatRefKept
  <2> HIDE DEF s1
  <2>7. Sound(s1) /\ f \in 1 .. FormatCount(s1) /\ FormatCount(s1) = FormatCount(s)
        /\ s1.ns = s0.ns /\ Becomes(s, s1)
    <3>1. Becomes(s, s0) /\ Becomes(s0, s1)
      BY <2>4, <2>6 DEF Binds, RefKept
    <3>2. Becomes(s, s1)
      BY <3>1, EvolvesIs DEF Becomes
    <3> QED BY <2>5, <2>6, <3>2 DEF RefKept, Becomes
  <2>8. IsLive(s1, n) /\ SpaceCount(s1) = SpaceCount(s)
    BY <2>4, <2>7 DEF Binds, IsLive, SpaceSet, SpaceCount
  <2>9. CASE u = s1
    BY <2>4, <2>7, <2>8, <2>9 DEF FormatBound, s1
  <2>10. CASE u = Crash(s1)
    <3>1. Crashed(s1, u)
      BY <2>7, <2>10, CrashIs DEF Sound
    <3>2. Becomes(s1, u) /\ u.ns = s1.ns /\ u.fmt = s1.fmt
      BY <2>7, <3>1, CrashSound DEF Crashed
    <3>3. Becomes(s, u)
      BY <2>7, <3>2, EvolvesIs DEF Becomes
    <3>4. FormatBound(s, u, n, name, f)
      BY <2>4, <3>1 DEF FormatBound, s1
    <3> QED BY <2>7, <2>8, <3>2, <3>3, <3>4 DEF IsLive, SpaceCount, FormatCount
  <2>11. CASE u = [s1 EXCEPT !.fmt[f].canonical_name = name, !.fmt[f].canonical_ns = n]
    <3>1. /\ n \in 1 .. SpaceCount(s1) /\ Malloced(name) \in Nodes(s1.ns[n].by_name)
          /\ s1.ns[n].by_name.at[Malloced(name)].entry = own
      BY <2>4, <2>7, <2>8 DEF Binds, Gets, TreeOf, IsLive
    <3>2. FieldsSet(s1, u, f)
      BY <2>7, <2>11, <3>1, NameSets
    <3>3. Becomes(s1, u) /\ u.ns = s1.ns /\ FormatCount(u) = FormatCount(s1)
      BY <3>2 DEF FieldsSet, FormatSet
    <3>4. Becomes(s, u)
      BY <2>7, <3>3, EvolvesIs DEF Becomes
    <3>5. FormatBound(s, u, n, name, f)
      BY <2>4, <3>2 DEF FormatBound, s1
    <3> QED BY <2>7, <2>8, <3>3, <3>4, <3>5 DEF IsLive, SpaceCount
  <2> QED BY <2>2, <2>9, <2>10, <2>11
<1> QED BY <1>1, <1>2

LEMMA AddSubnamespaceBinds ==
  ASSUME NEW s, Sound(s), NEW n, IsLive(s, n), NEW name \in Names,
         NEW m \in 1 .. SpaceCount(s), NEW u, u = AddSubnamespace(s, n, name, m)
  PROVE  /\ Becomes(s, u) /\ SpaceCount(u) = SpaceCount(s) /\ FormatCount(u) = FormatCount(s)
         /\ u = s \/ SpaceBound(s, u, n, name, m)
<1> DEFINE own == Entry("SUBNAMESPACE", m)
           s0 == InsertNode(s, n, Malloced(name), own)
<1>1. CASE HasName(s, n, name)
  <2>1. Bound(s, n, name)
    BY <1>1, LiveIs
  <2>2. u = s
    BY <2>1 DEF AddSubnamespace
  <2> QED BY <2>2, EvolvesIs DEF Becomes
<1>2. CASE ~HasName(s, n, name)
  <2>1. ~Bound(s, n, name)
    BY <1>2, LiveIs
  <2>2. u = NamespaceRef(s0, m)
    BY <2>1 DEF AddSubnamespace
  <2>3. Refers(s, own)
    BY NumbersAre DEF Refers
  <2>4. Binds(s, s0, n, name, own)
    BY <1>2, <2>3, InsertBinds
  <2> HIDE DEF s0
  <2>5. /\ Sound(s0) /\ m \in 1 .. SpaceCount(s0) /\ SpaceCount(s0) = SpaceCount(s)
        /\ FormatCount(s0) = FormatCount(s)
    BY <2>4 DEF Binds, Becomes, SpaceSet, FormatCount
  <2>6. Becomes(s0, u)
    BY <2>2, <2>5, NamespaceRefKeeps
  <2>7. SpaceCount(u) = SpaceCount(s0) /\ FormatCount(u) = FormatCount(s0)
    <3>1. CASE Alive(s0.ns[m])
      <4> DEFINE o == [s0.ns[m] EXCEPT !.ref_count = s0.ns[m].ref_count + 1]
      <4>1. LiveSpace(s0.ns[m])
        BY <2>5, <3>1, ShapeIs DEF Sound
      <4>2. LiveSpace(o)
        BY <4>1 DEF LiveSpace
      <4>3. u = [s0 EXCEPT !.ns[m] = o]
        BY <2>2, <3>1 DEF NamespaceRef
      <4> HIDE DEF o
      <4>4. SpaceSet(s0, u, m, o)
        BY <2>5, <4>2, <4>3, SpaceSets DEF Sound
      <4> QED BY <4>4 DEF SpaceSet, FormatCount
    <3>2. CASE ~Alive(s0.ns[m])
      <4>1. Crashed(s0, u)
        BY <2>2, <2>5, <3>2, CrashIs DEF NamespaceRef, Sound
      <4> QED BY <4>1 DEF Crashed, SpaceCount, FormatCount
    <3> QED BY <3>1, <3>2
  <2>8. Becomes(s, u)
    BY <2>4, <2>6, EvolvesIs DEF Binds, Becomes
  <2> QED BY <2>2, <2>4, <2>5, <2>7, <2>8 DEF SpaceBound
<1> QED BY <1>1, <1>2

(* A place in a list is set before or after something is added.            *)
SetAt(q, i, a) == [q EXCEPT ![i] = a]
LEMMA SetThenAppend ==
  ASSUME NEW q, IsList(q), NEW i \in 1 .. Len(q), NEW a, NEW b, NEW o
  PROVE  SetAt(Append(SetAt(q, i, a), o), i, b) = SetAt(Append(q, o), i, b)
<1> DEFINE r == [q EXCEPT ![i] = a]
           x == Append(r, o)
           y == Append(q, o)
           x2 == [x EXCEPT ![i] = b]
           y2 == [y EXCEPT ![i] = b]
           k == Len(q) + 1
<1>1. ListSet(q, i, a, r) /\ Len(q) \in Nat
  BY ListSets DEF IsList
<1> HIDE DEF r
<1>2. IsList(r) /\ Len(r) = Len(q)
  BY <1>1 DEF ListSet
<1>3. /\ IsList(x) /\ Len(x) = k /\ x[k] = o
      /\ \A j \in 1 .. Len(q) : x[j] = r[j]
  BY <1>2, ListIs
<1>4. /\ IsList(y) /\ Len(y) = k /\ y[k] = o
      /\ \A j \in 1 .. Len(q) : y[j] = q[j]
  BY ListIs
<1> HIDE DEF x, y
<1>5. i \in 1 .. Len(x) /\ i \in 1 .. Len(y)
  BY <1>1, <1>3, <1>4
<1>6. ListSet(x, i, b, x2) /\ ListSet(y, i, b, y2)
  BY <1>3, <1>4, <1>5, ListSets
<1> HIDE DEF x2, y2
<1>7. ASSUME NEW j \in 1 .. k PROVE x2[j] = y2[j]
  <2>1. CASE j = i
    BY <1>6, <2>1 DEF ListSet
  <2>2. CASE j # i
    <3>1. x2[j] = x[j] /\ y2[j] = y[j]
      BY <1>3, <1>4, <1>6, <2>2 DEF ListSet
    <3>2. CASE j = k
      BY <1>3, <1>4, <3>1, <3>2
    <3>3. CASE j # k
      <4>1. j \in 1 .. Len(q)
        BY <1>1, <3>3
      <4>2. r[j] = q[j]
        BY <1>1, <2>2, <4>1 DEF ListSet
      <4> QED BY <1>3, <1>4, <3>1, <4>1, <4>2
    <3> QED BY <3>2, <3>3
  <2> QED BY <2>1, <2>2
<1>8. /\ x2 = [j \in 1 .. k |-> x2[j]]
      /\ y2 = [j \in 1 .. k |-> y2[j]]
  BY <1>3, <1>4, <1>6 DEF ListSet, IsList
<1> HIDE DEF k
<1>9. x2 = y2
  BY <1>7, <1>8
<1> QED BY <1>9 DEF x2, y2, x, y, r, SetAt

(* u is s with a new namespace bound to name.                              *)
SpaceForced(s, u, n, name, m) ==
  \E s2 : /\ SpaceMade(s, s2, FALSE) /\ m = SpaceCount(s2)
          /\ Binds(s2, u, n, name, Entry("SUBNAMESPACE", m))

LEMMA ForceFree ==
  ASSUME NEW s, Sound(s), NEW n, IsLive(s, n), NEW name \in Names, ~HasName(s, n, name),
         NEW r, r = ForceSubnamespace1(s, n, name)
  PROVE  SpaceForced(s, r.s, n, name, r.v) /\ Becomes(s, r.s)
<1> DEFINE t == TreeOf(s, n)
           x == Insert(t, OnStack(name), NULL, AgainstNodes(Cmp, name, t))
           s0 == InsertNode(s, n, OnStack(name), NULL)
           s1 == NewNamespace(s0, FALSE)
           m == Len(s1.ns)
           own == Entry("SUBNAMESPACE", m)
           s2 == NewNamespace(s, FALSE)
           w == ReplaceNode(x, OnStack(name), Malloced(name), own)
           o == NewSpace(FALSE)
           a == [s.ns[n] EXCEPT !.by_name = x]
           b == [s.ns[n] EXCEPT !.by_name = w]
           u == [s1 EXCEPT !.ns[n].by_name = ReplaceNode(@, OnStack(name), Malloced(name), own)]
<1>1. r = [s |-> u, v |-> m]
  <2>1. Query1(s, n, name) = NULL
    BY LiveIs
  <2>2. own.v = m
    BY NumbersAre
  <2> HIDE DEF u, m
  <2> QED BY <2>1, <2>2 DEF ForceSubnamespace1, u, m
<1>2. IsList(s.ns) /\ n \in 1 .. Len(s.ns) /\ LiveSpace(s.ns[n]) /\ Tidy(t)
  BY LiveIs DEF Sound, Shape, IsLive, SpaceCount
<1>3. s0 = [s EXCEPT !.ns = [s.ns EXCEPT ![n] = a]]
  BY NodeIdsAre DEF InsertNode, TreeOf
<1>4. s1 = [s EXCEPT !.ns = Append([s.ns EXCEPT ![n] = a], o)]
  <2> DEFINE q == [s.ns EXCEPT ![n] = a]
  <2>1. s0 = [s EXCEPT !.ns = q]
    BY <1>3
  <2>2. s1 = [s0 EXCEPT !.ns = Append(s0.ns, o)]
    BY DEF NewNamespace, NewSpace
  <2> HIDE DEF q, o, s0, s1
  <2>3. s = [ns |-> s.ns, fmt |-> s.fmt, global |-> s.global, crashed |-> s.crashed,
             leaks |-> s.leaks]
    BY DEF Sound, Shape
  <2>4. s0 = [ns |-> q, fmt |-> s.fmt, global |-> s.global, crashed |-> s.crashed,
              leaks |-> s.leaks]
    BY <2>1, <2>3
  <2>5. s1 = [ns |-> Append(q, o), fmt |-> s.fmt, global |-> s.global, crashed |-> s.crashed,
              leaks |-> s.leaks]
    BY <2>2, <2>4
  <2>6. [s EXCEPT !.ns = Append(q, o)]
          = [ns |-> Append(q, o), fmt |-> s.fmt, global |-> s.global, crashed |-> s.crashed,
             leaks |-> s.leaks]
    <3> DEFINE y == Append(q, o)
    <3> HIDE DEF y
    <3>1. [s EXCEPT !.ns = y]
            = [ns |-> y, fmt |-> s.fmt, global |-> s.global, crashed |-> s.crashed,
               leaks |-> s.leaks]
      BY <2>3
    <3> QED BY <3>1 DEF y
  <2> QED BY <2>5, <2>6 DEF q
<1>5. a.by_name = x /\ [a EXCEPT !.by_name = w] = b
  <2> HIDE DEF x, w
  <2> QED BY <1>2 DEF LiveSpace
<1> DEFINE p == Append([s.ns EXCEPT ![n] = a], o)
<1>6. s1.ns = p /\ p[n] = a /\ IsList(p) /\ Len(p) = Len(s.ns) + 1
  <2>1. ListSet(s.ns, n, a, [s.ns EXCEPT ![n] = a])
    BY <1>2, ListSets
  <2> DEFINE q == [s.ns EXCEPT ![n] = a]
  <2> HIDE DEF a, o
  <2>2. IsList(q) /\ Len(q) = Len(s.ns) /\ q[n] = a
    BY <2>1 DEF ListSet
  <2> HIDE DEF q
  <2>3. /\ IsList(Append(q, o)) /\ Len(Append(q, o)) = Len(q) + 1
        /\ \A i \in 1 .. Len(q) : Append(q, o)[i] = q[i]
    BY <2>2, ListIs
  <2>4. p = Append(q, o)
    BY DEF q
  <2>5. s1.ns = p
    <3>1. s = [ns |-> s.ns, fmt |-> s.fmt, global |-> s.global, crashed |-> s.crashed,
               leaks |-> s.leaks]
      BY DEF Sound, Shape
    <3>2. s1 = [s EXCEPT !.ns = p]
      BY <1>4
    <3> HIDE DEF s1, p
    <3> QED BY <3>1, <3>2
  <2> QED BY <1>2, <2>2, <2>3, <2>4, <2>5
<1>7. u = [s EXCEPT !.ns = [p EXCEPT ![n] = b]]
  <2>1. n \in DOMAIN p
    BY <1>2, <1>6, ListIs DEF IsList
  <2>2. u = [s1 EXCEPT !.ns = [s1.ns EXCEPT ![n] =
              [s1.ns[n] EXCEPT !.by_name =
                 ReplaceNode(s1.ns[n].by_name, OnStack(name), Malloced(name), own)]]]
    OBVIOUS
  <2>3. s1.ns[n] = a
    BY <1>6
  <2>4. [s1.ns[n] EXCEPT !.by_name =
                 ReplaceNode(s1.ns[n].by_name, OnStack(name), Malloced(name), own)] = b
    <3> HIDE DEF s1, a, b, own, x
    <3> QED BY <1>5, <2>3
  <2>5. u = [s1 EXCEPT !.ns = [p EXCEPT ![n] = b]]
    <3> HIDE DEF s1, b, p, own, u
    <3> QED BY <1>6, <2>2, <2>4
  <2>6. s1 = [s EXCEPT !.ns = p]
    BY <1>4
  <2>7. s = [ns |-> s.ns, fmt |-> s.fmt, global |-> s.global, crashed |-> s.crashed,
             leaks |-> s.leaks]
    BY DEF Sound, Shape
  <2> HIDE DEF s1, p, u, b
  <2> QED BY <2>5, <2>6, <2>7
<1>8. [p EXCEPT ![n] = b] = [Append(s.ns, o) EXCEPT ![n] = b]
  <2> DEFINE q == s.ns
  <2>1. IsList(q) /\ n \in 1 .. Len(q)
    BY <1>2
  <2>2. [p EXCEPT ![n] = b] = [Append([q EXCEPT ![n] = a], o) EXCEPT ![n] = b]
    OBVIOUS
  <2> HIDE DEF a, b, o, q, p
  <2>3. SetAt(Append(SetAt(q, n, a), o), n, b) = SetAt(Append(q, o), n, b)
    BY <2>1, SetThenAppend
  <2>4. [p EXCEPT ![n] = b] = [Append(q, o) EXCEPT ![n] = b]
    BY <2>2, <2>3 DEF SetAt
  <2> QED BY <2>4 DEF q
<1>9. SpaceMade(s, s2, FALSE)
  BY NewNamespaceMakes
<1>10. /\ Sound(s2) /\ IsLive(s2, n) /\ TreeOf(s2, n) = t /\ ~HasName(s2, n, name)
       /\ s2.ns[n] = s.ns[n] /\ SpaceCount(s2) = SpaceCount(s) + 1 /\ SpaceCount(s) \in Nat
  <2>1. /\ Sound(s2) /\ SpaceCount(s2) = SpaceCount(s) + 1 /\ SpaceCount(s) \in Nat
        /\ \A i \in 1 .. SpaceCount(s) : s2.ns[i] = s.ns[i]
    BY <1>9, ShapeIs DEF SpaceMade, SpaceAdded, Becomes, Sound
  <2> HIDE DEF s2
  <2> QED BY <2>1 DEF IsLive, TreeOf, HasName
<1>11. m = SpaceCount(s2)
  BY <1>6, <1>10 DEF SpaceCount
<1>12. u = [s2 EXCEPT !.ns[n].by_name = w]
  <2>1. s2 = [s EXCEPT !.ns = Append(s.ns, o)]
    BY DEF NewNamespace, NewSpace
  <2>2. s = [ns |-> s.ns, fmt |-> s.fmt, global |-> s.global, crashed |-> s.crashed,
             leaks |-> s.leaks]
    BY DEF Sound, Shape
  <2> DEFINE y == Append(s.ns, o)
  <2>3. s2.ns = y
    <3> HIDE DEF s2, o
    <3> QED BY <2>1, <2>2
  <2>4. [s2 EXCEPT !.ns[n].by_name = w] = [s2 EXCEPT !.ns = [s2.ns EXCEPT ![n] = [s2.ns[n] EXCEPT !.by_name = w]]]
    OBVIOUS
  <2>5. [s2.ns[n] EXCEPT !.by_name = w] = b
    <3> HIDE DEF s2, w
    <3> QED BY <1>10
  <2>6. [s2 EXCEPT !.ns[n].by_name = w] = [s2 EXCEPT !.ns = [y EXCEPT ![n] = b]]
    <3> HIDE DEF s2, w, b, y
    <3> QED BY <2>3, <2>4, <2>5
  <2>7. u = [s EXCEPT !.ns = [y EXCEPT ![n] = b]]
    <3> HIDE DEF u, p, b
    <3> QED BY <1>7, <1>8
  <2> HIDE DEF u, s2, y, w, b
  <2>8. s2 = [s EXCEPT !.ns = y]
    BY <2>1 DEF y
  <2> QED BY <2>2, <2>6, <2>7, <2>8
<1>13. Gets(t, name, own, w)
  <2>1. Malloced(name) \notin Nodes(t)
    BY DEF HasName
  <2> HIDE DEF t, own
  <2> QED BY <1>2, <2>1, ReplaceGets
<1>14. Refers(s2, own)
  <2> HIDE DEF m, s2
  <2>1. m \in 1 .. SpaceCount(s2)
    BY <1>10, <1>11
  <2> QED BY <2>1, NumbersAre DEF Refers
<1>15. Binds(s2, u, n, name, own)
  <2> HIDE DEF s2, u, own, w, t
  <2> QED BY <1>10, <1>12, <1>13, <1>14, TreeSets
<1> HIDE DEF u, s2, m
<1>16. Becomes(s, u)
  BY <1>9, <1>15, EvolvesIs DEF SpaceMade, Binds, Becomes
<1>17. SpaceForced(s, u, n, name, m)
  BY <1>9, <1>11, <1>15 DEF SpaceForced
<1> QED BY <1>1, <1>16, <1>17

LEMMA ForceOne ==
  ASSUME NEW s, Sound(s), NEW n, IsLive(s, n), NEW name \in Names,
         NEW r, r = ForceSubnamespace1(s, n, name)
  PROVE  /\ Becomes(s, r.s) /\ IsLive(r.s, n)
         /\ r.s = s \/ SpaceForced(s, r.s, n, name, r.v)
<1>1. CASE HasName(s, n, name)
  <2>1. Query1(s, n, name) # NULL
    <3>1. Query1(s, n, name) = Binding(s, n, name) /\ Refers(s, Binding(s, n, name))
      BY <1>1, LiveIs
    <3> QED BY <3>1, NumbersAre
  <2>2. r.s = s
    BY <2>1 DEF ForceSubnamespace1
  <2> QED BY <2>2, EvolvesIs DEF Becomes
<1>2. CASE ~HasName(s, n, name)
  <2>1. SpaceForced(s, r.s, n, name, r.v) /\ Becomes(s, r.s)
    BY <1>2, ForceFree
  <2> QED BY <2>1 DEF SpaceForced, Binds
<1> QED BY <1>1, <1>2

(* One component of a dotted name after the other.                         *)
Forces(g, s, n, path, max) ==
  /\ max = Len(path) /\ g[0].s = s
  /\ \A i \in 1 .. max :
       \/ g[i] = g[i - 1]
       \/ g[i] = ForceSubnamespace1(g[i - 1].s, n, path[i])
  /\ ForceSubnamespace(s, n, path).s = g[max].s

LEMMA ForceForces ==
  ASSUME NEW s, NEW n, NEW path \in Seq(Names)
  PROVE  \E g : Forces(g, s, n, path, Len(path))
<1> DEFINE max == Len(path)
           b == [s |-> s, v |-> n]
           forced == CHOOSE forced : forced = [i \in 0 .. max |->
             IF i = 0 THEN b
             ELSE IF forced[i - 1].v = NULL THEN forced[i - 1]
             ELSE ForceSubnamespace1(forced[i - 1].s, n, path[i])]
<1>1. ForceSubnamespace(s, n, path) = forced[max]
  BY DEF ForceSubnamespace
<1>2. max \in Nat
  BY LenProperties
<1> HIDE DEF max, b
<1>3. PICK g : Steps(g, "force", path, n, NULL, NULL, b, max)
  BY <1>2, StepsExist
<1>4. g = [i \in 0 .. max |->
             IF i = 0 THEN b
             ELSE IF g[i - 1].v = NULL THEN g[i - 1]
             ELSE ForceSubnamespace1(g[i - 1].s, n, path[i])]
  BY <1>3 DEF Steps, Step
<1>5. forced = [i \in 0 .. max |->
             IF i = 0 THEN b
             ELSE IF forced[i - 1].v = NULL THEN forced[i - 1]
             ELSE ForceSubnamespace1(forced[i - 1].s, n, path[i])]
  BY <1>4
<1> HIDE DEF forced
<1>6. forced[0] = b /\ b.s = s
  BY <1>2, <1>5 DEF b
<1>7. ASSUME NEW i \in 1 .. max
      PROVE  \/ forced[i] = forced[i - 1]
             \/ forced[i] = ForceSubnamespace1(forced[i - 1].s, n, path[i])
  <2>1. i \in 0 .. max /\ i # 0
    BY <1>2
  <2> QED BY <1>5, <2>1
<1>8. Forces(forced, s, n, path, max)
  BY <1>1, <1>6, <1>7 DEF Forces, max
<1> QED BY <1>8 DEF max

LEMMA ForcesKeep ==
  ASSUME NEW s, Sound(s), NEW n, IsLive(s, n), NEW path \in Seq(Names),
         NEW g, NEW max, Forces(g, s, n, path, max)
  PROVE  max \in Nat /\ \A i \in 0 .. max : Becomes(s, g[i].s) /\ IsLive(g[i].s, n)
<1> DEFINE T == {i \in 0 .. max : Becomes(s, g[i].s) /\ IsLive(g[i].s, n)}
<1>1. max \in Nat /\ max = Len(path)
  BY LenProperties DEF Forces
<1>2. 0 \in T
  BY <1>1, EvolvesIs DEF Forces, Becomes
<1>3. ASSUME NEW i \in 1 .. max, i - 1 \in T PROVE i \in T
  <2> DEFINE r == g[i - 1]
             u == g[i]
  <2>1. Becomes(s, r.s) /\ IsLive(r.s, n)
    BY <1>3
  <2>2. u = r \/ u = ForceSubnamespace1(r.s, n, path[i])
    BY DEF Forces
  <2>3. path[i] \in Names
    BY <1>1, ElementOfSeq
  <2> HIDE DEF r, u
  <2>4. Becomes(s, u.s) /\ IsLive(u.s, n)
    <3>1. CASE u = r
      BY <2>1, <3>1
    <3>2. CASE u = ForceSubnamespace1(r.s, n, path[i])
      <4>1. Becomes(r.s, u.s) /\ IsLive(u.s, n)
        BY <2>1, <2>3, <3>2, ForceOne DEF Becomes
      <4> QED BY <2>1, <4>1, EvolvesIs DEF Becomes
    <3> QED BY <2>2, <3>1, <3>2
  <2> QED BY <2>4 DEF u
<1>4. 0 .. max \subseteq T
  <2> HIDE DEF T
  <2> QED BY <1>1, <1>2, <1>3, IndexInduction
<1> QED BY <1>1, <1>4

LEMMA ForceKeeps ==
  ASSUME NEW s, Sound(s), NEW n, IsLive(s, n), NEW path \in Seq(Names)
  PROVE  Becomes(s, ForceSubnamespace(s, n, path).s)
<1>1. PICK g : Forces(g, s, n, path, Len(path))
  BY ForceForces
<1>2. Len(path) \in Nat /\ Len(path) \in 0 .. Len(path)
  BY LenProperties
<1>3. Becomes(s, g[Len(path)].s)
  BY <1>1, <1>2, ForcesKeep
<1> QED BY <1>1, <1>3 DEF Forces

(* A namespace that holds the builtin formats.                             *)
LEMMA AddBuiltinKeeps ==
  ASSUME NEW s, Sound(s), IsLive(s, SpaceCount(s)), NEW name \in Names,
         NEW u, u = AddBuiltin(s, name)
  PROVE  /\ Becomes(s, u) /\ SpaceCount(u) = SpaceCount(s) /\ IsLive(u, SpaceCount(s))
         /\ \E s1, s2 : /\ FormatMade(s, s1, "BUILTIN", <<>>) /\ Sound(s1)
                        /\ s2 = s1 \/ FormatBound(s1, s2, SpaceCount(s), name, FormatCount(s1))
                        /\ Sound(s2) /\ FormatCount(s1) \in 1 .. FormatCount(s2)
                        /\ u = GiveBack(s2, Entry("FORMAT", FormatCount(s1)))
<1> DEFINE s1 == NewFormat(s, "BUILTIN", <<>>)
           f == FormatCount(s1)
           n == SpaceCount(s)
           s2 == AddFormat(s1, n, name, f, TRUE)
<1>1. FormatMade(s, s1, "BUILTIN", <<>>)
  BY NewFormatMakes, NoMembers
<1>2. /\ Sound(s1) /\ SpaceCount(s1) = n /\ IsLive(s1, n) /\ f \in 1 .. FormatCount(s1)
      /\ Made(s1) = f /\ Len(s1.ns) = n
  <2>1. Sound(s1) /\ s1.ns = s.ns /\ FormatCount(s1) = FormatCount(s) + 1 /\ FormatCount(s) \in Nat
    BY <1>1, ShapeIs DEF FormatMade, Becomes, Sound
  <2> HIDE DEF s1
  <2> QED BY <2>1 DEF SpaceCount, IsLive, Made, FormatCount
<1>3. u = GiveBack(s2, Entry("FORMAT", f))
  BY <1>2 DEF AddBuiltin, FormatUnref
<1>4. s2 = AddFormat(s1, n, name, f, TRUE)
  OBVIOUS
<1> HIDE DEF s1, f, n, s2
<1>5. /\ Becomes(s1, s2) /\ IsLive(s2, n) /\ SpaceCount(s2) = SpaceCount(s1)
      /\ FormatCount(s2) = FormatCount(s1)
      /\ s2 = s1 \/ FormatBound(s1, s2, n, name, f)
  <2> DEFINE canonical == TRUE
  <2>1. s2 = AddFormat(s1, n, name, f, canonical)
    BY <1>4
  <2> HIDE DEF canonical
  <2> QED BY <1>2, <2>1, AddFormatBinds
<1>6. Sound(s2) /\ f \in 1 .. FormatCount(s2)
  BY <1>2, <1>5 DEF Becomes
<1>7. Refers(s2, Entry("FORMAT", f)) /\ Entry("FORMAT", f).type = "FORMAT"
  BY <1>6, NumbersAre DEF Refers
<1>8. Becomes(s2, u) /\ SpacesKept(s2, u)
  BY <1>3, <1>6, <1>7, GiveBackKeeps
<1>9. Becomes(s, u)
  <2>1. Becomes(s, s1) /\ Becomes(s1, s2)
    BY <1>1, <1>5 DEF FormatMade
  <2>2. Becomes(s, s2)
    BY <2>1, EvolvesIs DEF Becomes
  <2> QED BY <1>8, <2>2, EvolvesIs DEF Becomes
<1>10. SpaceCount(u) = n /\ IsLive(u, n)
  BY <1>2, <1>5, <1>8 DEF SpacesKept, SpaceCount, IsLive
<1>11. \E x1, x2 : /\ FormatMade(s, x1, "BUILTIN", <<>>) /\ Sound(x1)
                   /\ x2 = x1 \/ FormatBound(x1, x2, n, name, FormatCount(x1))
                   /\ Sound(x2) /\ FormatCount(x1) \in 1 .. FormatCount(x2)
                   /\ u = GiveBack(x2, Entry("FORMAT", FormatCount(x1)))
  BY <1>1, <1>2, <1>3, <1>5, <1>6 DEF f
<1> QED BY <1>9, <1>10, <1>11 DEF n

Adds(g, s, max) ==
  /\ max = Len(Builtins) /\ max \in Nat /\ g[0] = NewNamespace(s, TRUE)
  /\ \A i \in 1 .. max : g[i] = AddBuiltin(g[i - 1], Builtins[i]) /\ Builtins[i] \in Names
  /\ NewGlobal(s) = g[max]

LEMMA GlobalAdds ==
  ASSUME NEW s
  PROVE  \E g : Adds(g, s, Len(Builtins))
<1> DEFINE max == Len(Builtins)
           b == NewNamespace(s, TRUE)
           added == CHOOSE added : added = [i \in 0 .. max |->
             IF i = 0 THEN b ELSE AddBuiltin(added[i - 1], Builtins[i])]
<1>1. NewGlobal(s) = added[max]
  BY DEF NewGlobal
<1>2. max \in Nat
  BY NamesAssumption, LenProperties
<1> HIDE DEF max, b
<1>3. PICK g : Steps(g, "add", Builtins, NULL, NULL, NULL, b, max)
  BY <1>2, StepsExist
<1>4. g = [i \in 0 .. max |-> IF i = 0 THEN b ELSE AddBuiltin(g[i - 1], Builtins[i])]
  BY <1>3 DEF Steps, Step
<1>5. added = [i \in 0 .. max |-> IF i = 0 THEN b ELSE AddBuiltin(added[i - 1], Builtins[i])]
  BY <1>4
<1> HIDE DEF added
<1>6. added[0] = b
  BY <1>2, <1>5
<1>7. ASSUME NEW i \in 1 .. max
      PROVE  added[i] = AddBuiltin(added[i - 1], Builtins[i]) /\ Builtins[i] \in Names
  <2>1. i \in 0 .. max /\ i # 0
    BY <1>2
  <2>2. Builtins[i] \in Names
    BY NamesAssumption, ElementOfSeq DEF max
  <2> QED BY <1>5, <2>1, <2>2
<1>8. Adds(added, s, max)
  BY <1>1, <1>2, <1>6, <1>7 DEF Adds, max, b
<1> QED BY <1>8 DEF max

LEMMA AddsKeep ==
  ASSUME NEW s, Sound(s), NEW g, NEW max, Adds(g, s, max)
  PROVE  \A i \in 0 .. max : /\ Becomes(s, g[i]) /\ SpaceCount(g[i]) = SpaceCount(s) + 1
                             /\ IsLive(g[i], SpaceCount(s) + 1)
<1> DEFINE n == SpaceCount(s) + 1
           T == {i \in 0 .. max : /\ Becomes(s, g[i]) /\ SpaceCount(g[i]) = n
                                  /\ IsLive(g[i], n)}
<1>1. max \in Nat
  BY DEF Adds
<1>2. 0 \in T
  <2> DEFINE toplevel == TRUE
             u == g[0]
  <2>1. u = NewNamespace(s, toplevel)
    BY DEF Adds
  <2>2. NewSpace(toplevel).ref_count = 1
    BY DEF NewSpace
  <2> HIDE DEF toplevel, u
  <2>3. SpaceMade(s, u, toplevel) /\ SpaceCount(s) \in Nat
    BY <2>1, NewNamespaceMakes, ShapeIs DEF Sound
  <2>4. Becomes(s, u) /\ SpaceCount(u) = n /\ IsLive(u, n)
    BY <2>2, <2>3 DEF SpaceMade, SpaceAdded, IsLive, Alive
  <2> QED BY <1>1, <2>4 DEF u
<1>3. ASSUME NEW i \in 1 .. max, i - 1 \in T PROVE i \in T
  <2> DEFINE r == g[i - 1]
             u == g[i]
  <2>1. Becomes(s, r) /\ SpaceCount(r) = n /\ IsLive(r, n)
    BY <1>3
  <2>2. u = AddBuiltin(r, Builtins[i]) /\ Builtins[i] \in Names
    BY DEF Adds
  <2> HIDE DEF r, u, n
  <2>3. Becomes(r, u) /\ SpaceCount(u) = n /\ IsLive(u, n)
    BY <2>1, <2>2, AddBuiltinKeeps DEF Becomes
  <2>4. Becomes(s, u)
    BY <2>1, <2>3, EvolvesIs DEF Becomes
  <2> QED BY <2>3, <2>4 DEF u
<1>4. 0 .. max \subseteq T
  <2> HIDE DEF T
  <2> QED BY <1>1, <1>2, <1>3, IndexInduction
<1> QED BY <1>4

LEMMA NewGlobalKeeps ==
  ASSUME NEW s, Sound(s)
  PROVE  /\ Becomes(s, NewGlobal(s)) /\ SpaceCount(NewGlobal(s)) = SpaceCount(s) + 1
         /\ IsLive(NewGlobal(s), SpaceCount(s) + 1)
<1>1. PICK g, max : Adds(g, s, max)
  BY GlobalAdds
<1>2. max \in 0 .. max /\ NewGlobal(s) = g[max]
  BY <1>1 DEF Adds
<1> QED BY <1>1, <1>2, AddsKeep

(***************************************************************************)
(* The calls of a caller                                                   *)
(***************************************************************************)
(* What the caller holds are references to objects that were made.         *)
HeldSound(s, h) ==
  /\ h = [ns |-> h.ns, fmt |-> h.fmt]
  /\ h.ns \in [NsIds -> Nat] /\ h.fmt \in [FmtIds -> Nat]
  /\ \A n \in NsIds : h.ns[n] > 0 => n \in 1 .. SpaceCount(s)
  /\ \A f \in FmtIds : h.fmt[f] > 0 => f \in 1 .. FormatCount(s)
Within(s) == SpaceCount(s) <= MaxSpaces /\ FormatCount(s) <= MaxFormats
StoreSound == Sound(store) /\ Within(store) /\ HeldSound(store, held)

LEMMA InitIsSound ==
  ASSUME InitNamespaces
  PROVE  StoreSound
<1> DEFINE none == FALSE
           s == [ns |-> <<>>, fmt |-> <<>>, global |-> NULL, crashed |-> none, leaks |-> <<>>]
<1>1. store = s /\ none \in BOOLEAN
  BY DEF InitNamespaces, InitStore
<1>2. IsList(<<>>) /\ Len(<<>>) = 0
  BY DEF IsList
<1>3. /\ s.ns = <<>> /\ s.fmt = <<>> /\ s.global = NULL /\ s.crashed = none /\ s.leaks = <<>>
      /\ s = [ns |-> s.ns, fmt |-> s.fmt, global |-> s.global, crashed |-> s.crashed,
              leaks |-> s.leaks]
  <2> HIDE DEF none
  <2> QED OBVIOUS
<1> HIDE DEF none, s
<1>4. SpaceCount(s) = 0 /\ FormatCount(s) = 0
  BY <1>2, <1>3 DEF SpaceCount, FormatCount
<1>5. Shape(s)
  BY <1>1, <1>2, <1>3, <1>4 DEF Shape
<1>6. Sound(s)
  BY <1>3, <1>4, <1>5 DEF Sound
<1>7. Within(s) /\ 1 .. 0 = {}
  BY <1>4, CallerAssumption DEF Within
<1>8. held = [ns |-> [n \in NsIds |-> 0], fmt |-> [f \in FmtIds |-> 0]]
  BY DEF InitNamespaces, InitHeld
<1>9. /\ held = [ns |-> held.ns, fmt |-> held.fmt]
      /\ held.ns = [n \in NsIds |-> 0] /\ held.fmt = [f \in FmtIds |-> 0]
  BY <1>8
<1>10. HeldSound(s, held)
  BY <1>9 DEF HeldSound
<1> QED BY <1>1, <1>6, <1>7, <1>10 DEF StoreSound

(* What the caller passes has been made, and a namespace is there.         *)
LEMMA PassedAre ==
  ASSUME StoreSound
  PROVE  /\ \A n \in Spaces : IsLive(store, n) /\ n \in NsIds
         /\ \A f \in Formats : f \in 1 .. FormatCount(store) /\ f \in FmtIds
         /\ \A n \in NsIds : held.ns[n] > 0 => n \in 1 .. SpaceCount(store)
         /\ \A f \in FmtIds : held.fmt[f] > 0 => f \in 1 .. FormatCount(store)
<1>1. Sound(store) /\ Shape(store) /\ Within(store) /\ HeldSound(store, held)
  BY DEF StoreSound, Sound
<1>2. /\ LiveSpaces(store) = {n \in 1 .. SpaceCount(store) : Alive(store.ns[n])}
      /\ LiveFormats(store) = {f \in 1 .. FormatCount(store) : Alive(store.fmt[f])}
      /\ SpaceCount(store) \in Nat /\ FormatCount(store) \in Nat
  BY <1>1, ShapeIs
<1>3. \A n \in Spaces : IsLive(store, n) /\ n \in NsIds
  BY <1>1, <1>2, CallerAssumption DEF Spaces, IsLive, NsIds, Within
<1>4. \A f \in Known : f \in 1 .. FormatCount(store) /\ Alive(store.fmt[f])
  BY <1>2 DEF Known
<1>5. \A f \in Known : store.fmt[f].array_of \in 1 .. FormatCount(store) \cup {NULL}
  BY <1>1, <1>4 DEF Sound, MembersSound
<1>6. \A f \in Formats : f \in 1 .. FormatCount(store)
  BY <1>4, <1>5 DEF Formats
<1>7. \A f \in Formats : f \in FmtIds
  BY <1>1, <1>2, <1>6, CallerAssumption DEF FmtIds, Within
<1> QED BY <1>1, <1>3, <1>6, <1>7 DEF HeldSound

LEMMA HeldStays ==
  ASSUME NEW s, Sound(s), NEW h, HeldSound(s, h), NEW u, Becomes(s, u)
  PROVE  HeldSound(u, h)
<1>1. /\ SpaceCount(s) \in Nat /\ FormatCount(s) \in Nat
      /\ SpaceCount(u) \in Nat /\ FormatCount(u) \in Nat
      /\ SpaceCount(s) <= SpaceCount(u) /\ FormatCount(s) <= FormatCount(u)
  BY ShapeIs DEF Becomes, Evolves, Sound
<1> QED BY <1>1 DEF HeldSound, NsIds, FmtIds

(* The caller takes a reference or gives one back.                         *)
HeldBy(h, e) == IF e.type = "FORMAT" THEN h.fmt[e.v] ELSE h.ns[e.v]
LEMMA HeldChanges ==
  ASSUME NEW u, NEW h, HeldSound(u, h), NEW e, Refers(u, e), Within(u),
         SpaceCount(u) \in Nat, FormatCount(u) \in Nat,
         NEW d \in {1, -1}, HeldBy(h, e) + d \in Nat,
         NEW k, k = [h EXCEPT ![KindOf(e)][e.v] = @ + d]
  PROVE  HeldSound(u, k)
<1>1. /\ h = [ns |-> h.ns, fmt |-> h.fmt]
      /\ h.ns \in [NsIds -> Nat] /\ h.fmt \in [FmtIds -> Nat]
  BY DEF HeldSound
<1>2. /\ 1 .. SpaceCount(u) \subseteq NsIds
      /\ 1 .. FormatCount(u) \subseteq FmtIds
  BY CallerAssumption DEF NsIds, FmtIds, Within
<1>3. "FORMAT" # "SUBNAMESPACE"
  OBVIOUS
<1>4. CASE e.type = "FORMAT"
  <2>1. e.v \in 1 .. FormatCount(u) /\ KindOf(e) = "fmt" /\ HeldBy(h, e) = h.fmt[e.v]
    BY <1>3, <1>4, NumbersAre DEF Refers, KindOf, HeldBy
  <2> DEFINE l == [h.fmt EXCEPT ![e.v] = @ + d]
  <2>2. k = [ns |-> h.ns, fmt |-> l]
    BY <1>1, <2>1
  <2>3. l \in [FmtIds -> Nat] /\ \A f \in FmtIds : f # e.v => l[f] = h.fmt[f]
    BY <1>1, <1>2, <2>1
  <2> HIDE DEF l
  <2>4. k = [ns |-> k.ns, fmt |-> k.fmt] /\ k.ns = h.ns /\ k.fmt = l
    BY ONLY <2>2
  <2> QED BY <2>1, <2>3, <2>4 DEF HeldSound
<1>5. CASE e.type # "FORMAT"
  <2>1. e.v \in 1 .. SpaceCount(u) /\ KindOf(e) = "ns" /\ HeldBy(h, e) = h.ns[e.v]
    BY <1>3, <1>5, NumbersAre DEF Refers, KindOf, HeldBy
  <2> DEFINE l == [h.ns EXCEPT ![e.v] = @ + d]
  <2>2. k = [ns |-> l, fmt |-> h.fmt]
    BY <1>1, <2>1
  <2>3. l \in [NsIds -> Nat] /\ \A n \in NsIds : n # e.v => l[n] = h.ns[n]
    BY <1>1, <1>2, <2>1
  <2> HIDE DEF l
  <2>4. k = [ns |-> k.ns, fmt |-> k.fmt] /\ k.ns = l /\ k.fmt = h.fmt
    BY ONLY <2>2
  <2> QED BY <2>1, <2>3, <2>4 DEF HeldSound
<1> QED BY <1>4, <1>5

(* A call ends with the heap s, and with what the caller holds then.       *)
LEMMA CallReturns ==
  ASSUME StoreSound, NEW s, Becomes(store, s), Returns(s),
         \/ UNCHANGED held
         \/ \E e, d : /\ Refers(s, e) /\ d \in {1, -1} /\ HeldBy(held, e) + d \in Nat
                      /\ Holds(KindOf(e), e.v, d)
  PROVE  Becomes(store, store') /\ StoreSound'
<1>1. Sound(store) /\ HeldSound(store, held)
  BY DEF StoreSound
<1>2. store' = s /\ Sound(s) /\ Within(s) /\ SpaceCount(s) \in Nat /\ FormatCount(s) \in Nat
  BY ShapeIs DEF Returns, Within, Becomes, Sound, SpaceCount, FormatCount
<1>3. HeldSound(s, held)
  BY <1>1, HeldStays
<1>4. HeldSound(s, held')
  <2>1. CASE UNCHANGED held
    BY <1>3, <2>1
  <2>2. CASE \E e, d : /\ Refers(s, e) /\ d \in {1, -1} /\ HeldBy(held, e) + d \in Nat
                       /\ Holds(KindOf(e), e.v, d)
    <3>1. PICK e, d : /\ Refers(s, e) /\ d \in {1, -1} /\ HeldBy(held, e) + d \in Nat
                      /\ Holds(KindOf(e), e.v, d)
      BY <2>2
    <3>2. held' = [held EXCEPT ![KindOf(e)][e.v] = @ + d]
      BY <3>1 DEF Holds
    <3> QED BY <1>2, <1>3, <3>1, <3>2, HeldChanges
  <2> QED BY <2>1, <2>2
<1> QED BY <1>2, <1>4 DEF StoreSound

LEMMA EntryIs ==
  ASSUME NEW s
  PROVE  /\ \A n \in 1 .. SpaceCount(s) : /\ Refers(s, Entry("SUBNAMESPACE", n))
                                          /\ KindOf(Entry("SUBNAMESPACE", n)) = "ns"
         /\ \A f \in 1 .. FormatCount(s) : /\ Refers(s, Entry("FORMAT", f))
                                           /\ KindOf(Entry("FORMAT", f)) = "fmt"
         /\ \A h, n : HeldBy(h, Entry("SUBNAMESPACE", n)) = h.ns[n]
         /\ \A h, f : HeldBy(h, Entry("FORMAT", f)) = h.fmt[f]
BY DEF Refers, KindOf, HeldBy, Entry

(* The caller has taken, or has given back, a reference.                   *)
LEMMA SpaceHeld ==
  ASSUME StoreSound, NEW s, Becomes(store, s), Returns(s),
         NEW n \in 1 .. SpaceCount(s), NEW d \in {1, -1}, held.ns[n] + d \in Nat,
         Holds("ns", n, d)
  PROVE  Becomes(store, store') /\ StoreSound'
<1> DEFINE e == Entry("SUBNAMESPACE", n)
<1>1. e.v = n
  BY NumbersAre
<1>2. /\ Refers(s, e) /\ HeldBy(held, e) + d \in Nat /\ Holds(KindOf(e), e.v, d)
  BY <1>1, EntryIs
<1> QED BY <1>2, CallReturns
LEMMA FormatHeld ==
  ASSUME StoreSound, NEW s, Becomes(store, s), Returns(s),
         NEW f \in 1 .. FormatCount(s), NEW d \in {1, -1}, held.fmt[f] + d \in Nat,
         Holds("fmt", f, d)
  PROVE  Becomes(store, store') /\ StoreSound'
<1> DEFINE e == Entry("FORMAT", f)
<1>1. e.v = f
  BY NumbersAre
<1>2. /\ Refers(s, e) /\ HeldBy(held, e) + d \in Nat /\ Holds(KindOf(e), e.v, d)
  BY <1>1, EntryIs
<1> QED BY <1>2, CallReturns

(* The static variable gets the namespace that was made last.              *)
LEMMA GlobalSets ==
  ASSUME NEW s, Sound(s), NEW r, Becomes(s, r), NEW n \in 1 .. SpaceCount(r),
         NEW u, u = [r EXCEPT !.global = n]
  PROVE  /\ Becomes(s, u) /\ u.ns = r.ns /\ u.fmt = r.fmt /\ u.crashed = r.crashed
         /\ u.leaks = r.leaks /\ u.global = n
<1>1. Sound(r) /\ Shape(r)
  BY DEF Becomes, Sound
<1>2. r = [ns |-> r.ns, fmt |-> r.fmt, global |-> r.global, crashed |-> r.crashed,
           leaks |-> r.leaks]
  BY <1>1 DEF Shape
<1>3. u = [ns |-> r.ns, fmt |-> r.fmt, global |-> n, crashed |-> r.crashed,
           leaks |-> r.leaks]
  BY <1>2
<1>4. /\ u.ns = r.ns /\ u.fmt = r.fmt /\ u.crashed = r.crashed /\ u.leaks = r.leaks
      /\ u.global = n
      /\ u = [ns |-> u.ns, fmt |-> u.fmt, global |-> u.global, crashed |-> u.crashed,
              leaks |-> u.leaks]
  BY ONLY <1>3
<1>5. SpaceCount(u) = SpaceCount(r) /\ FormatCount(u) = FormatCount(r)
  BY <1>4 DEF SpaceCount, FormatCount
<1>6. Shape(u)
  BY <1>1, <1>4, <1>5 DEF Shape
<1>7. \A e : Refers(r, e) => Refers(u, e)
  BY <1>5 DEF Refers
<1>8. Sound(u)
  <2>1. \A t : TreeSound(r, t) => TreeSound(u, t)
    BY <1>7 DEF TreeSound
  <2>2. \A o : MembersSound(r, o) => MembersSound(u, o)
    BY <1>5 DEF MembersSound
  <2>3. \A o, f : LeadsTo(r, o, f) => LeadsTo(u, o, f)
    BY <1>4, <1>5 DEF LeadsTo
  <2> QED BY ONLY <1>1, n \in 1 .. SpaceCount(r), <1>4, <1>5, <1>6, <2>1, <2>2, <2>3 DEF Sound
<1>9. Evolves(s, u)
  BY <1>4, <1>5 DEF Becomes, Evolves
<1> QED BY <1>4, <1>8, <1>9 DEF Becomes

-----------------------------------------------------------------------------
(* Every call of the caller.                                               *)
LEMMA NewGlobalCall ==
  ASSUME StoreSound, namespace_new_global
  PROVE  Becomes(store, store') /\ StoreSound'
<1> DEFINE s == NewGlobal(store)
           n == SpaceCount(store) + 1
<1>1. Sound(store) /\ HeldSound(store, held) /\ SpaceCount(store) \in Nat
  BY ShapeIs DEF StoreSound, Sound
<1>2. Becomes(store, s) /\ SpaceCount(s) = n /\ Returns(s)
  BY <1>1, NewGlobalKeeps DEF namespace_new_global
<1>3. n \in NsIds /\ held.ns[n] + 1 \in Nat /\ n \in 1 .. SpaceCount(s)
  BY <1>1, <1>2, CallerAssumption DEF Returns, SpaceCount, HeldSound, NsIds
<1>4. Holds("ns", n, 1)
  BY DEF namespace_new_global, SpaceCount
<1> QED BY <1>2, <1>3, <1>4, SpaceHeld

LEMMA GlobalCall ==
  ASSUME StoreSound, namespace_global
  PROVE  Becomes(store, store') /\ StoreSound'
<1> DEFINE r == NewGlobal(store)
           n == Len(store.ns) + 1
           s == [r EXCEPT !.global = n]
<1>1. Sound(store) /\ SpaceCount(store) \in Nat
  BY ShapeIs DEF StoreSound, Sound
<1>2. Becomes(store, r) /\ n \in 1 .. SpaceCount(r)
  BY <1>1, NewGlobalKeeps DEF SpaceCount
<1>3. Becomes(store, s)
  BY <1>1, <1>2, GlobalSets
<1>4. Returns(s) /\ UNCHANGED held
  BY DEF namespace_global
<1> QED BY <1>3, <1>4, CallReturns

LEMMA NamespaceCalls ==
  ASSUME StoreSound
  PROVE  /\ \A n \in Spaces : namespace_ref(n) => Becomes(store, store') /\ StoreSound'
         /\ \A n \in NsIds : namespace_unref(n) => Becomes(store, store') /\ StoreSound'
<1>1. Sound(store) /\ HeldSound(store, held) /\ SpaceCount(store) \in Nat
  BY ShapeIs DEF StoreSound, Sound
<1>2. \A s : Becomes(store, s) => 1 .. SpaceCount(store) \subseteq 1 .. SpaceCount(s)
  BY <1>1, ShapeIs DEF Becomes, Evolves, Sound
<1>3. ASSUME NEW n \in Spaces, namespace_ref(n) PROVE Becomes(store, store') /\ StoreSound'
  <2> DEFINE s == NamespaceRef(store, n)
  <2>1. n \in 1 .. SpaceCount(store) /\ n \in NsIds
    BY PassedAre DEF IsLive
  <2>2. Becomes(store, s)
    BY <1>1, <2>1, NamespaceRefKeeps
  <2>3. Returns(s) /\ Holds("ns", n, 1)
    BY <1>3 DEF namespace_ref
  <2>4. n \in 1 .. SpaceCount(s) /\ held.ns[n] + 1 \in Nat
    BY <1>1, <1>2, <2>1, <2>2 DEF HeldSound
  <2> QED BY <2>2, <2>3, <2>4, SpaceHeld
<1>4. ASSUME NEW n \in NsIds, namespace_unref(n) PROVE Becomes(store, store') /\ StoreSound'
  <2> DEFINE s == NamespaceUnref(store, n)
  <2>1. n \in 1 .. SpaceCount(store) /\ held.ns[n] > 0
    BY <1>1, <1>4 DEF HeldSound, namespace_unref
  <2>2. Refers(store, Entry("SUBNAMESPACE", n))
    BY <2>1, EntryIs
  <2>3. Becomes(store, s)
    BY <1>1, <2>2, GiveBackKeeps DEF NamespaceUnref
  <2>4. Returns(s) /\ Holds("ns", n, -1)
    BY <1>4 DEF namespace_unref
  <2>5. n \in 1 .. SpaceCount(s) /\ held.ns[n] + (-1) \in Nat
    BY <1>1, <1>2, <2>1, <2>3 DEF HeldSound
  <2> QED BY <2>3, <2>4, <2>5, SpaceHeld
<1> QED BY <1>3, <1>4

LEMMA FormatCalls ==
  ASSUME StoreSound
  PROVE  /\ \A f \in Formats : format_ref(f) => Becomes(store, store') /\ StoreSound'
         /\ \A f \in FmtIds : format_unref(f) => Becomes(store, store') /\ StoreSound'
         /\ \A f \in Formats, junk \in BOOLEAN :
              format_array_of(f, junk) => Becomes(store, store') /\ StoreSound'
<1>1. Sound(store) /\ HeldSound(store, held) /\ FormatCount(store) \in Nat
  BY ShapeIs DEF StoreSound, Sound
<1>2. \A s : Becomes(store, s) => 1 .. FormatCount(store) \subseteq 1 .. FormatCount(s)
  BY <1>1, ShapeIs DEF Becomes, Evolves, Sound
<1>3. ASSUME NEW f \in Formats, format_ref(f) PROVE Becomes(store, store') /\ StoreSound'
  <2> DEFINE s == FormatRef(store, f)
  <2>1. f \in 1 .. FormatCount(store) /\ f \in FmtIds
    BY PassedAre
  <2>2. Becomes(store, s)
    BY <1>1, <2>1, FormatRefKeeps
  <2>3. Returns(s) /\ Holds("fmt", f, 1)
    BY <1>3 DEF format_ref
  <2>4. f \in 1 .. FormatCount(s) /\ held.fmt[f] + 1 \in Nat
    BY <1>1, <1>2, <2>1, <2>2 DEF HeldSound
  <2> QED BY <2>2, <2>3, <2>4, FormatHeld
<1>4. ASSUME NEW f \in FmtIds, format_unref(f) PROVE Becomes(store, store') /\ StoreSound'
  <2> DEFINE s == FormatUnref(store, f)
  <2>1. f \in 1 .. FormatCount(store) /\ held.fmt[f] > 0
    BY <1>1, <1>4 DEF HeldSound, format_unref
  <2>2. Refers(store, Entry("FORMAT", f))
    BY <2>1, EntryIs
  <2>3. Becomes(store, s)
    BY <1>1, <2>2, GiveBackKeeps DEF FormatUnref
  <2>4. Returns(s) /\ Holds("fmt", f, -1)
    BY <1>4 DEF format_unref
  <2>5. f \in 1 .. FormatCount(s) /\ held.fmt[f] + (-1) \in Nat
    BY <1>1, <1>2, <2>1, <2>3 DEF HeldSound
  <2> QED BY <2>3, <2>4, <2>5, FormatHeld
<1>5. ASSUME NEW f \in Formats, NEW junk \in BOOLEAN, format_array_of(f, junk)
      PROVE  Becomes(store, store') /\ StoreSound'
  <2> DEFINE s == ArrayOf(store, f, junk)
  <2>1. f \in 1 .. FormatCount(store)
    BY PassedAre
  <2>2. Becomes(store, s)
    BY <1>1, <2>1, ArrayOfMakes
  <2>3. Returns(s) /\ UNCHANGED held
    BY <1>5 DEF format_array_of
  <2> QED BY <2>2, <2>3, CallReturns
<1> QED BY <1>3, <1>4, <1>5

(* The members of a format that is made are what the caller may pass.      *)
LEMMA MembersArePassed ==
  ASSUME StoreSound, NEW members \in BoundedSeq(Formats \cup {NULL}, MaxMembers)
  PROVE  MayHave(store, members)
<1>1. PICK m \in 0 .. MaxMembers : members \in [1 .. m -> Formats \cup {NULL}]
  BY DEF BoundedSeq, SeqOf
<1>2. members \in Seq(Formats \cup {NULL})
  BY <1>1, CallerAssumption
<1>3. IsList(members) /\ Len(members) = m
  BY <1>1, <1>2, ListOfSeq, CallerAssumption
<1> QED BY <1>1, <1>3, PassedAre DEF MayHave

LEMMA FormatMadeCall ==
  ASSUME StoreSound, NEW type, NEW members \in BoundedSeq(Formats \cup {NULL}, MaxMembers),
         format_new(type, members)
  PROVE  Becomes(store, store') /\ StoreSound'
<1> DEFINE s == NewFormat(store, type, members)
           f == FormatCount(store) + 1
<1>1. Sound(store) /\ HeldSound(store, held) /\ FormatCount(store) \in Nat
  BY ShapeIs DEF StoreSound, Sound
<1>2. Becomes(store, s) /\ FormatCount(s) = f /\ Returns(s)
  <2>1. FormatMade(store, s, type, members)
    BY <1>1, MembersArePassed, NewFormatMakes
  <2>2. Returns(s)
    BY DEF format_new
  <2> QED BY <2>1, <2>2 DEF FormatMade
<1>3. f \in FmtIds /\ held.fmt[f] + 1 \in Nat /\ f \in 1 .. FormatCount(s)
  BY <1>1, <1>2, CallerAssumption DEF Returns, FormatCount, HeldSound, FmtIds
<1>4. Holds("fmt", f, 1)
  BY DEF format_new, FormatCount
<1> QED BY <1>2, <1>3, <1>4, FormatHeld

(* The calls that bind names.                                              *)
LEMMA BindingCalls ==
  ASSUME StoreSound, NEW n \in Spaces
  PROVE  /\ \A name \in CallerNames, subns \in Spaces :
              add_subnamespace(n, name, subns) => Becomes(store, store') /\ StoreSound'
         /\ \A name \in CallerNames, f \in Formats :
              add_format(n, name, f) => Becomes(store, store') /\ StoreSound'
         /\ \A path \in Paths :
              force_subnamespace(n, path) => Becomes(store, store') /\ StoreSound'
<1>1. Sound(store) /\ IsLive(store, n)
  BY PassedAre DEF StoreSound
<1>2. ASSUME NEW name \in CallerNames, NEW subns \in Spaces, add_subnamespace(n, name, subns)
      PROVE  Becomes(store, store') /\ StoreSound'
  <2> DEFINE s == AddSubnamespace(store, n, name, subns)
  <2>1. name \in Names /\ subns \in 1 .. SpaceCount(store)
    BY PassedAre, CallerAssumption DEF IsLive
  <2>2. Becomes(store, s)
    BY <1>1, <2>1, AddSubnamespaceBinds
  <2>3. Returns(s) /\ UNCHANGED held
    BY <1>2 DEF add_subnamespace
  <2> QED BY <2>2, <2>3, CallReturns
<1>3. ASSUME NEW name \in CallerNames, NEW f \in Formats, add_format(n, name, f)
      PROVE  Becomes(store, store') /\ StoreSound'
  <2> DEFINE first == store.fmt[f].canonical_name = NULL
             s == AddFormat(store, n, name, f, first)
  <2>1. name \in Names /\ f \in 1 .. FormatCount(store)
    BY PassedAre, CallerAssumption
  <2>2. Returns(s) /\ UNCHANGED held
    BY <1>3 DEF add_format
  <2> HIDE DEF first
  <2>3. Becomes(store, s)
    BY <1>1, <2>1, AddFormatBinds
  <2> QED BY <2>2, <2>3, CallReturns
<1>4. ASSUME NEW path \in Paths, force_subnamespace(n, path)
      PROVE  Becomes(store, store') /\ StoreSound'
  <2> DEFINE s == ForceSubnamespace(store, n, path).s
  <2>1. path \in Seq(Names)
    BY CallerAssumption
  <2>2. Becomes(store, s)
    BY <1>1, <2>1, ForceKeeps
  <2>3. Returns(s) /\ UNCHANGED held
    BY <1>4 DEF force_subnamespace
  <2> QED BY <2>2, <2>3, CallReturns
<1> QED BY <1>2, <1>3, <1>4

LEMMA CallsKeep ==
  ASSUME StoreSound, CallerNext
  PROVE  Becomes(store, store') /\ StoreSound'
BY NewGlobalCall, GlobalCall, NamespaceCalls, FormatCalls, FormatMadeCall, BindingCalls
   DEF CallerNext

(* The heap is sound between the calls.                                    *)
LEMMA StoreStaysSound == Namespaces => []StoreSound
<1>1. InitNamespaces => StoreSound
  BY InitIsSound
<1>2. StoreSound /\ [CallerNext]_<<store, held>> => StoreSound'
  <2> SUFFICES ASSUME StoreSound, [CallerNext]_<<store, held>> PROVE StoreSound'
    OBVIOUS
  <2>1. CASE CallerNext
    BY <2>1, CallsKeep
  <2>2. CASE UNCHANGED <<store, held>>
    BY <2>2 DEF StoreSound
  <2> QED BY <2>1, <2>2
<1> QED BY <1>1, <1>2, PTL DEF Namespaces

LEMMA SoundTreesSearch == StoreSound => TreesSearchable
<1> SUFFICES ASSUME StoreSound, NEW n \in LiveSpaces(store)
             PROVE  LET t == store.ns[n].by_name
                    IN /\ IsRedBlackTree(t, NodesInOrder)
                       /\ \A x \in Nodes(t) : x = Malloced(NodeName(x))
  BY DEF TreesSearchable
<1>1. Sound(store) /\ IsLive(store, n)
  BY ShapeIs DEF StoreSound, Sound, IsLive
<1>2. Tidy(store.ns[n].by_name)
  BY <1>1, LiveIs DEF TreeOf
<1> QED BY <1>2, TidyIs

(* The tree of every namespace is a red-black tree in the order of strcmp  *)
(* and holds no node of the stack of force_subnamespace_1, whatever calls  *)
(* have inserted into it and replaced in it (dsk-rbtree-macros.h and       *)
(* bulp-namespace.c).                                                      *)
THEOREM TreesStaySearchable == Namespaces => []TreesSearchable
BY SoundTreesSearch, StoreStaysSound, PTL

LEMMA SoundNamesLead == StoreSound => CanonicalNamesLead
<1> SUFFICES ASSUME StoreSound, NEW f \in LiveFormats(store),
                    NEW n, n = store.fmt[f].canonical_ns, n \in LiveSpaces(store)
             PROVE  Query1(store, n, store.fmt[f].canonical_name) = Entry("FORMAT", f)
  BY DEF CanonicalNamesLead
<1> DEFINE o == store.fmt[f]
           name == o.canonical_name
<1>1. /\ Sound(store) /\ IsLive(store, n) /\ n \in 1 .. SpaceCount(store)
      /\ f \in 1 .. FormatCount(store) /\ Alive(o) /\ SpaceCount(store) \in Nat
  BY ShapeIs DEF StoreSound, Sound, IsLive
<1>2. LeadsTo(store, o, f) /\ o.canonical_ns # NULL
  BY <1>1, NumbersAre DEF Sound
<1>3. name \in Names /\ HasName(store, n, name) /\ Binding(store, n, name) = Entry("FORMAT", f)
  BY <1>1, <1>2 DEF LeadsTo, HasName, Binding, TreeOf, IsLive
<1> QED BY <1>1, <1>3, LiveIs

(* The canonical name that bulp_namespace_add_format gives a format leads  *)
(* to the format as long as the namespace is there: the pointers to the    *)
(* namespace and into its node hold no reference and never go astray.      *)
THEOREM CanonicalNamesKeepLeading == Namespaces => []CanonicalNamesLead
BY SoundNamesLead, StoreStaysSound, PTL

-----------------------------------------------------------------------------
(* The tables of names                                                     *)

(* The table of a namespace in the heap s, as Table gives it in store.     *)
TableOf(s, n) ==
  IF n \notin LiveSpaces(s) THEN NULL ELSE [name \in Names |-> Query1(s, n, name)]

LEMMA TableIs ==
  ASSUME NEW s, Sound(s), Within(s), NEW n \in LiveSpaces(s)
  PROVE  /\ IsLive(s, n) /\ TableOf(s, n) = [name \in Names |-> Query1(s, n, name)]
         /\ \A name \in Names : /\ Query1(s, n, name) \in Entries \cup {NULL}
                                /\ HasName(s, n, name) => Query1(s, n, name) = Binding(s, n, name)
                                /\ Query1(s, n, name) # NULL <=> HasName(s, n, name)
<1>1. IsLive(s, n) /\ SpaceCount(s) \in Nat /\ FormatCount(s) \in Nat
  BY ShapeIs DEF IsLive, Sound
<1>2. /\ 1 .. SpaceCount(s) \subseteq NsIds
      /\ 1 .. FormatCount(s) \subseteq FmtIds
  BY <1>1, CallerAssumption DEF Within, NsIds, FmtIds
<1>3. \A e : Refers(s, e) => e \in Entries /\ e # NULL
  <2> SUFFICES ASSUME NEW e, Refers(s, e) PROVE e \in Entries /\ e # NULL
    OBVIOUS
  <2>1. e # NULL
    BY NumbersAre
  <2>2. CASE e = Entry("FORMAT", e.v) /\ e.v \in 1 .. FormatCount(s)
    BY <1>2, <2>1, <2>2 DEF Entry, Entries
  <2>3. CASE e = Entry("SUBNAMESPACE", e.v) /\ e.v \in 1 .. SpaceCount(s)
    BY <1>2, <2>1, <2>3 DEF Entry, Entries
  <2> QED BY <2>2, <2>3 DEF Refers
<1>4. TableOf(s, n) = [name \in Names |-> Query1(s, n, name)]
  BY DEF TableOf
<1> QED BY <1>1, <1>3, <1>4, LiveIs

LEMMA TablesFollow ==
  ASSUME NEW s, Sound(s), NEW u, Becomes(s, u), Within(u), Within(s), NEW n,
         NEW old, old = TableOf(s, n), NEW new, new = TableOf(u, n)
  PROVE  \/ Abstract!Stay(old, new) \/ Abstract!Appear(old, new)
         \/ Abstract!Bind(old, new) \/ Abstract!Drop(old, new)
<1> USE DEF Abstract!Stay, Abstract!Appear, Abstract!Bind, Abstract!Drop
<1>1. Sound(u) /\ Evolves(s, u)
  BY DEF Becomes
<1>2. CASE new = NULL
  BY <1>2
<1>3. CASE new # NULL
  <2>1. n \in LiveSpaces(u)
    BY <1>3 DEF TableOf
  <2>2. Abstract!IsTable(new)
    BY <1>1, <2>1, TableIs DEF Abstract!IsTable
  <2>3. CASE old # NULL
    <3>1. n \in LiveSpaces(s)
      BY <2>3 DEF TableOf
    <3>2. IsLive(s, n) /\ IsLive(u, n)
      BY <1>1, <2>1, <3>1, TableIs
    <3>3. Kept(TreeOf(s, n), TreeOf(u, n))
      BY <1>1, <3>2 DEF Evolves, IsLive, TreeOf
    <3>4. ASSUME NEW x \in Names, old[x] # NULL PROVE new[x] = old[x]
      <4>1. /\ old[x] = Query1(s, n, x) /\ new[x] = Query1(u, n, x)
        BY <1>1, <2>1, <3>1, TableIs
      <4>2. HasName(s, n, x) /\ old[x] = Binding(s, n, x)
        BY <3>1, <3>4, <4>1, TableIs
      <4>3. HasName(u, n, x) /\ Binding(u, n, x) = Binding(s, n, x)
        BY <3>3, <4>2 DEF Kept, HasName, Binding
      <4> QED BY <1>1, <2>1, <4>1, <4>2, <4>3, TableIs
    <3> QED BY <1>3, <2>2, <2>3, <3>4 DEF Abstract!Keeps
  <2> QED BY <1>3, <2>2, <2>3
<1> QED BY <1>2, <1>3

LEMMA InitMaps ==
  ASSUME InitNamespaces
  PROVE  Abstract!Init
<1>1. store.ns = <<>>
  BY DEF InitNamespaces, InitStore
<1>2. LiveSpaces(store) = {}
  BY <1>1 DEF LiveSpaces
<1> QED BY <1>2 DEF Abstract!Init, Table

LEMMA HeapMaps ==
  ASSUME StoreSound, Becomes(store, store'), StoreSound'
  PROVE  Abstract!Next
<1>1. Sound(store) /\ Within(store) /\ Within(store')
  BY DEF StoreSound
<1>2. \A n : Table(n) = TableOf(store, n) /\ Table(n)' = TableOf(store', n)
  BY DEF Table, TableOf
<1>3. ASSUME NEW n \in NsIds
      PROVE  \/ Abstract!Stay(Table(n), Table(n)') \/ Abstract!Appear(Table(n), Table(n)')
             \/ Abstract!Bind(Table(n), Table(n)') \/ Abstract!Drop(Table(n), Table(n)')
  BY <1>1, <1>2, TablesFollow
<1> QED BY <1>3 DEF Abstract!Next

(* Seen through bulp_namespace_query_1, the namespaces are tables in which *)
(* a name keeps its meaning until the whole namespace is destroyed,        *)
(* whatever the calls bind, force and give back.                           *)
THEOREM NamespacesAreTables == Namespaces => ImplementsNameTables
<1>1. InitNamespaces => Abstract!Init
  BY InitMaps
<1>2. StoreSound /\ [CallerNext]_<<store, held>>
        => [Abstract!Next]_[n \in NsIds |-> Table(n)]
  <2> SUFFICES ASSUME StoreSound, [CallerNext]_<<store, held>>
               PROVE  [Abstract!Next]_[n \in NsIds |-> Table(n)]
    OBVIOUS
  <2>1. CASE CallerNext
    BY <2>1, CallsKeep, HeapMaps
  <2>2. CASE UNCHANGED <<store, held>>
    BY <2>2 DEF Table
  <2> QED BY <2>1, <2>2
<1> QED BY <1>1, <1>2, StoreStaysSound, PTL
    DEF Namespaces, ImplementsNameTables, Abstract!Spec

(***************************************************************************)
(* Counting references                                                     *)
(***************************************************************************)
LEMMA BijectionCounts ==
  ASSUME NEW S, IsFiniteSet(S), NEW T, NEW f, f \in [S -> T],
         \A i, j \in S : f[i] = f[j] => i = j, \A r \in T : \E i \in S : f[i] = r
  PROVE  IsFiniteSet(T) /\ Cardinality(T) = Cardinality(S) /\ Cardinality(S) \in Nat
<1>1. f \in Bijection(S, T)
  BY DEF Bijection, Injection, Surjection, IsInjective
<1>2. ExistsBijection(S, T)
  BY <1>1 DEF ExistsBijection
<1> QED BY <1>2, FS_Bijection, FS_CardinalityType

LEMMA DisjointCounts ==
  ASSUME NEW S, IsFiniteSet(S), NEW T, IsFiniteSet(T), S \cap T = {}
  PROVE  /\ IsFiniteSet(S \cup T) /\ Cardinality(S \cup T) = Cardinality(S) + Cardinality(T)
         /\ Cardinality(S) \in Nat /\ Cardinality(T) \in Nat
<1>1. Cardinality(S) \in Nat /\ Cardinality(T) \in Nat
  BY FS_CardinalityType
<1>2. Cardinality(S \cap T) = 0
  BY FS_EmptySet
<1>3. IsFiniteSet(S \cup T)
      /\ Cardinality(S \cup T) = Cardinality(S) + Cardinality(T) - Cardinality(S \cap T)
  BY FS_Union
<1> QED BY <1>1, <1>2, <1>3

(* Where a list has a member of V.                                         *)
Spots(q, V) == {i \in 1 .. Len(q) : q[i] \in V}
CountIn(q, V) == Cardinality(Spots(q, V))

LEMMA SpotsAre ==
  ASSUME NEW q, IsList(q), NEW V
  PROVE  /\ IsFiniteSet(Spots(q, V)) /\ CountIn(q, V) \in Nat
         /\ Spots(q, V) = {i \in DOMAIN q : q[i] \in V}
         /\ (\A i \in 1 .. Len(q) : q[i] \in V) => CountIn(q, V) = Len(q)
         /\ (\A i \in 1 .. Len(q) : q[i] \notin V) => CountIn(q, V) = 0
         /\ \A i \in 1 .. Len(q) : q[i] \in V => CountIn(q, V) > 0
<1>1. Len(q) \in Nat /\ DOMAIN q = 1 .. Len(q)
  BY ListIs
<1>2. IsFiniteSet(1 .. Len(q)) /\ Cardinality(1 .. Len(q)) = Len(q)
  <2> DEFINE n == Len(q)
  <2>1. n \in Nat
    BY <1>1
  <2> HIDE DEF n
  <2>2. /\ IsFiniteSet(1 .. n)
        /\ Cardinality(1 .. n) = IF 1 > n THEN 0 ELSE n - 1 + 1
    BY <2>1, FS_Interval
  <2>3. Cardinality(1 .. n) = n
    BY <2>1, <2>2
  <2> QED BY <2>2, <2>3 DEF n
<1>3. Spots(q, V) \in SUBSET (1 .. Len(q))
  BY DEF Spots
<1>4. IsFiniteSet(Spots(q, V))
  BY <1>2, <1>3, FS_Subset
<1>5. CountIn(q, V) \in Nat /\ (CountIn(q, V) = 0 <=> Spots(q, V) = {})
  BY <1>4, FS_CardinalityType, FS_EmptySet DEF CountIn
<1>6. ASSUME \A i \in 1 .. Len(q) : q[i] \in V PROVE CountIn(q, V) = Len(q)
  <2>1. Spots(q, V) = 1 .. Len(q)
    BY <1>6 DEF Spots
  <2> QED BY <1>2, <2>1 DEF CountIn
<1> QED BY <1>1, <1>4, <1>5, <1>6 DEF Spots

MovedBy(S, k) == {i + k : i \in S}

LEMMA SpotsMove ==
  ASSUME NEW S \in SUBSET Nat, IsFiniteSet(S), NEW k \in Nat
  PROVE  IsFiniteSet(MovedBy(S, k)) /\ Cardinality(MovedBy(S, k)) = Cardinality(S)
<1> DEFINE T == MovedBy(S, k)
           f == [i \in S |-> i + k]
<1>0. \A i \in S : f[i] = i + k
  OBVIOUS
<1>1. f \in [S -> T]
  BY DEF MovedBy
<1>2. \A i, j \in S : f[i] = f[j] => i = j
  BY <1>0
<1>3. \A r \in T : \E i \in S : f[i] = r
  BY <1>0 DEF MovedBy
<1> HIDE DEF T, f
<1>4. IsFiniteSet(T) /\ Cardinality(T) = Cardinality(S)
  BY <1>1, <1>2, <1>3, BijectionCounts
<1> QED BY <1>4 DEF T

LEMMA SpotsJoin ==
  ASSUME NEW a, IsList(a), NEW b, IsList(b), NEW V
  PROVE  CountIn(a \o b, V) = CountIn(a, V) + CountIn(b, V)
<1> DEFINE S == Spots(a, V)
           T == MovedBy(Spots(b, V), Len(a))
<1>1. /\ IsList(a \o b) /\ Len(a \o b) = Len(a) + Len(b) /\ Len(a) \in Nat /\ Len(b) \in Nat
      /\ \A i \in 1 .. Len(a) : (a \o b)[i] = a[i]
      /\ \A i \in 1 .. Len(b) : (a \o b)[Len(a) + i] = b[i]
  BY ListJoins
<1>2. Spots(a \o b, V) = S \cup T
  <2>1. ASSUME NEW i \in Spots(a \o b, V) PROVE i \in S \cup T
    <3>1. i \in 1 .. Len(a) + Len(b) /\ (a \o b)[i] \in V
      BY <1>1, <2>1 DEF Spots
    <3>2. CASE i <= Len(a)
      BY <1>1, <3>1, <3>2 DEF Spots
    <3>3. CASE i > Len(a)
      <4>1. i - Len(a) \in 1 .. Len(b) /\ Len(a) + (i - Len(a)) = i
        BY <1>1, <3>1, <3>3
      <4>2. i - Len(a) \in Spots(b, V)
        BY <1>1, <3>1, <4>1 DEF Spots
      <4>3. i = (i - Len(a)) + Len(a)
        BY <1>1, <3>1
      <4> QED BY <4>2, <4>3 DEF MovedBy
    <3> QED BY <1>1, <3>1, <3>2, <3>3
  <2>2. ASSUME NEW i \in S PROVE i \in Spots(a \o b, V)
    BY <1>1, <2>2 DEF Spots
  <2>3. ASSUME NEW i \in Spots(b, V) PROVE i + Len(a) \in Spots(a \o b, V)
    <3>1. i \in 1 .. Len(b) /\ b[i] \in V
      BY <2>3 DEF Spots
    <3>2. i + Len(a) \in 1 .. Len(a) + Len(b) /\ i + Len(a) = Len(a) + i
      BY <1>1, <3>1
    <3> QED BY <1>1, <3>1, <3>2 DEF Spots
  <2> QED BY <2>1, <2>2, <2>3 DEF MovedBy
<1>3. IsFiniteSet(S) /\ IsFiniteSet(Spots(b, V)) /\ Spots(b, V) \in SUBSET Nat
  <2>1. IsFiniteSet(Spots(a, V)) /\ IsFiniteSet(Spots(b, V))
    BY SpotsAre
  <2>2. Spots(b, V) \in SUBSET Nat
    BY <1>1 DEF Spots
  <2> QED BY <2>1, <2>2
<1>4. IsFiniteSet(T) /\ Cardinality(T) = Cardinality(Spots(b, V))
  BY <1>1, <1>3, SpotsMove
<1>5. S \cap T = {}
  BY <1>1 DEF Spots, MovedBy
<1> HIDE DEF S, T
<1>6. Cardinality(S \cup T) = Cardinality(S) + Cardinality(T)
  BY <1>3, <1>4, <1>5, DisjointCounts
<1> QED BY <1>2, <1>4, <1>6 DEF CountIn, S

LEMMA SpotsOne ==
  ASSUME NEW e, NEW V
  PROVE  /\ CountIn(<<e>>, V) = (IF e \in V THEN 1 ELSE 0) /\ IsList(<<e>>)
         /\ CountIn(<<>>, V) = 0 /\ IsList(<<>>)
<1>1. Len(<<e>>) = 1 /\ <<e>>[1] = e /\ IsList(<<e>>) /\ Len(<<>>) = 0 /\ IsList(<<>>)
  BY DEF IsList
<1>2. Spots(<<e>>, V) = (IF e \in V THEN {1} ELSE {}) /\ Spots(<<>>, V) = {}
  BY <1>1 DEF Spots
<1>3. Cardinality({1}) = 1 /\ Cardinality({}) = 0
  BY FS_Singleton, FS_EmptySet
<1> QED BY <1>1, <1>2, <1>3 DEF CountIn

LEMMA SpotsTail ==
  ASSUME NEW q, IsList(q), q # <<>>, NEW V
  PROVE  /\ CountIn(q, V) = CountIn(Tail(q), V) + (IF Head(q) \in V THEN 1 ELSE 0)
         /\ CountIn(Tail(q), V) \in Nat
<1>1. /\ IsList(Tail(q)) /\ Len(Tail(q)) = Len(q) - 1 /\ Len(q) \in Nat \ {0} /\ Head(q) = q[1]
      /\ \A i \in 1 .. Len(q) - 1 : Tail(q)[i] = q[i + 1]
  BY ListTail
<1> DEFINE S == IF q[1] \in V THEN {1} ELSE {}
           T == MovedBy(Spots(Tail(q), V), 1)
<1>2. Spots(q, V) = S \cup T
  <2>1. ASSUME NEW i \in Spots(q, V) PROVE i \in S \cup T
    <3>1. i \in 1 .. Len(q) /\ q[i] \in V
      BY <2>1 DEF Spots
    <3>2. CASE i = 1
      BY <3>1, <3>2
    <3>3. CASE i # 1
      <4>1. i - 1 \in 1 .. Len(q) - 1 /\ (i - 1) + 1 = i
        BY <1>1, <3>1, <3>3
      <4>2. i - 1 \in Spots(Tail(q), V)
        BY <1>1, <3>1, <4>1 DEF Spots
      <4> QED BY <4>1, <4>2 DEF MovedBy
    <3> QED BY <3>2, <3>3
  <2>2. ASSUME NEW i \in S PROVE i \in Spots(q, V)
    BY <1>1, <2>2 DEF Spots
  <2>3. ASSUME NEW i \in Spots(Tail(q), V) PROVE i + 1 \in Spots(q, V)
    <3>1. i \in 1 .. Len(q) - 1 /\ Tail(q)[i] \in V
      BY <1>1, <2>3 DEF Spots
    <3>2. i + 1 \in 1 .. Len(q)
      BY <1>1, <3>1
    <3> QED BY <1>1, <3>1, <3>2 DEF Spots
  <2> QED BY <2>1, <2>2, <2>3 DEF MovedBy
<1>3. IsFiniteSet(Spots(Tail(q), V)) /\ Spots(Tail(q), V) \in SUBSET Nat
      /\ CountIn(Tail(q), V) \in Nat
  <2>1. IsFiniteSet(Spots(Tail(q), V)) /\ CountIn(Tail(q), V) \in Nat
    BY <1>1, SpotsAre
  <2>2. Spots(Tail(q), V) \in SUBSET Nat
    BY <1>1 DEF Spots
  <2> QED BY <2>1, <2>2
<1>4. IsFiniteSet(T) /\ Cardinality(T) = CountIn(Tail(q), V)
  <2> DEFINE P == Spots(Tail(q), V)
  <2>1. IsFiniteSet(P) /\ P \in SUBSET Nat /\ T = MovedBy(P, 1)
    BY <1>3
  <2>2. Cardinality(P) = CountIn(Tail(q), V)
    BY DEF CountIn
  <2> HIDE DEF P, T
  <2>3. IsFiniteSet(T) /\ Cardinality(T) = Cardinality(P)
    BY <2>1, SpotsMove
  <2> QED BY <2>2, <2>3
<1>5. IsFiniteSet(S) /\ Cardinality(S) = (IF q[1] \in V THEN 1 ELSE 0)
  BY FS_Singleton, FS_EmptySet
<1>6. S \cap T = {}
  BY <1>1 DEF Spots, MovedBy
<1> HIDE DEF S, T
<1>7. Cardinality(S \cup T) = Cardinality(S) + Cardinality(T)
  BY <1>4, <1>5, <1>6, DisjointCounts
<1>8. CountIn(q, V) = Cardinality(S) + Cardinality(T)
  BY <1>2, <1>7 DEF CountIn
<1> QED BY <1>1, <1>3, <1>4, <1>5, <1>8

(* The references that objects 1 to N hold, F[v] those of the object v.    *)
SlotCount(F, N) == Cardinality(SlotsIn(F, 1 .. N))

LEMMA SlotsSplit ==
  ASSUME NEW N \in Nat, NEW F, \A v \in 1 .. N : IsFiniteSet(F[v]), NEW n \in 1 .. N,
         NEW L, L = (1 .. N) \ {n}
  PROVE  /\ SlotCount(F, N) = Cardinality(SlotsIn(F, L)) + Cardinality(F[n])
         /\ SlotCount(F, N) \in Nat /\ Cardinality(SlotsIn(F, L)) \in Nat
         /\ Cardinality(F[n]) \in Nat
<1>1. IsFiniteSet(1 .. N)
  BY FS_Interval
<1>2. IsFiniteSet(L)
  BY <1>1, FS_Difference
<1>3. IsFiniteSet(SlotsIn(F, L)) /\ IsFiniteSet(SlotsIn(F, 1 .. N))
  BY <1>1, <1>2, SlotsFinite
<1>4. IsFiniteSet(Slots(n, F[n])) /\ Cardinality(Slots(n, F[n])) = Cardinality(F[n])
  BY SlotsAre
<1>5. \A M, r : r \in SlotsIn(F, M) <=> \E v \in M : \E i \in F[v] : r = <<v, i>>
  BY DEF SlotsIn, Slots
<1>6. SlotsIn(F, 1 .. N) = SlotsIn(F, L) \cup Slots(n, F[n])
  BY <1>5, SlotsAre
<1>7. SlotsIn(F, L) \cap Slots(n, F[n]) = {}
  BY <1>5, SlotsAre
<1>8. Cardinality(SlotsIn(F, 1 .. N)) = Cardinality(SlotsIn(F, L)) + Cardinality(Slots(n, F[n]))
  BY <1>3, <1>4, <1>6, <1>7, DisjointCounts
<1> QED BY <1>3, <1>4, <1>8, FS_CardinalityType DEF SlotCount

LEMMA SlotsAlike ==
  ASSUME NEW L, NEW F, NEW G, \A v \in L : F[v] = G[v]
  PROVE  SlotsIn(F, L) = SlotsIn(G, L)
<1>1. {Slots(v, F[v]) : v \in L} = {Slots(v, G[v]) : v \in L}
  OBVIOUS
<1> QED BY <1>1 DEF SlotsIn

(* One object holds other references than before.                          *)
LEMMA SlotsChange ==
  ASSUME NEW N \in Nat, NEW F, NEW G, \A v \in 1 .. N : IsFiniteSet(F[v]) /\ IsFiniteSet(G[v]),
         NEW n \in 1 .. N, \A v \in 1 .. N : v # n => F[v] = G[v]
  PROVE  /\ SlotCount(G, N) + Cardinality(F[n]) = SlotCount(F, N) + Cardinality(G[n])
         /\ SlotCount(F, N) \in Nat /\ SlotCount(G, N) \in Nat
         /\ Cardinality(F[n]) \in Nat /\ Cardinality(G[n]) \in Nat
<1> DEFINE L == (1 .. N) \ {n}
<1>1. SlotsIn(F, L) = SlotsIn(G, L)
  BY SlotsAlike
<1> HIDE DEF L
<1>2. /\ SlotCount(F, N) = Cardinality(SlotsIn(F, L)) + Cardinality(F[n])
      /\ SlotCount(F, N) \in Nat /\ Cardinality(SlotsIn(F, L)) \in Nat /\ Cardinality(F[n]) \in Nat
  BY SlotsSplit DEF L
<1>3. /\ SlotCount(G, N) = Cardinality(SlotsIn(G, L)) + Cardinality(G[n])
      /\ SlotCount(G, N) \in Nat /\ Cardinality(G[n]) \in Nat
  BY SlotsSplit DEF L
<1> QED BY <1>1, <1>2, <1>3

(* There is an object more.                                                *)
LEMMA SlotsGrow ==
  ASSUME NEW N \in Nat, NEW F, NEW G, \A v \in 1 .. N + 1 : IsFiniteSet(G[v]),
         \A v \in 1 .. N : F[v] = G[v]
  PROVE  /\ SlotCount(G, N + 1) = SlotCount(F, N) + Cardinality(G[N + 1])
         /\ SlotCount(F, N) \in Nat /\ Cardinality(G[N + 1]) \in Nat
<1> DEFINE L == (1 .. N + 1) \ {N + 1}
<1>1. L = 1 .. N /\ N + 1 \in 1 .. N + 1 /\ N + 1 \in Nat
  OBVIOUS
<1>2. SlotsIn(F, 1 .. N) = SlotsIn(G, L)
  BY <1>1, SlotsAlike
<1>3. /\ SlotCount(G, N + 1) = Cardinality(SlotsIn(G, L)) + Cardinality(G[N + 1])
      /\ Cardinality(SlotsIn(G, L)) \in Nat /\ Cardinality(G[N + 1]) \in Nat
  BY <1>1, SlotsSplit
<1> QED BY <1>2, <1>3 DEF SlotCount

LEMMA SlotsNone ==
  ASSUME NEW N, NEW F, \A v \in 1 .. N : F[v] = {}
  PROVE  SlotCount(F, N) = 0
<1>1. \A r : r \notin SlotsIn(F, 1 .. N)
  BY DEF SlotsIn, Slots
<1>2. SlotsIn(F, 1 .. N) = {}
  BY <1>1
<1> QED BY <1>2, FS_EmptySet DEF SlotCount

-----------------------------------------------------------------------------
(* The references to the members of E that an object holds.                *)
Listing(o, E) ==
  IF Alive(o) THEN {x \in Nodes(o.by_name) : o.by_name.at[x].entry \in E} ELSE {}
Membership(o, V) == IF Alive(o) THEN Spots(o.members, V) ELSE {}
Listings1(s, E) == [n \in 1 .. SpaceCount(s) |-> Listing(s.ns[n], E)]
Memberships1(s, V) == [f \in 1 .. FormatCount(s) |-> Membership(s.fmt[f], V)]
ListedIn(s, E) == SlotCount(Listings1(s, E), SpaceCount(s))
MembersIn(s, V) == SlotCount(Memberships1(s, V), FormatCount(s))

LEMMA HeldReferencesFinite ==
  ASSUME NEW s, Sound(s)
  PROVE  /\ SpaceCount(s) \in Nat /\ FormatCount(s) \in Nat
         /\ \A E : \A n \in 1 .. SpaceCount(s) :
              /\ IsFiniteSet(Listing(s.ns[n], E)) /\ Cardinality(Listing(s.ns[n], E)) \in Nat
              /\ Listings1(s, E)[n] = Listing(s.ns[n], E)
         /\ \A V : \A f \in 1 .. FormatCount(s) :
              /\ IsFiniteSet(Membership(s.fmt[f], V)) /\ Cardinality(Membership(s.fmt[f], V)) \in Nat
              /\ Memberships1(s, V)[f] = Membership(s.fmt[f], V)
<1>1. /\ SpaceCount(s) \in Nat /\ FormatCount(s) \in Nat
      /\ LiveSpaces(s) = {n \in 1 .. SpaceCount(s) : Alive(s.ns[n])}
      /\ LiveFormats(s) = {f \in 1 .. FormatCount(s) : Alive(s.fmt[f])}
  BY ShapeIs DEF Sound
<1>2. IsFiniteSet({}) /\ Cardinality({}) = 0
  BY FS_EmptySet
<1>3. ASSUME NEW E, NEW n \in 1 .. SpaceCount(s)
      PROVE  /\ IsFiniteSet(Listing(s.ns[n], E)) /\ Cardinality(Listing(s.ns[n], E)) \in Nat
             /\ Listings1(s, E)[n] = Listing(s.ns[n], E)
  <2>1. IsFiniteSet(Listing(s.ns[n], E))
    <3>1. CASE ~Alive(s.ns[n])
      BY <1>2, <3>1 DEF Listing
    <3>2. CASE Alive(s.ns[n])
      <4>1. IsFiniteSet(Nodes(s.ns[n].by_name))
        BY <1>1, <3>2, ReferencesCounted
      <4>2. Listing(s.ns[n], E) \in SUBSET Nodes(s.ns[n].by_name)
        BY <3>2 DEF Listing
      <4> QED BY <4>1, <4>2, FS_Subset
    <3> QED BY <3>1, <3>2
  <2>2. Listings1(s, E)[n] = Listing(s.ns[n], E)
    BY DEF Listings1
  <2> QED BY <2>1, <2>2, FS_CardinalityType
<1>4. ASSUME NEW V, NEW f \in 1 .. FormatCount(s)
      PROVE  /\ IsFiniteSet(Membership(s.fmt[f], V)) /\ Cardinality(Membership(s.fmt[f], V)) \in Nat
             /\ Memberships1(s, V)[f] = Membership(s.fmt[f], V)
  <2>1. IsFiniteSet(Membership(s.fmt[f], V))
    <3>1. CASE ~Alive(s.fmt[f])
      BY <1>2, <3>1 DEF Membership
    <3>2. CASE Alive(s.fmt[f])
      <4>1. IsList(s.fmt[f].members)
        BY <3>2 DEF Sound, MembersSound
      <4> QED BY <3>2, <4>1, SpotsAre DEF Membership
    <3> QED BY <3>1, <3>2
  <2>2. Memberships1(s, V)[f] = Membership(s.fmt[f], V)
    BY DEF Memberships1
  <2> QED BY <2>1, <2>2, FS_CardinalityType
<1> QED BY <1>1, <1>3, <1>4

(* They are what module Namespace counts.                                  *)
LEMMA CountsAre ==
  ASSUME NEW s, Sound(s)
  PROVE  /\ \A e : Listings(s, e) = ListedIn(s, {e})
         /\ \A v : Memberships(s, v) = MembersIn(s, {v})
         /\ \A E : ListedIn(s, E) \in Nat
         /\ \A V : MembersIn(s, V) \in Nat
         /\ \A E : (\A n \in LiveSpaces(s) : \A x \in Nodes(s.ns[n].by_name) :
                        s.ns[n].by_name.at[x].entry \in E)
                    => Cardinality(Listed(s)) = ListedIn(s, E)
         /\ \A V : (\A f \in LiveFormats(s) : \A i \in 1 .. Len(s.fmt[f].members) :
                        s.fmt[f].members[i] \in V)
                    => Cardinality(Members(s)) = MembersIn(s, V)
<1>1. /\ SpaceCount(s) \in Nat /\ FormatCount(s) \in Nat
      /\ LiveSpaces(s) = {n \in 1 .. SpaceCount(s) : Alive(s.ns[n])}
      /\ LiveFormats(s) = {f \in 1 .. FormatCount(s) : Alive(s.fmt[f])}
  BY ShapeIs DEF Sound
<1>2. \A f \in LiveFormats(s) : DOMAIN s.fmt[f].members = 1 .. Len(s.fmt[f].members)
  BY ReferencesCounted
<1>3. /\ \A r : r \in Listed(s) <=> \E n \in LiveSpaces(s) :
                                      \E x \in Nodes(s.ns[n].by_name) : r = <<n, x>>
      /\ \A r : r \in Members(s) <=> \E f \in LiveFormats(s) :
                                      \E i \in 1 .. Len(s.fmt[f].members) : r = <<f, i>>
  BY <1>2 DEF Listed, Members
<1>4. \A F, M, r : r \in SlotsIn(F, M) <=> \E v \in M : \E i \in F[v] : r = <<v, i>>
  BY DEF SlotsIn, Slots
<1>5. ASSUME NEW E
      PROVE  {r \in Listed(s) : s.ns[r[1]].by_name.at[r[2]].entry \in E}
               = SlotsIn(Listings1(s, E), 1 .. SpaceCount(s))
  <2>1. ASSUME NEW n, NEW x
        PROVE  /\ n \in LiveSpaces(s) /\ x \in Nodes(s.ns[n].by_name)
                    /\ s.ns[n].by_name.at[x].entry \in E
               <=> n \in 1 .. SpaceCount(s) /\ x \in Listings1(s, E)[n]
    BY <1>1 DEF Listings1, Listing
  <2>2. ASSUME NEW r
        PROVE  /\ r \in Listed(s) /\ s.ns[r[1]].by_name.at[r[2]].entry \in E
               <=> r \in SlotsIn(Listings1(s, E), 1 .. SpaceCount(s))
    <3> DEFINE v == r[1]
               i == r[2]
    <3>1. \A n, x : <<n, x>>[1] = n /\ <<n, x>>[2] = x
      OBVIOUS
    <3>2. r \in Listed(s) <=> r = <<v, i>> /\ v \in LiveSpaces(s) /\ i \in Nodes(s.ns[v].by_name)
      BY <1>3, <3>1
    <3>3. r \in SlotsIn(Listings1(s, E), 1 .. SpaceCount(s))
          <=> r = <<v, i>> /\ v \in 1 .. SpaceCount(s) /\ i \in Listings1(s, E)[v]
      <4> DEFINE F == Listings1(s, E)
                 M == 1 .. SpaceCount(s)
      <4> HIDE DEF F, M
      <4>1. r \in SlotsIn(F, M) <=> \E w \in M : \E j \in F[w] : r = <<w, j>>
        BY DEF SlotsIn, Slots
      <4>2. r \in SlotsIn(F, M) <=> r = <<v, i>> /\ v \in M /\ i \in F[v]
        BY <3>1, <4>1
      <4> QED BY <4>2 DEF F, M
    <3>4. /\ v \in LiveSpaces(s) /\ i \in Nodes(s.ns[v].by_name) /\ s.ns[v].by_name.at[i].entry \in E
          <=> v \in 1 .. SpaceCount(s) /\ i \in Listings1(s, E)[v]
      BY <2>1
    <3> QED BY <3>2, <3>3, <3>4
  <2> QED BY <2>2
<1>6. ASSUME NEW V
      PROVE  {r \in Members(s) : s.fmt[r[1]].members[r[2]] \in V}
               = SlotsIn(Memberships1(s, V), 1 .. FormatCount(s))
  <2>1. ASSUME NEW f, NEW i
        PROVE  /\ f \in LiveFormats(s) /\ i \in 1 .. Len(s.fmt[f].members)
                    /\ s.fmt[f].members[i] \in V
               <=> f \in 1 .. FormatCount(s) /\ i \in Memberships1(s, V)[f]
    BY <1>1 DEF Memberships1, Membership, Spots
  <2>2. ASSUME NEW r
        PROVE  /\ r \in Members(s) /\ s.fmt[r[1]].members[r[2]] \in V
               <=> r \in SlotsIn(Memberships1(s, V), 1 .. FormatCount(s))
    <3> DEFINE v == r[1]
               i == r[2]
    <3>1. \A n, x : <<n, x>>[1] = n /\ <<n, x>>[2] = x
      OBVIOUS
    <3>2. r \in Members(s) <=> r = <<v, i>> /\ v \in LiveFormats(s) /\ i \in 1 .. Len(s.fmt[v].members)
      BY <1>3, <3>1
    <3>3. r \in SlotsIn(Memberships1(s, V), 1 .. FormatCount(s))
          <=> r = <<v, i>> /\ v \in 1 .. FormatCount(s) /\ i \in Memberships1(s, V)[v]
      <4> DEFINE F == Memberships1(s, V)
                 M == 1 .. FormatCount(s)
      <4> HIDE DEF F, M
      <4>1. r \in SlotsIn(F, M) <=> \E w \in M : \E j \in F[w] : r = <<w, j>>
        BY DEF SlotsIn, Slots
      <4>2. r \in SlotsIn(F, M) <=> r = <<v, i>> /\ v \in M /\ i \in F[v]
        BY <3>1, <4>1
      <4> QED BY <4>2 DEF F, M
    <3>4. /\ v \in LiveFormats(s) /\ i \in 1 .. Len(s.fmt[v].members) /\ s.fmt[v].members[i] \in V
          <=> v \in 1 .. FormatCount(s) /\ i \in Memberships1(s, V)[v]
      BY <2>1
    <3> QED BY <3>2, <3>3, <3>4
  <2> QED BY <2>2
<1>7. ASSUME NEW e PROVE Listings(s, e) = ListedIn(s, {e})
  BY <1>5 DEF Listings, ListedIn, SlotCount
<1>8. ASSUME NEW v PROVE Memberships(s, v) = MembersIn(s, {v})
  BY <1>6 DEF Memberships, MembersIn, SlotCount
<1>9. ASSUME NEW E PROVE ListedIn(s, E) \in Nat
  <2>1. IsFiniteSet({r \in Listed(s) : s.ns[r[1]].by_name.at[r[2]].entry \in E})
    BY ReferencesCounted, FS_Subset
  <2> QED BY <1>5, <2>1, FS_CardinalityType DEF ListedIn, SlotCount
<1>10. ASSUME NEW V PROVE MembersIn(s, V) \in Nat
  <2>1. IsFiniteSet({r \in Members(s) : s.fmt[r[1]].members[r[2]] \in V})
    BY ReferencesCounted, FS_Subset
  <2> QED BY <1>6, <2>1, FS_CardinalityType DEF MembersIn, SlotCount
<1>11. ASSUME NEW E, \A n \in LiveSpaces(s) : \A x \in Nodes(s.ns[n].by_name) :
                        s.ns[n].by_name.at[x].entry \in E
       PROVE  Cardinality(Listed(s)) = ListedIn(s, E)
  <2>1. {r \in Listed(s) : s.ns[r[1]].by_name.at[r[2]].entry \in E} = Listed(s)
    BY <1>3, <1>11
  <2> QED BY <1>5, <2>1 DEF ListedIn, SlotCount
<1>12. ASSUME NEW V, \A f \in LiveFormats(s) : \A i \in 1 .. Len(s.fmt[f].members) :
                        s.fmt[f].members[i] \in V
       PROVE  Cardinality(Members(s)) = MembersIn(s, V)
  <2>1. {r \in Members(s) : s.fmt[r[1]].members[r[2]] \in V} = Members(s)
    BY <1>3, <1>12
  <2> QED BY <1>6, <2>1 DEF MembersIn, SlotCount
<1> QED BY <1>7, <1>8, <1>9, <1>10, <1>11, <1>12

(* One object is changed, or one more is there.                            *)
LEMMA ListedChange ==
  ASSUME NEW s, Sound(s), NEW u, Sound(u), NEW E
  PROVE  /\ u.ns = s.ns => ListedIn(u, E) = ListedIn(s, E)
         /\ u.fmt = s.fmt => MembersIn(u, E) = MembersIn(s, E)
         /\ \A n \in 1 .. SpaceCount(s) : \A ob : SpaceSet(s, u, n, ob) =>
              ListedIn(u, E) + Cardinality(Listing(s.ns[n], E))
                = ListedIn(s, E) + Cardinality(Listing(ob, E))
         /\ \A f \in 1 .. FormatCount(s) : \A ob : FormatSet(s, u, f, ob) =>
              MembersIn(u, E) + Cardinality(Membership(s.fmt[f], E))
                = MembersIn(s, E) + Cardinality(Membership(ob, E))
         /\ \A ob : SpaceAdded(s, u, ob) =>
              ListedIn(u, E) = ListedIn(s, E) + Cardinality(Listing(ob, E))
         /\ \A ob : FormatAdded(s, u, ob) =>
              MembersIn(u, E) = MembersIn(s, E) + Cardinality(Membership(ob, E))
<1>1. u.ns = s.ns => ListedIn(u, E) = ListedIn(s, E)
  BY DEF ListedIn, Listings1, SpaceCount
<1>2. u.fmt = s.fmt => MembersIn(u, E) = MembersIn(s, E)
  BY DEF MembersIn, Memberships1, FormatCount
<1> DEFINE F == Listings1(s, E)
           G == Listings1(u, E)
           K == Memberships1(s, E)
           L == Memberships1(u, E)
<1>3. /\ SpaceCount(s) \in Nat /\ FormatCount(s) \in Nat
      /\ \A n \in 1 .. SpaceCount(s) : IsFiniteSet(F[n]) /\ F[n] = Listing(s.ns[n], E)
      /\ \A f \in 1 .. FormatCount(s) : IsFiniteSet(K[f]) /\ K[f] = Membership(s.fmt[f], E)
  BY HeldReferencesFinite
<1>4. /\ \A n \in 1 .. SpaceCount(u) : IsFiniteSet(G[n]) /\ G[n] = Listing(u.ns[n], E)
      /\ \A f \in 1 .. FormatCount(u) : IsFiniteSet(L[f]) /\ L[f] = Membership(u.fmt[f], E)
  BY HeldReferencesFinite
<1> HIDE DEF F, G, K, L
<1>5. ASSUME NEW n \in 1 .. SpaceCount(s), NEW ob, SpaceSet(s, u, n, ob)
      PROVE  ListedIn(u, E) + Cardinality(Listing(s.ns[n], E))
               = ListedIn(s, E) + Cardinality(Listing(ob, E))
  <2>1. /\ SpaceCount(u) = SpaceCount(s) /\ u.ns[n] = ob
        /\ \A m \in 1 .. SpaceCount(s) : m # n => u.ns[m] = s.ns[m]
    BY <1>5 DEF SpaceSet
  <2>2. \A m \in 1 .. SpaceCount(s) : m # n => F[m] = G[m]
    BY <1>3, <1>4, <2>1
  <2>3. SlotCount(G, SpaceCount(s)) + Cardinality(F[n]) = SlotCount(F, SpaceCount(s)) + Cardinality(G[n])
    BY <1>3, <1>4, <2>1, <2>2, SlotsChange
  <2> QED BY <1>3, <1>4, <2>1, <2>3 DEF ListedIn, F, G
<1>6. ASSUME NEW f \in 1 .. FormatCount(s), NEW ob, FormatSet(s, u, f, ob)
      PROVE  MembersIn(u, E) + Cardinality(Membership(s.fmt[f], E))
               = MembersIn(s, E) + Cardinality(Membership(ob, E))
  <2>1. /\ FormatCount(u) = FormatCount(s) /\ u.fmt[f] = ob
        /\ \A m \in 1 .. FormatCount(s) : m # f => u.fmt[m] = s.fmt[m]
    BY <1>6 DEF FormatSet
  <2>2. \A m \in 1 .. FormatCount(s) : m # f => K[m] = L[m]
    BY <1>3, <1>4, <2>1
  <2>3. SlotCount(L, FormatCount(s)) + Cardinality(K[f]) = SlotCount(K, FormatCount(s)) + Cardinality(L[f])
    BY <1>3, <1>4, <2>1, <2>2, SlotsChange
  <2> QED BY <1>3, <1>4, <2>1, <2>3 DEF MembersIn, K, L
<1>7. ASSUME NEW ob, SpaceAdded(s, u, ob)
      PROVE  ListedIn(u, E) = ListedIn(s, E) + Cardinality(Listing(ob, E))
  <2>1. /\ SpaceCount(u) = SpaceCount(s) + 1 /\ u.ns[SpaceCount(s) + 1] = ob
        /\ \A m \in 1 .. SpaceCount(s) : u.ns[m] = s.ns[m]
    BY <1>7 DEF SpaceAdded
  <2>2. /\ \A m \in 1 .. SpaceCount(s) : F[m] = G[m]
        /\ G[SpaceCount(s) + 1] = Listing(ob, E)
    BY <1>3, <1>4, <2>1
  <2>3. SlotCount(G, SpaceCount(s) + 1)
          = SlotCount(F, SpaceCount(s)) + Cardinality(G[SpaceCount(s) + 1])
    BY <1>3, <1>4, <2>1, <2>2, SlotsGrow
  <2> QED BY <2>1, <2>2, <2>3 DEF ListedIn, F, G
<1>8. ASSUME NEW ob, FormatAdded(s, u, ob)
      PROVE  MembersIn(u, E) = MembersIn(s, E) + Cardinality(Membership(ob, E))
  <2>1. /\ FormatCount(u) = FormatCount(s) + 1 /\ u.fmt[FormatCount(s) + 1] = ob
        /\ \A m \in 1 .. FormatCount(s) : u.fmt[m] = s.fmt[m]
    BY <1>8 DEF FormatAdded
  <2>2. /\ \A m \in 1 .. FormatCount(s) : K[m] = L[m]
        /\ L[FormatCount(s) + 1] = Membership(ob, E)
    BY <1>3, <1>4, <2>1
  <2>3. SlotCount(L, FormatCount(s) + 1)
          = SlotCount(K, FormatCount(s)) + Cardinality(L[FormatCount(s) + 1])
    BY <1>3, <1>4, <2>1, <2>2, SlotsGrow
  <2> QED BY <2>1, <2>2, <2>3 DEF MembersIn, K, L
<1> QED BY <1>1, <1>2, <1>5, <1>6, <1>7, <1>8

(* Nobody refers to what is not there.                                     *)
LEMMA NobodyRefers ==
  ASSUME NEW s, Sound(s), NEW x, ~Refers(s, x), x.v # NULL,
         x = Entry("FORMAT", x.v) \/ x = Entry("SUBNAMESPACE", x.v)
  PROVE  /\ ListedIn(s, {x}) = 0
         /\ x.type = "FORMAT" => MembersIn(s, {x.v}) = 0
<1>1. \A n \in 1 .. SpaceCount(s) : Listings1(s, {x})[n] = {}
  <2> SUFFICES ASSUME NEW n \in 1 .. SpaceCount(s) PROVE Listing(s.ns[n], {x}) = {}
    BY DEF Listings1
  <2>1. CASE ~Alive(s.ns[n])
    BY <2>1 DEF Listing
  <2>2. CASE Alive(s.ns[n])
    BY <2>2 DEF Listing, Sound, TreeSound
  <2> QED BY <2>1, <2>2
<1>2. ASSUME x.type = "FORMAT"
      PROVE  \A f \in 1 .. FormatCount(s) : Memberships1(s, {x.v})[f] = {}
  <2>1. x.v \notin 1 .. FormatCount(s) \cup {NULL}
    BY <1>2, NumbersAre DEF Refers
  <2> SUFFICES ASSUME NEW f \in 1 .. FormatCount(s) PROVE Membership(s.fmt[f], {x.v}) = {}
    BY DEF Memberships1
  <2>2. CASE ~Alive(s.fmt[f])
    BY <2>2 DEF Membership
  <2>3. CASE Alive(s.fmt[f])
    BY <2>1, <2>3 DEF Membership, Spots, Sound, MembersSound
  <2> QED BY <2>2, <2>3
<1> QED BY <1>1, <1>2, SlotsNone DEF ListedIn, MembersIn

-----------------------------------------------------------------------------
(* How much of the count of an object neither an entry nor a member, nor   *)
(* the static variable, accounts for: what the caller holds, and what is   *)
(* about to be given back.                                                 *)
OwnUse(ob) == IF Alive(ob) /\ ob.type = "ARRAY" THEN 1 ELSE 0
Due(e, ob) == IF e.type = "FORMAT" THEN ob.ref_count - OwnUse(ob) ELSE ob.ref_count
Owed(s, e) ==
  ListedIn(s, {e})
  + (IF e.type = "FORMAT" THEN MembersIn(s, {e.v}) ELSE IF s.global = e.v THEN 1 ELSE 0)
Bal(s, e) == IF Refers(s, e) THEN Due(e, Object(s, e)) - Owed(s, e) ELSE 0

LEMMA BalIs ==
  ASSUME NEW s, Sound(s), NEW e
  PROVE  /\ Bal(s, e) \in Int /\ Owed(s, e) \in Nat
         /\ Refers(s, e) => /\ Bal(s, e) = Due(e, Object(s, e)) - Owed(s, e)
                            /\ Due(e, Object(s, e)) \in Int /\ Object(s, e).ref_count \in Nat
         /\ ~Refers(s, e) => Bal(s, e) = 0
<1>1. Owed(s, e) \in Nat
  BY CountsAre DEF Owed
<1>2. ASSUME Refers(s, e)
      PROVE  Due(e, Object(s, e)) \in Int /\ Object(s, e).ref_count \in Nat
  <2>1. Shape(s) /\ "FORMAT" # "SUBNAMESPACE"
    BY DEF Sound
  <2>2. Object(s, e).ref_count \in Nat
    BY <1>2, <2>1, ShapeIs, NumbersAre DEF Object, KindOf, Refers
  <2> QED BY <2>2 DEF Due, OwnUse
<1> QED BY <1>1, <1>2 DEF Bal

LEMMA ObjectIs ==
  /\ \A s, v : /\ Object(s, Entry("FORMAT", v)) = s.fmt[v]
               /\ Object(s, Entry("SUBNAMESPACE", v)) = s.ns[v]
  /\ \A e, ob : e.type = "FORMAT" => Due(e, ob) = ob.ref_count - OwnUse(ob)
  /\ \A e, ob : e.type # "FORMAT" => Due(e, ob) = ob.ref_count
  /\ \A s, e : Refers(s, e) => IF e.type = "FORMAT"
                               THEN e = Entry("FORMAT", e.v) /\ e.v \in 1 .. FormatCount(s)
                               ELSE e = Entry("SUBNAMESPACE", e.v) /\ e.v \in 1 .. SpaceCount(s)
BY NumbersAre DEF Object, KindOf, Due, Refers

(* u is s, and d more references to e are accounted for by the caller, or  *)
(* fewer.                                                                  *)
More(x, e, d) == IF x = e THEN d ELSE 0
Settles(s, u, e, d) ==
  /\ u.leaks = s.leaks /\ u.global = s.global
  /\ ~u.crashed => ~s.crashed /\ \A x : Bal(u, x) = Bal(s, x) + More(x, e, d)

LEMMA SettlesTwice ==
  ASSUME NEW s, Sound(s), NEW u, NEW v, NEW e, NEW d \in Int, NEW c \in Int
  PROVE  /\ Settles(s, u, e, d) /\ Settles(u, v, e, c) => Settles(s, v, e, d + c)
         /\ \A x : Settles(s, u, x, 0) /\ Settles(u, v, e, d) => Settles(s, v, e, d)
         /\ \A x : Settles(s, u, e, d) /\ Settles(u, v, x, 0) => Settles(s, v, e, d)
         /\ \A x : Settles(s, u, x, 0) => Settles(s, u, e, 0)
         /\ Settles(s, s, e, 0)
<1>1. \A x : Bal(s, x) \in Int
  BY BalIs
<1>2. \A x, y : More(x, y, 0) = 0 /\ More(x, y, d) \in Int /\ More(x, y, c) \in Int
  BY DEF More
<1>3. \A x, y : More(x, y, d) + More(x, y, c) = More(x, y, d + c)
  BY DEF More
<1>4. Settles(s, u, e, d) /\ Settles(u, v, e, c) => Settles(s, v, e, d + c)
  BY <1>1, <1>2, <1>3 DEF Settles
<1> QED BY <1>1, <1>2, <1>4 DEF Settles

LEMMA CrashSettles ==
  ASSUME NEW s, NEW u, Crashed(s, u), NEW e, NEW d
  PROVE  Settles(s, u, e, d)
BY DEF Crashed, Settles

(* The members of a format that are x.                                     *)
Mentions(ob, x) == IF x.type = "FORMAT" THEN Cardinality(Membership(ob, {x.v})) ELSE 0

LEMMA FormatSetBal ==
  ASSUME NEW s, Sound(s), NEW u, Sound(u), NEW f \in 1 .. FormatCount(s), NEW ob,
         FormatSet(s, u, f, ob), NEW x, Refers(s, x), NEW e, e = Entry("FORMAT", f)
  PROVE  /\ Refers(u, x)
         /\ Bal(u, x) + Mentions(ob, x) + (IF x = e THEN Due(x, s.fmt[f]) ELSE 0)
              = Bal(s, x) + Mentions(s.fmt[f], x) + (IF x = e THEN Due(x, ob) ELSE 0)
         /\ Mentions(ob, x) \in Nat /\ Mentions(s.fmt[f], x) \in Nat
         /\ x = e => Due(x, ob) \in Int /\ Due(x, s.fmt[f]) \in Int
         /\ x = e => x.type = "FORMAT"
<1>1. /\ FormatCount(u) = FormatCount(s) /\ SpaceCount(u) = SpaceCount(s) /\ u.ns = s.ns
      /\ u.fmt[f] = ob /\ \A g \in 1 .. FormatCount(s) : g # f => u.fmt[g] = s.fmt[g]
      /\ u.global = s.global
  BY DEF FormatSet, SameRest, SpaceCount
<1>2. Refers(u, x)
  BY <1>1 DEF Refers
<1>3. /\ e.type = "FORMAT" /\ e.v = f /\ "FORMAT" # "SUBNAMESPACE"
      /\ Refers(s, e) /\ Refers(u, e) /\ Object(s, e) = s.fmt[f] /\ Object(u, e) = ob
  BY <1>1, NumbersAre, ObjectIs DEF Refers
<1>4. /\ Bal(u, x) = Due(x, Object(u, x)) - Owed(u, x)
      /\ Bal(s, x) = Due(x, Object(s, x)) - Owed(s, x)
      /\ Due(x, Object(u, x)) \in Int /\ Due(x, Object(s, x)) \in Int
      /\ Owed(u, x) \in Nat /\ Owed(s, x) \in Nat
  BY <1>2, BalIs
<1>5. ListedIn(u, {x}) = ListedIn(s, {x}) /\ ListedIn(s, {x}) \in Nat
  BY <1>1, ListedChange, CountsAre
<1>6. /\ MembersIn(u, {x.v}) + Cardinality(Membership(s.fmt[f], {x.v}))
           = MembersIn(s, {x.v}) + Cardinality(Membership(ob, {x.v}))
      /\ MembersIn(u, {x.v}) \in Nat /\ MembersIn(s, {x.v}) \in Nat
      /\ Cardinality(Membership(s.fmt[f], {x.v})) \in Nat
      /\ Cardinality(Membership(ob, {x.v})) \in Nat
  <2>1. MembersIn(u, {x.v}) + Cardinality(Membership(s.fmt[f], {x.v}))
           = MembersIn(s, {x.v}) + Cardinality(Membership(ob, {x.v}))
    BY ListedChange
  <2>2. MembersIn(u, {x.v}) \in Nat /\ MembersIn(s, {x.v}) \in Nat
    BY CountsAre
  <2>3. Cardinality(Membership(s.fmt[f], {x.v})) \in Nat
    BY HeldReferencesFinite
  <2>4. Cardinality(Membership(u.fmt[f], {x.v})) \in Nat
    BY <1>1, HeldReferencesFinite
  <2> QED BY <1>1, <2>1, <2>2, <2>3, <2>4
<1>7. /\ Owed(u, x) + Mentions(s.fmt[f], x) = Owed(s, x) + Mentions(ob, x)
      /\ Mentions(ob, x) \in Nat /\ Mentions(s.fmt[f], x) \in Nat
  <2>1. CASE x.type = "FORMAT"
    BY <1>5, <1>6, <2>1 DEF Owed, Mentions
  <2>2. CASE x.type # "FORMAT"
    BY <1>1, <1>4, <1>5, <2>2 DEF Owed, Mentions
  <2> QED BY <2>1, <2>2
<1>8. CASE x = e
  BY <1>2, <1>3, <1>4, <1>7, <1>8
<1>9. CASE x # e
  <2>1. Object(u, x) = Object(s, x)
    BY <1>1, <1>9, NumbersAre, ObjectIs DEF Refers
  <2> QED BY <1>2, <1>4, <1>7, <1>9, <2>1
<1> QED BY <1>8, <1>9

LEMMA SpaceSetBal ==
  ASSUME NEW s, Sound(s), NEW u, Sound(u), NEW n \in 1 .. SpaceCount(s), NEW ob,
         SpaceSet(s, u, n, ob), NEW x, Refers(s, x), NEW e, e = Entry("SUBNAMESPACE", n)
  PROVE  /\ Refers(u, x)
         /\ Bal(u, x) + Cardinality(Listing(ob, {x}))
              + (IF x = e THEN s.ns[n].ref_count ELSE 0)
              = Bal(s, x) + Cardinality(Listing(s.ns[n], {x}))
                  + (IF x = e THEN ob.ref_count ELSE 0)
         /\ Cardinality(Listing(ob, {x})) \in Nat /\ Cardinality(Listing(s.ns[n], {x})) \in Nat
         /\ s.ns[n].ref_count \in Nat /\ ob.ref_count \in Nat
<1>1. /\ FormatCount(u) = FormatCount(s) /\ SpaceCount(u) = SpaceCount(s) /\ u.fmt = s.fmt
      /\ u.ns[n] = ob /\ \A m \in 1 .. SpaceCount(s) : m # n => u.ns[m] = s.ns[m]
      /\ u.global = s.global
  BY DEF SpaceSet, SameRest, FormatCount
<1>2. Refers(u, x)
  BY <1>1 DEF Refers
<1>3. /\ e.type # "FORMAT" /\ e.v = n
      /\ Refers(s, e) /\ Refers(u, e) /\ Object(s, e) = s.ns[n] /\ Object(u, e) = ob
  BY <1>1, NumbersAre, ObjectIs DEF Refers
<1>4. /\ Bal(u, x) = Due(x, Object(u, x)) - Owed(u, x)
      /\ Bal(s, x) = Due(x, Object(s, x)) - Owed(s, x)
      /\ Due(x, Object(u, x)) \in Int /\ Due(x, Object(s, x)) \in Int
      /\ Owed(u, x) \in Nat /\ Owed(s, x) \in Nat
  BY <1>2, BalIs
<1>5. /\ ListedIn(u, {x}) + Cardinality(Listing(s.ns[n], {x}))
           = ListedIn(s, {x}) + Cardinality(Listing(ob, {x}))
      /\ ListedIn(s, {x}) \in Nat /\ ListedIn(u, {x}) \in Nat
      /\ Cardinality(Listing(s.ns[n], {x})) \in Nat /\ Cardinality(Listing(ob, {x})) \in Nat
  <2>1. ListedIn(u, {x}) + Cardinality(Listing(s.ns[n], {x}))
           = ListedIn(s, {x}) + Cardinality(Listing(ob, {x}))
    BY ListedChange
  <2>2. ListedIn(u, {x}) \in Nat /\ ListedIn(s, {x}) \in Nat
    BY CountsAre
  <2>3. Cardinality(Listing(s.ns[n], {x})) \in Nat
    BY HeldReferencesFinite
  <2>4. Cardinality(Listing(u.ns[n], {x})) \in Nat
    BY <1>1, HeldReferencesFinite
  <2> QED BY <1>1, <2>1, <2>2, <2>3, <2>4
<1>6. MembersIn(u, {x.v}) = MembersIn(s, {x.v}) /\ MembersIn(s, {x.v}) \in Nat
  BY <1>1, ListedChange, CountsAre
<1>7. Owed(u, x) + Cardinality(Listing(s.ns[n], {x}))
        = Owed(s, x) + Cardinality(Listing(ob, {x}))
  <2>1. CASE x.type = "FORMAT"
    BY <1>5, <1>6, <2>1 DEF Owed
  <2>2. CASE x.type # "FORMAT"
    <3> DEFINE k == IF s.global = x.v THEN 1 ELSE 0
    <3>1. Owed(u, x) = ListedIn(u, {x}) + k /\ Owed(s, x) = ListedIn(s, {x}) + k /\ k \in Nat
      BY <1>1, <2>2 DEF Owed
    <3> HIDE DEF k
    <3> QED BY <1>5, <3>1
  <2> QED BY <2>1, <2>2
<1>8. s.ns[n].ref_count \in Nat /\ ob.ref_count \in Nat
  <2>1. Object(s, e).ref_count \in Nat /\ Object(u, e).ref_count \in Nat
    BY <1>3, BalIs
  <2> QED BY <1>3, <2>1
<1>9. CASE x = e
  <2>1. Due(x, Object(s, x)) = s.ns[n].ref_count /\ Due(x, Object(u, x)) = ob.ref_count
    BY <1>3, <1>9, ObjectIs
  <2> QED BY <1>2, <1>4, <1>5, <1>7, <1>8, <1>9, <2>1
<1>10. CASE x # e
  <2>1. Object(u, x) = Object(s, x)
    BY <1>1, <1>10, NumbersAre, ObjectIs DEF Refers
  <2> QED BY <1>2, <1>4, <1>5, <1>7, <1>8, <1>10, <2>1
<1> QED BY <1>9, <1>10

(* The fields that are set leave the references to the format as they were.*)
LEMMA FieldsSettle ==
  ASSUME NEW s, Sound(s), NEW u, NEW f \in 1 .. FormatCount(s), FieldsSet(s, u, f), NEW y
  PROVE  Settles(s, u, y, 0)
<1> DEFINE ob == u.fmt[f]
           p == s.fmt[f]
           e == Entry("FORMAT", f)
<1>1. /\ Sound(u) /\ FormatSet(s, u, f, ob) /\ Alike(p, ob)
      /\ SameRest(s, u) /\ FormatCount(u) = FormatCount(s) /\ SpaceCount(u) = SpaceCount(s)
  BY DEF FieldsSet, Becomes, FormatSet, SpaceCount
<1>2. Alive(ob) <=> Alive(p)
  BY <1>1 DEF Alike, Alive
<1>3. Alive(ob) => ob.type = p.type /\ ob.members = p.members
  BY <1>1 DEF Alike, Alive, Freed
<1>4. \A V : Membership(ob, V) = Membership(p, V)
  BY <1>2, <1>3 DEF Membership
<1>5. \A x : Mentions(ob, x) = Mentions(p, x) /\ OwnUse(ob) = OwnUse(p)
  BY <1>2, <1>3, <1>4 DEF Mentions, OwnUse
<1>6. e.type = "FORMAT" /\ Due(e, ob) = Due(e, p)
  BY <1>1, <1>5, NumbersAre DEF Due, Alike
<1> HIDE DEF ob, p, e
<1>7. ASSUME NEW x PROVE Bal(u, x) = Bal(s, x)
  <2>1. CASE Refers(s, x)
    <3>1. /\ Bal(u, x) + Mentions(ob, x) + (IF x = e THEN Due(x, p) ELSE 0)
               = Bal(s, x) + Mentions(p, x) + (IF x = e THEN Due(x, ob) ELSE 0)
          /\ Mentions(ob, x) \in Nat /\ Mentions(p, x) \in Nat
          /\ x = e => Due(x, ob) \in Int /\ Due(x, p) \in Int
      BY <1>1, <2>1, FormatSetBal DEF p, e
    <3> QED BY <1>1, <1>5, <1>6, <3>1, BalIs
  <2>2. CASE ~Refers(s, x)
    <3>1. ~Refers(u, x)
      BY <1>1, <2>2 DEF Refers
    <3> QED BY <2>2, <3>1 DEF Bal
  <2> QED BY <2>1, <2>2
<1>8. \A x : Bal(s, x) \in Int
  BY BalIs
<1> QED BY <1>1, <1>7, <1>8 DEF Settles, SameRest, More

(* A reference is taken.                                                   *)
LEMMA FormatRefSettles ==
  ASSUME NEW s, Sound(s), NEW f \in 1 .. FormatCount(s), NEW u, u = FormatRef(s, f)
  PROVE  Settles(s, u, Entry("FORMAT", f), 1)
<1> DEFINE p == s.fmt[f]
           e == Entry("FORMAT", f)
<1>1. CASE f # NULL /\ Alive(p)
  <2>1. LiveFormat(p) /\ Shape(s)
    BY <1>1, ShapeIs DEF Sound
  <2> DEFINE c == p.ref_count + 1
             ob == [p EXCEPT !.ref_count = c]
  <2>2. u = [s EXCEPT !.fmt[f] = ob]
    BY <1>1 DEF FormatRef
  <2>3. c \in Nat \ {0} /\ p.ref_count \in Nat
    BY <2>1 DEF LiveFormat
  <2>4. LiveFormat(ob) /\ ob.members = p.members /\ ob.type = p.type /\ ob.ref_count = c
    <3> HIDE DEF c
    <3> QED BY <2>1, <2>3 DEF LiveFormat
  <2> HIDE DEF ob
  <2>5. FormatSet(s, u, f, ob)
    BY <2>1, <2>2, <2>4, FormatSets
  <2>6. Sound(u)
    BY FormatRefKeeps DEF Becomes
  <2>7. Alive(ob)
    BY <2>3, <2>4 DEF Alive
  <2>8. Membership(ob, {}) = Membership(p, {}) /\ \A V : Membership(ob, V) = Membership(p, V)
    BY <1>1, <2>4, <2>7 DEF Membership
  <2>9. \A x : Mentions(ob, x) = Mentions(p, x)
    BY <2>8 DEF Mentions
  <2>10. e.type = "FORMAT" /\ Due(e, ob) = Due(e, p) + 1 /\ Refers(s, e)
    <3>1. OwnUse(ob) = OwnUse(p) /\ OwnUse(p) \in Nat
      BY <1>1, <2>4, <2>7 DEF OwnUse
    <3>2. e.type = "FORMAT" /\ Refers(s, e)
      BY NumbersAre DEF Refers
    <3> HIDE DEF e, p
    <3> QED BY <2>3, <2>4, <3>1, <3>2 DEF Due, c
  <2>11. SameRest(s, u) /\ FormatCount(u) = FormatCount(s) /\ SpaceCount(u) = SpaceCount(s)
    BY <2>5 DEF FormatSet, SpaceCount
  <2> HIDE DEF c
  <2>12. ASSUME NEW x PROVE Bal(u, x) = Bal(s, x) + More(x, e, 1)
    <3>1. CASE Refers(s, x)
      <4>1. /\ Bal(u, x) + Mentions(ob, x) + (IF x = e THEN Due(x, p) ELSE 0)
                 = Bal(s, x) + Mentions(p, x) + (IF x = e THEN Due(x, ob) ELSE 0)
            /\ Mentions(ob, x) \in Nat /\ Mentions(p, x) \in Nat
            /\ x = e => Due(x, ob) \in Int /\ Due(x, p) \in Int
        BY <2>5, <2>6, <3>1, FormatSetBal
      <4>2. Bal(u, x) \in Int /\ Bal(s, x) \in Int
        BY <2>6, BalIs
      <4> HIDE DEF p, e
      <4> QED BY <2>9, <2>10, <4>1, <4>2 DEF More
    <3>2. CASE ~Refers(s, x)
      <4>1. ~Refers(u, x) /\ x # e
        BY <2>10, <2>11, <3>2 DEF Refers
      <4> QED BY <3>2, <4>1 DEF Bal, More
    <3> QED BY <3>1, <3>2
  <2> QED BY <2>11, <2>12 DEF Settles, SameRest
<1>2. CASE ~(f # NULL /\ Alive(p))
  <2>1. Crashed(s, u)
    BY <1>2, CrashIs DEF FormatRef, Sound
  <2> QED BY <2>1, CrashSettles
<1> QED BY <1>1, <1>2

LEMMA NamespaceRefSettles ==
  ASSUME NEW s, Sound(s), NEW n \in 1 .. SpaceCount(s), NEW u, u = NamespaceRef(s, n)
  PROVE  Settles(s, u, Entry("SUBNAMESPACE", n), 1)
<1> DEFINE p == s.ns[n]
           e == Entry("SUBNAMESPACE", n)
<1>1. CASE Alive(p)
  <2>1. LiveSpace(p) /\ Shape(s)
    BY <1>1, ShapeIs DEF Sound
  <2> DEFINE c == p.ref_count + 1
             ob == [p EXCEPT !.ref_count = c]
  <2>2. u = [s EXCEPT !.ns[n] = ob]
    BY <1>1 DEF NamespaceRef
  <2>3. c \in Nat \ {0} /\ p.ref_count \in Nat
    BY <2>1 DEF LiveSpace
  <2>4. LiveSpace(ob) /\ ob.by_name = p.by_name /\ ob.ref_count = c
    <3> HIDE DEF c
    <3> QED BY <2>1, <2>3 DEF LiveSpace
  <2> HIDE DEF ob
  <2>5. SpaceSet(s, u, n, ob)
    BY <2>1, <2>2, <2>4, SpaceSets
  <2>6. Sound(u)
    BY NamespaceRefKeeps DEF Becomes
  <2>7. Alive(ob)
    BY <2>3, <2>4 DEF Alive
  <2>8. \A E : Listing(ob, E) = Listing(p, E)
    BY <1>1, <2>4, <2>7 DEF Listing
  <2>9. Refers(s, e)
    BY NumbersAre DEF Refers
  <2>10. SameRest(s, u) /\ FormatCount(u) = FormatCount(s) /\ SpaceCount(u) = SpaceCount(s)
    BY <2>5 DEF SpaceSet, FormatCount
  <2>11. ob.ref_count = p.ref_count + 1
    BY <2>4
  <2> HIDE DEF c
  <2>12. ASSUME NEW x PROVE Bal(u, x) = Bal(s, x) + More(x, e, 1)
    <3>1. CASE Refers(s, x)
      <4>1. /\ Bal(u, x) + Cardinality(Listing(ob, {x})) + (IF x = e THEN p.ref_count ELSE 0)
                 = Bal(s, x) + Cardinality(Listing(p, {x}))
                     + (IF x = e THEN ob.ref_count ELSE 0)
            /\ Cardinality(Listing(ob, {x})) \in Nat
        BY <2>5, <2>6, <3>1, SpaceSetBal
      <4>2. Bal(u, x) \in Int /\ Bal(s, x) \in Int
        BY <2>6, BalIs
      <4> HIDE DEF p, e
      <4> QED BY <2>3, <2>8, <2>11, <4>1, <4>2 DEF More
    <3>2. CASE ~Refers(s, x)
      <4>1. ~Refers(u, x) /\ x # e
        BY <2>9, <2>10, <3>2 DEF Refers
      <4> QED BY <3>2, <4>1 DEF Bal, More
    <3> QED BY <3>1, <3>2
  <2> QED BY <2>10, <2>12 DEF Settles, SameRest
<1>2. CASE ~Alive(p)
  <2>1. Crashed(s, u)
    BY <1>2, CrashIs DEF NamespaceRef, Sound
  <2> QED BY <2>1, CrashSettles
<1> QED BY <1>1, <1>2

(* An entry that is bound accounts for one reference.                      *)
LEMMA BindsSettle ==
  ASSUME NEW s, Sound(s), NEW u, NEW n, NEW name, NEW own, Binds(s, u, n, name, own),
         Refers(s, own)
  PROVE  Settles(s, u, own, -1)
<1> DEFINE ob == u.ns[n]
           p == s.ns[n]
           node == Malloced(name)
           e == Entry("SUBNAMESPACE", n)
<1>1. /\ Sound(u) /\ n \in 1 .. SpaceCount(s) /\ Alive(p) /\ Alive(ob) /\ SpaceSet(s, u, n, ob)
      /\ ob.ref_count = p.ref_count
      /\ node \notin Nodes(p.by_name) /\ Gets(p.by_name, name, own, ob.by_name)
  BY DEF Binds, Becomes, IsLive, HasName, TreeOf
<1>2. SameRest(s, u) /\ FormatCount(u) = FormatCount(s) /\ SpaceCount(u) = SpaceCount(s)
  BY <1>1 DEF SpaceSet, FormatCount
<1>3. ASSUME NEW x
      PROVE  Listing(ob, {x}) = Listing(p, {x}) \cup (IF x = own THEN {node} ELSE {})
  BY <1>1 DEF Listing, Gets
<1>4. \A x : node \notin Listing(p, {x})
  BY <1>1 DEF Listing
<1> HIDE DEF ob, p, node, e
<1>5. ASSUME NEW x
      PROVE  Cardinality(Listing(ob, {x})) = Cardinality(Listing(p, {x})) + More(x, own, 1)
  <2>1. IsFiniteSet(Listing(p, {x})) /\ Cardinality(Listing(p, {x})) \in Nat
    BY <1>1, HeldReferencesFinite DEF p
  <2>2. CASE x = own
    <3>1. Listing(ob, {x}) = Listing(p, {x}) \cup {node}
      BY <1>3, <2>2
    <3>2. Cardinality(Listing(p, {x}) \cup {node}) = Cardinality(Listing(p, {x})) + 1
      BY <1>4, <2>1, FS_AddElement
    <3> QED BY <2>2, <3>1, <3>2 DEF More
  <2>3. CASE x # own
    <3>1. Listing(ob, {x}) = Listing(p, {x})
      BY <1>3, <2>3
    <3> QED BY <2>1, <2>3, <3>1 DEF More
  <2> QED BY <2>2, <2>3
<1>6. ASSUME NEW x PROVE Bal(u, x) = Bal(s, x) + More(x, own, -1)
  <2>1. CASE Refers(s, x)
    <3>1. /\ Bal(u, x) + Cardinality(Listing(ob, {x})) + (IF x = e THEN p.ref_count ELSE 0)
               = Bal(s, x) + Cardinality(Listing(p, {x}))
                   + (IF x = e THEN ob.ref_count ELSE 0)
          /\ Cardinality(Listing(ob, {x})) \in Nat /\ Cardinality(Listing(p, {x})) \in Nat
          /\ p.ref_count \in Nat
      BY <1>1, <2>1, SpaceSetBal DEF p, e
    <3>2. Bal(u, x) \in Int /\ Bal(s, x) \in Int
      BY <1>1, BalIs
    <3>3. More(x, own, 1) = (IF x = own THEN 1 ELSE 0)
          /\ More(x, own, -1) = (IF x = own THEN -1 ELSE 0)
      BY DEF More
    <3> QED BY <1>1, <1>5, <3>1, <3>2, <3>3
  <2>2. CASE ~Refers(s, x)
    <3>1. ~Refers(u, x) /\ x # own
      BY <1>2, <2>2 DEF Refers
    <3> QED BY <2>2, <3>1 DEF Bal, More
  <2> QED BY <2>1, <2>2
<1> QED BY <1>2, <1>6 DEF Settles, SameRest

(* A namespace is made for whoever asked for it.                           *)
LEMMA SpaceMadeSettles ==
  ASSUME NEW s, Sound(s), NEW u, NEW toplevel, SpaceMade(s, u, toplevel)
  PROVE  Settles(s, u, Entry("SUBNAMESPACE", SpaceCount(u)), 1)
<1> DEFINE n == SpaceCount(u)
           e == Entry("SUBNAMESPACE", n)
           ob == NewSpace(toplevel)
<1>1. /\ Sound(u) /\ SpaceAdded(s, u, ob) /\ SameRest(s, u) /\ u.fmt = s.fmt
      /\ SpaceCount(u) = SpaceCount(s) + 1 /\ u.ns[n] = ob /\ FormatCount(u) = FormatCount(s)
      /\ \A m \in 1 .. SpaceCount(s) : u.ns[m] = s.ns[m]
      /\ SpaceCount(s) \in Nat
  BY ShapeIs DEF SpaceMade, Becomes, SpaceAdded, FormatCount, Sound
<1>2. ob.ref_count = 1 /\ Nodes(ob.by_name) = {}
  BY EmptyIsTidy DEF NewSpace
<1>3. \A E : Listing(ob, E) = {}
  BY <1>2 DEF Listing
<1>4. e.type = "SUBNAMESPACE" /\ e.v = n /\ "FORMAT" # "SUBNAMESPACE" /\ n # NULL
      /\ Refers(u, e) /\ ~Refers(s, e) /\ Object(u, e) = ob
  BY <1>1, NumbersAre, ObjectIs DEF Refers
<1> HIDE DEF e, ob, n
<1>5. \A x : ListedIn(u, {x}) = ListedIn(s, {x}) /\ ListedIn(s, {x}) \in Nat
             /\ MembersIn(u, {x.v}) = MembersIn(s, {x.v})
  <2>1. \A E : ListedIn(u, E) = ListedIn(s, E) + Cardinality(Listing(ob, E))
    BY <1>1, ListedChange
  <2>2. \A E : ListedIn(s, E) \in Nat /\ MembersIn(u, E) = MembersIn(s, E)
    BY <1>1, ListedChange, CountsAre
  <2> QED BY <1>3, <2>1, <2>2, FS_EmptySet
<1>6. \A x : Owed(u, x) = Owed(s, x)
  BY <1>1, <1>5 DEF Owed, SameRest
<1>7. Bal(u, e) = 1 /\ Bal(s, e) = 0
  <2>1. ListedIn(s, {e}) = 0
    BY <1>4, NobodyRefers DEF e
  <2>2. s.global # n
    <3>1. s.global \in 1 .. SpaceCount(s) \cup {NULL}
      BY DEF Sound
    <3> QED BY <1>1, <1>4, <3>1 DEF n
  <2>3. Owed(u, e) = 0
    <3>1. Owed(s, e) = 0
      BY <1>4, <2>1, <2>2 DEF Owed
    <3> QED BY <1>6, <3>1
  <2>4. Due(e, ob) = 1
    BY <1>2, <1>4 DEF Due
  <2> QED BY <1>1, <1>4, <2>3, <2>4, BalIs
<1>8. ASSUME NEW x, x # e PROVE Bal(u, x) = Bal(s, x)
  <2>1. Refers(u, x) <=> Refers(s, x)
    <3>1. ASSUME x = Entry("SUBNAMESPACE", x.v), x.v \in 1 .. SpaceCount(u)
          PROVE  x.v \in 1 .. SpaceCount(s)
      <4>1. x.v # n
        BY <1>8, <3>1 DEF e
      <4> QED BY <1>1, <3>1, <4>1 DEF n
    <3> QED BY <1>1, <3>1 DEF Refers
  <2>2. CASE Refers(s, x)
    <3>1. Object(u, x) = Object(s, x)
      BY <1>1, <2>2, NumbersAre, ObjectIs DEF Refers
    <3> QED BY <1>6, <2>1, <2>2, <3>1 DEF Bal
  <2>3. CASE ~Refers(s, x)
    BY <2>1, <2>3 DEF Bal
  <2> QED BY <2>2, <2>3
<1>9. \A x : Bal(s, x) \in Int
  BY BalIs
<1>10. ASSUME NEW x PROVE Bal(u, x) = Bal(s, x) + More(x, e, 1)
  BY <1>7, <1>8, <1>9 DEF More
<1> QED BY <1>1, <1>10 DEF Settles, SameRest, e, n

(* The references that a format takes to its members.                      *)
Taken(members, i, x) ==
  IF x.type = "FORMAT" THEN Cardinality({j \in 1 .. i : members[j] = x.v}) ELSE 0

LEMMA TakenIs ==
  ASSUME NEW members, NEW x
  PROVE  /\ Taken(members, 0, x) = 0
         /\ \A i \in Nat : Taken(members, i, x) \in Nat
         /\ \A i \in Nat : Taken(members, i + 1, x) =
              Taken(members, i, x)
                + (IF x.type = "FORMAT" /\ members[i + 1] = x.v THEN 1 ELSE 0)
<1> DEFINE S(i) == {j \in 1 .. i : members[j] = x.v}
<1>1. S(0) = {}
  OBVIOUS
<1>2. ASSUME NEW i \in Nat PROVE IsFiniteSet(S(i)) /\ Cardinality(S(i)) \in Nat
  <2>1. IsFiniteSet(1 .. i) /\ S(i) \in SUBSET (1 .. i)
    BY FS_Interval
  <2> HIDE DEF S
  <2> QED BY <2>1, FS_Subset, FS_CardinalityType
<1>3. ASSUME NEW i \in Nat
      PROVE  Cardinality(S(i + 1)) = Cardinality(S(i))
                                       + (IF members[i + 1] = x.v THEN 1 ELSE 0)
  <2>1. i + 1 \notin S(i) /\ 1 .. i + 1 = (1 .. i) \cup {i + 1}
    OBVIOUS
  <2> DEFINE A == S(i)
             B == S(i + 1)
  <2>2. B = A \cup (IF members[i + 1] = x.v THEN {i + 1} ELSE {})
    BY <2>1
  <2>3. i + 1 \notin A /\ IsFiniteSet(A) /\ Cardinality(A) \in Nat
    BY <1>2, <2>1
  <2> HIDE DEF A, B
  <2>4. Cardinality(A \cup {i + 1}) = Cardinality(A) + 1
    BY <2>3, FS_AddElement
  <2>5. A \cup {} = A
    OBVIOUS
  <2>6. Cardinality(B) = Cardinality(A) + (IF members[i + 1] = x.v THEN 1 ELSE 0)
    <3>1. CASE members[i + 1] = x.v
      BY <2>2, <2>4, <3>1
    <3>2. CASE members[i + 1] # x.v
      BY <2>2, <2>3, <2>5, <3>2
    <3> QED BY <3>1, <3>2
  <2> QED BY <2>6 DEF A, B
<1>4. Cardinality(S(0)) = 0
  <2> DEFINE A == S(0)
  <2>1. A = {}
    BY <1>1
  <2> HIDE DEF A
  <2>2. Cardinality(A) = 0
    BY <2>1, FS_EmptySet
  <2> QED BY <2>2 DEF A
<1> DEFINE C(i) == Cardinality(S(i))
<1>5. \A i : Taken(members, i, x) = IF x.type = "FORMAT" THEN C(i) ELSE 0
  BY DEF Taken
<1>6. /\ C(0) = 0 /\ \A i \in Nat : C(i) \in Nat
      /\ \A i \in Nat : C(i + 1) = C(i) + (IF members[i + 1] = x.v THEN 1 ELSE 0)
  BY <1>2, <1>3, <1>4
<1> HIDE DEF S, C
<1>7. CASE x.type = "FORMAT"
  BY <1>5, <1>6, <1>7
<1>8. CASE x.type # "FORMAT"
  BY <1>5, <1>8
<1> QED BY <1>7, <1>8

Took(s, u, members, i) ==
  ~u.crashed => ~s.crashed /\ \A x : Refers(s, x) => Bal(u, x) = Bal(s, x) + Taken(members, i, x)

LEMMA TakesSettle ==
  ASSUME NEW s, Sound(s), NEW members, MayHave(s, members), NEW g, NEW max,
         Takes(g, s, members, max)
  PROVE  \A i \in 0 .. max : Took(s, g[i], members, i)
<1> DEFINE T == {i \in 0 .. max : Took(s, g[i], members, i)}
<1>1. max \in Nat /\ \A i \in 0 .. max : RefKept(s, g[i])
  BY TakesKeep
<1>2. \A x : Bal(s, x) \in Int
  BY BalIs
<1>3. 0 \in T
  <2>1. g[0] = s
    BY DEF Takes
  <2> QED BY <1>1, <1>2, <2>1, TakenIs DEF Took
<1>4. ASSUME NEW i \in 1 .. max, i - 1 \in T PROVE i \in T
  <2> DEFINE r == g[i - 1]
             u == g[i]
             f == members[i]
             e == Entry("FORMAT", f)
  <2>1. RefKept(s, r) /\ Took(s, r, members, i - 1) /\ i - 1 \in Nat /\ (i - 1) + 1 = i
    BY <1>1, <1>4
  <2>2. u = IF f = NULL THEN r ELSE FormatRef(r, f)
    BY DEF Takes
  <2>3. f \in 1 .. FormatCount(s) \cup {NULL}
    BY DEF MayHave, Takes
  <2>4. \A x : /\ Taken(members, i, x) = Taken(members, i - 1, x)
                    + (IF x.type = "FORMAT" /\ f = x.v THEN 1 ELSE 0)
               /\ Taken(members, i - 1, x) \in Nat
    <3> DEFINE k == i - 1
    <3>1. k \in Nat /\ k + 1 = i
      BY <2>1
    <3> HIDE DEF k
    <3>2. ASSUME NEW x
          PROVE  /\ Taken(members, k + 1, x) = Taken(members, k, x)
                      + (IF x.type = "FORMAT" /\ members[k + 1] = x.v THEN 1 ELSE 0)
                 /\ Taken(members, k, x) \in Nat
      BY <3>1, TakenIs
    <3> QED BY <3>1, <3>2 DEF k
  <2>5. e.type = "FORMAT" /\ e.v = f
    BY NumbersAre
  <2>6. \A x : Refers(s, x) /\ x.type = "FORMAT" => x = Entry("FORMAT", x.v)
    BY NumbersAre DEF Refers
  <2> HIDE DEF r, u, f
  <2>7. Sound(r) /\ FormatCount(r) = FormatCount(s)
    BY <2>1 DEF RefKept, Becomes
  <2>8. Took(s, u, members, i)
    <3>1. CASE f = NULL
      <4>1. \A x : Refers(s, x) => x.v # f
        BY <3>1, NumbersAre
      <4>2. \A x : Refers(s, x) => Taken(members, i, x) = Taken(members, i - 1, x)
        BY <2>4, <4>1
      <4> QED BY <2>1, <2>2, <3>1, <4>2 DEF Took
    <3>2. CASE f # NULL
      <4>1. Settles(r, u, e, 1)
        BY <2>2, <2>3, <2>7, <3>2, FormatRefSettles
      <4>2. ASSUME ~u.crashed PROVE ~r.crashed /\ \A x : Bal(u, x) = Bal(r, x) + More(x, e, 1)
        BY <4>1, <4>2 DEF Settles
      <4>3. \A x : Refers(s, x) => (x = e <=> x.type = "FORMAT" /\ f = x.v)
        BY <2>5, <2>6 DEF e
      <4> HIDE DEF e
      <4>4. ASSUME ~u.crashed, NEW x, Refers(s, x)
            PROVE  Bal(u, x) = Bal(s, x) + Taken(members, i, x)
        <5>1. Bal(u, x) = Bal(r, x) + More(x, e, 1)
          BY <4>2, <4>4
        <5>2. Bal(r, x) = Bal(s, x) + Taken(members, i - 1, x)
          BY <2>1, <4>2, <4>4 DEF Took
        <5>3. Taken(members, i, x) = Taken(members, i - 1, x) + More(x, e, 1)
          BY <2>4, <4>3, <4>4 DEF More
        <5>4. Bal(s, x) \in Int /\ Taken(members, i - 1, x) \in Nat /\ More(x, e, 1) \in Int
          BY <1>2, <2>4 DEF More
        <5> QED BY <5>1, <5>2, <5>3, <5>4
      <4>5. ~u.crashed => ~s.crashed
        BY <2>1, <4>2 DEF Took
      <4> QED BY <4>4, <4>5 DEF Took
    <3> QED BY <3>1, <3>2
  <2> QED BY <2>8 DEF u
<1>5. 0 .. max \subseteq T
  <2> HIDE DEF T
  <2> QED BY <1>1, <1>3, <1>4, IndexInduction
<1> QED BY <1>5

(* A format is made for whoever asked for it; the one reference to an      *)
(* array is that of the format of its elements.                            *)
LEMMA FormatMadeSettles ==
  ASSUME NEW s, Sound(s), NEW type, NEW members, MayHave(s, members), NEW u,
         FormatMade(s, u, type, members)
  PROVE  Settles(s, u, Entry("FORMAT", FormatCount(u)), IF type = "ARRAY" THEN 0 ELSE 1)
<1> DEFINE ob == NewObject(type, members)
           max == Len(members)
           f == FormatCount(u)
           e == Entry("FORMAT", f)
           d == IF type = "ARRAY" THEN 0 ELSE 1
<1>1. PICK g : Takes(g, s, members, max) /\ u = [g[max] EXCEPT !.fmt = Append(@, ob)]
  BY NewFormatTakes DEF MayHave, FormatMade
<1> DEFINE r == g[max]
<1>2. RefKept(s, r) /\ Took(s, r, members, max) /\ max \in Nat
  <2>1. max \in Nat /\ \A i \in 0 .. max : RefKept(s, g[i]) /\ Took(s, g[i], members, i)
    <3> HIDE DEF max
    <3> QED BY <1>1, TakesKeep, TakesSettle
  <2> QED BY <2>1
<1>3. u = [r EXCEPT !.fmt = Append(@, ob)]
  BY <1>1
<1>4. /\ ob.members = members /\ ob.ref_count = 1 /\ ob.type = type /\ LiveFormat(ob) /\ Alive(ob)
  BY DEF NewObject, LiveFormat, Alive
<1>5. OwnUse(ob) = 1 - d /\ d \in Int
  BY <1>4 DEF OwnUse
<1> HIDE DEF ob, r, d
<1>6. FormatAdded(r, u, ob) /\ Sound(r) /\ Sound(u)
  BY <1>2, <1>3, <1>4, FormatAdds DEF RefKept, Becomes, Sound, FormatMade
<1>7. /\ SameRest(r, u) /\ u.ns = r.ns /\ SpaceCount(u) = SpaceCount(r)
      /\ FormatCount(r) = FormatCount(s) /\ f = FormatCount(s) + 1 /\ FormatCount(s) \in Nat
      /\ u.fmt[f] = ob /\ \A h \in 1 .. FormatCount(s) : u.fmt[h] = r.fmt[h]
      /\ r.global = s.global /\ r.leaks = s.leaks /\ r.ns = s.ns
  BY <1>2, <1>6, ShapeIs DEF FormatAdded, RefKept, SpaceCount, Sound
<1>8. SpaceCount(r) = SpaceCount(s)
  BY <1>7 DEF SpaceCount
<1>9. /\ e.type = "FORMAT" /\ e.v = f /\ "FORMAT" # "SUBNAMESPACE" /\ f # NULL
      /\ Refers(u, e) /\ ~Refers(r, e) /\ ~Refers(s, e) /\ Object(u, e) = ob
  BY <1>7, NumbersAre, ObjectIs DEF Refers
<1>10. ASSUME NEW x
       PROVE  /\ ListedIn(u, {x}) = ListedIn(r, {x}) /\ ListedIn(r, {x}) \in Nat
              /\ MembersIn(u, {x.v}) = MembersIn(r, {x.v}) + Cardinality(Spots(members, {x.v}))
              /\ MembersIn(r, {x.v}) \in Nat /\ Cardinality(Spots(members, {x.v})) \in Nat
  <2>1. Membership(ob, {x.v}) = Spots(members, {x.v})
    BY <1>4 DEF Membership
  <2>2. Cardinality(Spots(members, {x.v})) \in Nat
    BY SpotsAre DEF MayHave, CountIn
  <2> QED BY <1>6, <1>7, <2>1, <2>2, ListedChange, CountsAre
<1>11. \A x : Cardinality(Spots(members, {x.v})) = Cardinality({j \in 1 .. max : members[j] = x.v})
  <2>1. \A x : Spots(members, {x.v}) = {j \in 1 .. max : members[j] = x.v}
    BY DEF Spots
  <2> QED BY <2>1
<1>12. ASSUME NEW x PROVE Owed(u, x) = Owed(r, x) + Taken(members, max, x)
  <2>1. CASE x.type = "FORMAT"
    <3>1. Owed(u, x) = ListedIn(u, {x}) + MembersIn(u, {x.v})
          /\ Owed(r, x) = ListedIn(r, {x}) + MembersIn(r, {x.v})
          /\ Taken(members, max, x) = Cardinality(Spots(members, {x.v}))
      BY <1>11, <2>1 DEF Owed, Taken
    <3> QED BY <1>10, <3>1
  <2>2. CASE x.type # "FORMAT"
    <3>1. Owed(u, x) = ListedIn(u, {x}) + (IF u.global = x.v THEN 1 ELSE 0)
          /\ Owed(r, x) = ListedIn(r, {x}) + (IF r.global = x.v THEN 1 ELSE 0)
          /\ Taken(members, max, x) = 0
      BY <2>2 DEF Owed, Taken
    <3>2. u.global = r.global
      BY <1>7 DEF SameRest
    <3> DEFINE k == IF r.global = x.v THEN 1 ELSE 0
    <3>3. k \in Nat
      OBVIOUS
    <3>4. Owed(u, x) = ListedIn(r, {x}) + k /\ Owed(r, x) = ListedIn(r, {x}) + k
      BY <1>10, <3>1, <3>2
    <3>5. Taken(members, max, x) = 0 /\ ListedIn(r, {x}) \in Nat
      BY <1>10, <3>1
    <3> HIDE DEF k
    <3>6. ListedIn(r, {x}) + k = ListedIn(r, {x}) + k + 0
      BY <3>3, <3>5
    <3> QED BY <3>4, <3>5, <3>6
  <2> QED BY <2>1, <2>2
<1>13. Bal(u, e) = d /\ Bal(s, e) = 0
  <2>1. ListedIn(r, {e}) = 0 /\ MembersIn(r, {e.v}) = 0
    BY <1>6, <1>9, NobodyRefers DEF e
  <2>2. Owed(r, e) = 0
    BY <1>9, <2>1 DEF Owed
  <2>3. Taken(members, max, e) = 0
    <3>1. {j \in 1 .. max : members[j] = e.v} = {}
      BY <1>7, <1>9 DEF MayHave
    <3> QED BY <3>1, FS_EmptySet DEF Taken
  <2>4. Owed(u, e) = 0
    BY <1>12, <2>2, <2>3
  <2>5. Due(e, ob) = d
    BY <1>4, <1>5, <1>9 DEF Due
  <2> QED BY <1>5, <1>6, <1>9, <2>4, <2>5, BalIs
<1>14. ASSUME NEW x, x # e, ~u.crashed PROVE Bal(u, x) = Bal(s, x)
  <2>1. /\ Refers(r, x) <=> Refers(s, x)
        /\ Refers(u, x) <=> Refers(s, x)
    <3>1. ASSUME x = Entry("FORMAT", x.v), x.v \in 1 .. FormatCount(u)
          PROVE  x.v \in 1 .. FormatCount(s)
      <4>1. x.v # f
        BY <1>14, <3>1
      <4> QED BY <1>7, <3>1, <4>1
    <3> QED BY <1>7, <1>8, <3>1 DEF Refers
  <2>2. CASE Refers(s, x)
    <3>1. Object(u, x) = Object(r, x)
      BY <1>7, <2>1, <2>2, NumbersAre, ObjectIs DEF Refers
    <3>2. Bal(u, x) = Due(x, Object(r, x)) - Owed(u, x)
          /\ Bal(r, x) = Due(x, Object(r, x)) - Owed(r, x)
          /\ Due(x, Object(r, x)) \in Int /\ Owed(r, x) \in Nat /\ Owed(u, x) \in Nat
      BY <1>6, <2>1, <2>2, <3>1, BalIs
    <3>3. Bal(r, x) = Bal(s, x) + Taken(members, max, x)
      BY <1>2, <1>7, <1>14, <2>2 DEF Took, SameRest
    <3>4. Taken(members, max, x) \in Nat /\ Bal(s, x) \in Int
      BY <1>2, TakenIs, BalIs
    <3> QED BY <1>12, <3>2, <3>3, <3>4
  <2>3. CASE ~Refers(s, x)
    BY <2>1, <2>3 DEF Bal
  <2> QED BY <2>2, <2>3
<1>15. \A x : Bal(s, x) \in Int
  BY BalIs
<1>16. ASSUME ~u.crashed
       PROVE  ~s.crashed /\ \A x : Bal(u, x) = Bal(s, x) + More(x, e, d)
  <2>1. ~s.crashed
    BY <1>2, <1>7, <1>16 DEF Took, SameRest
  <2>2. ASSUME NEW x PROVE Bal(u, x) = Bal(s, x) + More(x, e, d)
    BY <1>5, <1>13, <1>14, <1>15, <1>16 DEF More
  <2> QED BY <2>1, <2>2
<1>17. Settles(s, u, e, d)
  BY <1>7, <1>16 DEF Settles, SameRest
<1> QED BY <1>17 DEF d

-----------------------------------------------------------------------------
(* Giving references back: those that a destroyed object held are given    *)
(* back next, so that no count is changed without its reason.              *)
AnyEntry == {Entry(type, v) : type \in {"FORMAT", "SUBNAMESPACE"}, v \in Nat}
AnyFormat == Nat \cup {NULL}

LEMMA AnyIs ==
  ASSUME NEW s, Sound(s)
  PROVE  /\ \A x : Refers(s, x) => x \in AnyEntry
         /\ \A n \in 1 .. SpaceCount(s) : Alive(s.ns[n]) =>
              \A x \in Nodes(s.ns[n].by_name) : s.ns[n].by_name.at[x].entry \in AnyEntry
         /\ \A f \in 1 .. FormatCount(s) : Alive(s.fmt[f]) =>
              \A i \in 1 .. Len(s.fmt[f].members) : s.fmt[f].members[i] \in AnyFormat
         /\ Cardinality(Listed(s)) = ListedIn(s, AnyEntry)
         /\ Cardinality(Members(s)) = MembersIn(s, AnyFormat)
<1>1. /\ SpaceCount(s) \in Nat /\ FormatCount(s) \in Nat
      /\ LiveSpaces(s) = {n \in 1 .. SpaceCount(s) : Alive(s.ns[n])}
      /\ LiveFormats(s) = {f \in 1 .. FormatCount(s) : Alive(s.fmt[f])}
  BY ShapeIs DEF Sound
<1>2. \A x : Refers(s, x) => x \in AnyEntry
  BY <1>1 DEF Refers, AnyEntry
<1>3. \A n \in 1 .. SpaceCount(s) : Alive(s.ns[n]) =>
        \A x \in Nodes(s.ns[n].by_name) : s.ns[n].by_name.at[x].entry \in AnyEntry
  BY <1>2 DEF Sound, TreeSound
<1>4. \A f \in 1 .. FormatCount(s) : Alive(s.fmt[f]) =>
        \A i \in 1 .. Len(s.fmt[f].members) : s.fmt[f].members[i] \in AnyFormat
  BY <1>1 DEF Sound, MembersSound, AnyFormat
<1> QED BY <1>1, <1>2, <1>3, <1>4, CountsAre

(* The references that the object o of the entry e holds to x, and all.    *)
Cites(e, ob, x) == IF e.type = "FORMAT" THEN Mentions(ob, x) ELSE Cardinality(Listing(ob, {x}))
CitesAny(e, ob) ==
  IF e.type = "FORMAT" THEN Cardinality(Membership(ob, AnyFormat))
  ELSE Cardinality(Listing(ob, AnyEntry))

LEMMA ListingEnumerated ==
  ASSUME NEW ob, Alive(ob), NEW order, Enumerates(order, Nodes(ob.by_name)),
         NEW d, IsList(d), Len(d) = Len(order),
         \A i \in 1 .. Len(order) : d[i] = ob.by_name.at[order[i]].entry, NEW E
  PROVE  CountIn(d, E) = Cardinality(Listing(ob, E))
<1> DEFINE S == Spots(d, E)
           T == Listing(ob, E)
           f == [i \in S |-> order[i]]
<1>1. \A i \in S : i \in 1 .. Len(order) /\ d[i] \in E
  BY DEF Spots
<1>2. \A z : z \in T <=> z \in Nodes(ob.by_name) /\ ob.by_name.at[z].entry \in E
  BY DEF Listing
<1>3. \A i \in S : order[i] \in T
  <2>1. \A i \in 1 .. Len(order) : order[i] \in Nodes(ob.by_name)
    BY ElementOfSeq DEF Enumerates
  <2> QED BY <1>1, <1>2, <2>1
<1>4. f \in [S -> T] /\ \A i \in S : f[i] = order[i]
  BY <1>3
<1>5. \A i, j \in S : f[i] = f[j] => i = j
  BY <1>1, <1>4 DEF Enumerates
<1>6. \A z \in T : \E i \in S : f[i] = z
  <2> SUFFICES ASSUME NEW z \in T PROVE \E i \in S : f[i] = z
    OBVIOUS
  <2>1. PICK i \in 1 .. Len(order) : order[i] = z
    BY <1>2 DEF Enumerates
  <2>2. i \in S
    BY <1>2, <2>1 DEF Spots
  <2> QED BY <1>4, <2>1, <2>2
<1>7. IsFiniteSet(S)
  BY SpotsAre
<1> HIDE DEF S, T, f
<1>8. Cardinality(T) = Cardinality(S)
  BY <1>4, <1>5, <1>6, <1>7, BijectionCounts
<1> QED BY <1>8 DEF CountIn, S, T

LEMMA DroppedCounts ==
  ASSUME NEW s, Sound(s), NEW e, Refers(s, e), NEW ob, ob = Object(s, e), Alive(ob)
  PROVE  /\ Len(Dropped(s, e)) = CitesAny(e, ob)
         /\ \A x : Refers(s, x) => CountIn(Dropped(s, e), {x}) = Cites(e, ob, x)
<1> DEFINE d == Dropped(s, e)
<1>1. IsList(d) /\ \A i \in 1 .. Len(d) : Pending(s, d[i])
  BY DroppedIs DEF TodoSound
<1>2. CASE e.type = "FORMAT"
  <2> DEFINE m == ob.members
  <2>1. e.v \in 1 .. FormatCount(s) /\ ob = s.fmt[e.v]
    BY <1>2, ObjectIs DEF Object, KindOf
  <2>2. IsList(m) /\ \A i \in 1 .. Len(m) : m[i] \in AnyFormat
    BY <2>1, AnyIs DEF Sound, MembersSound
  <2>3. /\ Len(d) = Len(m) /\ \A i \in 1 .. Len(m) : d[i] = Entry("FORMAT", m[i])
    <3>1. /\ Len(d) = Len(s.fmt[e.v].members)
          /\ \A i \in 1 .. Len(s.fmt[e.v].members) :
               d[i] = Entry("FORMAT", s.fmt[e.v].members[i])
      BY <1>2, DroppedIs
    <3> QED BY <2>1, <3>1
  <2>4. \A V : Membership(ob, V) = Spots(m, V)
    BY DEF Membership
  <2> HIDE DEF d, m
  <2>5. Len(d) = CitesAny(e, ob)
    <3>1. CountIn(m, AnyFormat) = Len(m)
      BY <2>2, SpotsAre
    <3> QED BY <1>2, <2>3, <2>4, <3>1 DEF CitesAny, CountIn
  <2>6. ASSUME NEW x, Refers(s, x) PROVE CountIn(d, {x}) = Cites(e, ob, x)
    <3>1. CASE x.type = "FORMAT"
      <4>1. x = Entry("FORMAT", x.v)
        BY <2>6, <3>1, ObjectIs
      <4>2. \A i \in 1 .. Len(m) : d[i] = x <=> m[i] = x.v
        BY <2>3, <4>1, NumbersAre
      <4>3. Spots(d, {x}) = Spots(m, {x.v})
        BY <2>3, <4>2 DEF Spots
      <4> QED BY <1>2, <2>4, <3>1, <4>3 DEF CountIn, Cites, Mentions
    <3>2. CASE x.type # "FORMAT"
      <4>1. \A i \in 1 .. Len(d) : d[i] \notin {x}
        BY <2>3, <3>2, NumbersAre
      <4>2. CountIn(d, {x}) = 0
        BY <1>1, <4>1, SpotsAre DEF d
      <4> QED BY <1>2, <3>2, <4>2 DEF Cites, Mentions
    <3> QED BY <3>1, <3>2
  <2> QED BY <2>5, <2>6 DEF d
<1>3. CASE e.type # "FORMAT"
  <2> DEFINE order == PostOrder(ob.by_name)
  <2>1. e.v \in 1 .. SpaceCount(s) /\ ob = s.ns[e.v]
    BY <1>3, ObjectIs DEF Object, KindOf
  <2>2. /\ Enumerates(order, Nodes(ob.by_name)) /\ Len(d) = Len(order)
        /\ \A i \in 1 .. Len(order) : d[i] = ob.by_name.at[order[i]].entry
    <3> DEFINE t == s.ns[e.v].by_name
               q == PostOrder(t)
    <3>1. Enumerates(q, Nodes(t)) /\ Len(d) = Len(q)
          /\ \A i \in 1 .. Len(q) : d[i] = t.at[q[i]].entry
      BY <1>3, DroppedIs
    <3> QED BY <2>1, <3>1
  <2> HIDE DEF d, order
  <2>3. \A E : CountIn(d, E) = Cardinality(Listing(ob, E))
    BY <1>1, <2>2, ListingEnumerated DEF d
  <2>4. CountIn(d, AnyEntry) = Len(d)
    <3>1. \A i \in 1 .. Len(d) : d[i] \in AnyEntry
      <4>1. \A i \in 1 .. Len(order) : order[i] \in Nodes(ob.by_name)
        BY <2>2, ElementOfSeq DEF Enumerates
      <4> QED BY <2>1, <2>2, <4>1, AnyIs
    <3> QED BY <1>1, <3>1, SpotsAre DEF d
  <2> QED BY <1>3, <2>3, <2>4 DEF Cites, CitesAny, d
<1> QED BY <1>2, <1>3

(* What changes when an object becomes ob.                                 *)
Fuel(s) == ListedIn(s, AnyEntry) + MembersIn(s, AnyFormat)
Exchanges(s, u, e, p, ob) ==
  /\ \A x : Refers(s, x) =>
       /\ Refers(u, x)
       /\ Bal(u, x) + Cites(e, ob, x) + (IF x = e THEN Due(x, p) ELSE 0)
            = Bal(s, x) + Cites(e, p, x) + (IF x = e THEN Due(x, ob) ELSE 0)
       /\ Cites(e, ob, x) \in Nat /\ Cites(e, p, x) \in Nat
  /\ Due(e, ob) \in Int /\ Due(e, p) \in Int
  /\ Fuel(u) + CitesAny(e, p) = Fuel(s) + CitesAny(e, ob)
  /\ Fuel(u) \in Nat /\ Fuel(s) \in Nat /\ CitesAny(e, p) \in Nat /\ CitesAny(e, ob) \in Nat

LEMMA ObjectSetBal ==
  ASSUME NEW s, Sound(s), NEW u, Sound(u), NEW e, Refers(s, e), NEW p, p = Object(s, e), NEW ob,
         e.type = "FORMAT" => FormatSet(s, u, e.v, ob),
         e.type # "FORMAT" => SpaceSet(s, u, e.v, ob)
  PROVE  Exchanges(s, u, e, p, ob)
<1>1. /\ ListedIn(s, AnyEntry) \in Nat /\ MembersIn(s, AnyFormat) \in Nat
      /\ ListedIn(u, AnyEntry) \in Nat /\ MembersIn(u, AnyFormat) \in Nat
  BY CountsAre
<1>2. CASE e.type = "FORMAT"
  <2> DEFINE f == e.v
  <2>1. /\ f \in 1 .. FormatCount(s) /\ p = s.fmt[f] /\ e = Entry("FORMAT", f)
        /\ FormatSet(s, u, f, ob) /\ u.ns = s.ns
        /\ u.fmt[f] = ob /\ f \in 1 .. FormatCount(u)
    BY <1>2, ObjectIs DEF FormatSet, Object, KindOf
  <2> HIDE DEF f
  <2>2. /\ ListedIn(u, AnyEntry) = ListedIn(s, AnyEntry)
        /\ MembersIn(u, AnyFormat) + Cardinality(Membership(p, AnyFormat))
             = MembersIn(s, AnyFormat) + Cardinality(Membership(ob, AnyFormat))
        /\ Cardinality(Membership(p, AnyFormat)) \in Nat
        /\ Cardinality(Membership(ob, AnyFormat)) \in Nat
    BY <2>1, ListedChange, HeldReferencesFinite
  <2>3. \A x : Cites(e, ob, x) = Mentions(ob, x) /\ Cites(e, p, x) = Mentions(p, x)
    BY <1>2 DEF Cites
  <2>4. \A x : Refers(s, x) =>
          /\ Refers(u, x)
          /\ Bal(u, x) + Mentions(ob, x) + (IF x = e THEN Due(x, p) ELSE 0)
               = Bal(s, x) + Mentions(p, x) + (IF x = e THEN Due(x, ob) ELSE 0)
          /\ Mentions(ob, x) \in Nat /\ Mentions(p, x) \in Nat
          /\ x = e => Due(x, ob) \in Int /\ Due(x, p) \in Int
    BY <2>1, FormatSetBal
  <2> QED BY <1>1, <1>2, <2>2, <2>3, <2>4 DEF Fuel, CitesAny, Exchanges
<1>3. CASE e.type # "FORMAT"
  <2> DEFINE n == e.v
  <2>1. /\ n \in 1 .. SpaceCount(s) /\ p = s.ns[n] /\ e = Entry("SUBNAMESPACE", n)
        /\ SpaceSet(s, u, n, ob) /\ u.fmt = s.fmt
        /\ u.ns[n] = ob /\ n \in 1 .. SpaceCount(u)
    BY <1>3, ObjectIs DEF SpaceSet, Object, KindOf
  <2> HIDE DEF n
  <2>2. /\ MembersIn(u, AnyFormat) = MembersIn(s, AnyFormat)
        /\ ListedIn(u, AnyEntry) + Cardinality(Listing(p, AnyEntry))
             = ListedIn(s, AnyEntry) + Cardinality(Listing(ob, AnyEntry))
        /\ Cardinality(Listing(p, AnyEntry)) \in Nat
        /\ Cardinality(Listing(ob, AnyEntry)) \in Nat
    BY <2>1, ListedChange, HeldReferencesFinite
  <2>3. /\ \A x : /\ Cites(e, ob, x) = Cardinality(Listing(ob, {x}))
                  /\ Cites(e, p, x) = Cardinality(Listing(p, {x}))
        /\ Due(e, ob) = ob.ref_count /\ Due(e, p) = p.ref_count
    BY <1>3 DEF Cites, Due
  <2>4. \A x : Refers(s, x) =>
          /\ Refers(u, x)
          /\ Bal(u, x) + Cardinality(Listing(ob, {x})) + (IF x = e THEN p.ref_count ELSE 0)
               = Bal(s, x) + Cardinality(Listing(p, {x}))
                   + (IF x = e THEN ob.ref_count ELSE 0)
          /\ Cardinality(Listing(ob, {x})) \in Nat /\ Cardinality(Listing(p, {x})) \in Nat
          /\ p.ref_count \in Nat /\ ob.ref_count \in Nat
    <3>1. ASSUME NEW x, Refers(s, x)
          PROVE  /\ Refers(u, x)
                 /\ Bal(u, x) + Cardinality(Listing(ob, {x}))
                      + (IF x = e THEN s.ns[n].ref_count ELSE 0)
                      = Bal(s, x) + Cardinality(Listing(s.ns[n], {x}))
                          + (IF x = e THEN ob.ref_count ELSE 0)
                 /\ Cardinality(Listing(ob, {x})) \in Nat
                 /\ Cardinality(Listing(s.ns[n], {x})) \in Nat
                 /\ s.ns[n].ref_count \in Nat /\ ob.ref_count \in Nat
      BY <2>1, <3>1, SpaceSetBal
    <3>2. p = s.ns[n]
      BY <2>1
    <3> QED BY ONLY <3>1, <3>2
  <2>5. p.ref_count \in Nat /\ ob.ref_count \in Nat
    BY <2>4
  <2>6. ASSUME NEW x, Refers(s, x)
        PROVE  /\ Refers(u, x)
               /\ Bal(u, x) + Cites(e, ob, x) + (IF x = e THEN Due(x, p) ELSE 0)
                    = Bal(s, x) + Cites(e, p, x) + (IF x = e THEN Due(x, ob) ELSE 0)
               /\ Cites(e, ob, x) \in Nat /\ Cites(e, p, x) \in Nat
    BY <2>3, <2>4, <2>6
  <2> QED BY <1>1, <1>3, <2>2, <2>3, <2>5, <2>6 DEF Fuel, CitesAny, Exchanges
<1> QED BY <1>2, <1>3

LEMMA OneFewer ==
  ASSUME NEW e, NEW p, e.type = "FORMAT" => LiveFormat(p), e.type # "FORMAT" => LiveSpace(p),
         NEW c \in Nat \ {0}, p.ref_count = c + 1, NEW ob, ob = [p EXCEPT !.ref_count = c]
  PROVE  /\ \A x : Cites(e, ob, x) = Cites(e, p, x)
         /\ CitesAny(e, ob) = CitesAny(e, p)
         /\ Due(e, p) \in Int => Due(e, ob) = Due(e, p) - 1
<1>1. CASE e.type = "FORMAT"
  <2>1. LiveFormat(p)
    BY <1>1
  <2>2. ob.ref_count = c /\ ob.type = p.type /\ ob.members = p.members
    BY <2>1 DEF LiveFormat
  <2>3. Alive(ob) /\ Alive(p)
    BY <2>2 DEF Alive
  <2>4. (\A V : Membership(ob, V) = Membership(p, V)) /\ OwnUse(ob) = OwnUse(p)
        /\ OwnUse(p) \in Nat
    BY <2>2, <2>3 DEF Membership, OwnUse
  <2>5. Due(e, p) = c + 1 - OwnUse(p) /\ Due(e, ob) = c - OwnUse(p)
    BY <1>1, <2>2, <2>4 DEF Due
  <2> QED BY <1>1, <2>4, <2>5 DEF Cites, CitesAny, Mentions
<1>2. CASE e.type # "FORMAT"
  <2>1. LiveSpace(p)
    BY <1>2
  <2>2. ob.ref_count = c /\ ob.by_name = p.by_name
    BY <2>1 DEF LiveSpace
  <2>3. Alive(ob) /\ Alive(p)
    BY <2>2 DEF Alive
  <2>4. \A E : Listing(ob, E) = Listing(p, E)
    BY <2>2, <2>3 DEF Listing
  <2>5. Due(e, p) = c + 1 /\ Due(e, ob) = c
    BY <1>2, <2>2 DEF Due
  <2> QED BY <1>2, <2>4, <2>5 DEF Cites, CitesAny
<1> QED BY <1>1, <1>2

LEMMA FreedCites ==
  ASSUME NEW e
  PROVE  /\ \A x : Cites(e, Freed, x) = 0
         /\ CitesAny(e, Freed) = 0 /\ Due(e, Freed) = 0
<1>1. Freed.ref_count = 0 /\ ~Alive(Freed)
  BY DEF Alive, Freed
<1>2. (\A V : Membership(Freed, V) = {}) /\ (\A E : Listing(Freed, E) = {})
  BY <1>1 DEF Membership, Listing
<1>3. OwnUse(Freed) = 0 /\ Cardinality({}) = 0
  BY <1>1, FS_EmptySet DEF OwnUse
<1> QED BY <1>1, <1>2, <1>3 DEF Cites, CitesAny, Due, Mentions

(* One unref, while everything that is to be given back is counted.        *)
Covered(s, q) == \A x : Refers(s, x) => Bal(s, x) >= CountIn(q, {x})
SameCounts(s, u) == FormatCount(u) = FormatCount(s) /\ SpaceCount(u) = SpaceCount(s)
Balances(r, u) ==
  /\ SameCounts(r.s, u.s)
  /\ u.s.leaks = r.s.leaks /\ u.s.global = r.s.global
  /\ r.s.crashed => u.s.crashed
  /\ ~u.s.crashed =>
       /\ Len(u.todo) + Fuel(u.s) + 1 = Len(r.todo) + Fuel(r.s)
       /\ \A x : Refers(r.s, x) =>
            /\ Refers(u.s, x)
            /\ Bal(u.s, x) + CountIn(r.todo, {x}) = Bal(r.s, x) + CountIn(u.todo, {x})

LEMMA UnrefBalances ==
  ASSUME NEW r, Sound(r.s), TodoSound(r.s, r.todo), r.todo # <<>>, NEW u, u = Unref(r),
         ~r.s.crashed => Covered(r.s, r.todo)
  PROVE  Balances(r, u)
<1> DEFINE e == Head(r.todo)
           rest == Tail(r.todo)
           p == Object(r.s, e)
           c == p.ref_count
<1>1. UnrefIs(r, u)
  BY UnrefDoes
<1>2. CASE UnrefCrashes(r, e)
  <2>1. u.s = Crash(r.s)
    BY <1>1, <1>2 DEF UnrefIs
  <2>2. Crashed(r.s, u.s)
    BY <2>1, CrashIs DEF Sound
  <2> QED BY <2>2 DEF Crashed, Balances, SameCounts, FormatCount, SpaceCount
<1>3. CASE ~UnrefCrashes(r, e)
  <2>1. /\ Refers(r.s, e) /\ c \in Nat \ {0} /\ Alive(p)
        /\ c > 1 => u = [s |-> [r.s EXCEPT ![KindOf(e)][e.v] = [p EXCEPT !.ref_count = c - 1]],
                         todo |-> rest]
        /\ ~(c > 1) => c = 1 /\ u = [s |-> [r.s EXCEPT ![KindOf(e)][e.v] = Freed],
                                     todo |-> Dropped(r.s, e) \o rest]
    BY <1>1, <1>3 DEF UnrefIs
  <2>2. UnrefResult(r, u)
    BY UnrefKeeps
  <2>3. Sound(u.s) /\ IsList(r.todo)
    BY <2>2 DEF UnrefResult, Becomes, TodoSound
  <2>4. /\ IsList(rest) /\ Len(rest) = Len(r.todo) - 1 /\ Len(r.todo) \in Nat
        /\ \A x : /\ CountIn(r.todo, {x}) = CountIn(rest, {x}) + More(x, e, 1)
                  /\ CountIn(rest, {x}) \in Nat
    <3>1. IsList(rest) /\ Len(rest) = Len(r.todo) - 1 /\ Len(r.todo) \in Nat
      BY <2>3, ListTail
    <3>2. ASSUME NEW x
          PROVE  CountIn(r.todo, {x}) = CountIn(rest, {x}) + More(x, e, 1)
                 /\ CountIn(rest, {x}) \in Nat
      <4>1. CountIn(r.todo, {x}) = CountIn(rest, {x}) + (IF e \in {x} THEN 1 ELSE 0)
            /\ CountIn(rest, {x}) \in Nat
        BY <2>3, SpotsTail
      <4> HIDE DEF e, rest
      <4> QED BY <4>1 DEF More
    <3> QED BY <3>1, <3>2
  <2> HIDE DEF e, rest, p, c
  <2>5. p = Object(r.s, e) /\ c = p.ref_count
    BY DEF p, c
  <2>6. ASSUME NEW ob, NEW v, u.s = v, v = [r.s EXCEPT ![KindOf(e)][e.v] = ob],
               \/ ob = Freed
               \/ \E k \in Nat \ {0} : ob = [p EXCEPT !.ref_count = k]
        PROVE  Exchanges(r.s, u.s, e, p, ob) /\ SameRest(r.s, u.s) /\ SameCounts(r.s, u.s)
    <3>1. /\ SameRest(r.s, v)
          /\ e.type = "FORMAT" => FormatSet(r.s, v, e.v, ob)
          /\ e.type # "FORMAT" => SpaceSet(r.s, v, e.v, ob)
      BY <2>1, <2>5, <2>6, SetObject
    <3>2. Sound(v) /\ Refers(r.s, e)
      BY <2>1, <2>3, <2>6
    <3>3. SameCounts(r.s, v)
      BY <3>1 DEF SameCounts, FormatSet, SpaceSet, FormatCount, SpaceCount
    <3>4. Exchanges(r.s, v, e, p, ob)
      BY <2>5, <3>1, <3>2, ObjectSetBal
    <3> QED BY <2>6, <3>1, <3>3, <3>4
  <2>7. \A x : Bal(r.s, x) \in Int /\ Bal(u.s, x) \in Int
    BY <2>3, BalIs
  <2>8. CASE c > 1
    <3> DEFINE ob == [p EXCEPT !.ref_count = c - 1]
               v == [r.s EXCEPT ![KindOf(e)][e.v] = ob]
    <3>1. u.s = v /\ u.todo = rest /\ v = [r.s EXCEPT ![KindOf(e)][e.v] = ob]
      BY <2>1, <2>8
    <3>2. c - 1 \in Nat \ {0}
      BY <2>1, <2>8
    <3>3. ob = Freed \/ \E k \in Nat \ {0} : ob = [p EXCEPT !.ref_count = k]
      BY <3>2
    <3>4. /\ \A x : Cites(e, ob, x) = Cites(e, p, x)
          /\ CitesAny(e, ob) = CitesAny(e, p)
          /\ Due(e, p) \in Int => Due(e, ob) = Due(e, p) - 1
      <4>1. (e.type = "FORMAT" => LiveFormat(p)) /\ (e.type # "FORMAT" => LiveSpace(p))
        <5>1. CASE e.type = "FORMAT"
          <6>1. e.v \in 1 .. FormatCount(r.s) /\ p = r.s.fmt[e.v]
            BY <2>1, <2>5, <5>1, ObjectIs DEF Object, KindOf
          <6>2. Alive(r.s.fmt[e.v]) <=> LiveFormat(r.s.fmt[e.v])
            BY <6>1, ShapeIs DEF Sound
          <6> QED BY <2>1, <5>1, <6>1, <6>2
        <5>2. CASE e.type # "FORMAT"
          <6>1. e.v \in 1 .. SpaceCount(r.s) /\ p = r.s.ns[e.v]
            BY <2>1, <2>5, <5>2, ObjectIs DEF Object, KindOf
          <6>2. Alive(r.s.ns[e.v]) <=> LiveSpace(r.s.ns[e.v])
            BY <6>1, ShapeIs DEF Sound
          <6> QED BY <2>1, <5>2, <6>1, <6>2
        <5> QED BY <5>1, <5>2
      <4>2. p.ref_count = (c - 1) + 1
        BY <2>1, <2>5
      <4> QED BY <3>2, <4>1, <4>2, OneFewer
    <3> HIDE DEF ob, v
    <3>5. Exchanges(r.s, u.s, e, p, ob) /\ SameRest(r.s, u.s) /\ SameCounts(r.s, u.s)
      BY <2>6, <3>1, <3>3
    <3>6. ASSUME NEW x, Refers(r.s, x)
          PROVE  /\ Refers(u.s, x)
                 /\ Bal(u.s, x) + CountIn(r.todo, {x}) = Bal(r.s, x) + CountIn(u.todo, {x})
      <4>1. /\ Bal(u.s, x) + Cites(e, ob, x) + (IF x = e THEN Due(x, p) ELSE 0)
                 = Bal(r.s, x) + Cites(e, p, x) + (IF x = e THEN Due(x, ob) ELSE 0)
            /\ Cites(e, ob, x) = Cites(e, p, x) /\ Cites(e, p, x) \in Nat
            /\ Due(e, p) \in Int /\ Due(e, ob) = Due(e, p) - 1
            /\ Bal(u.s, x) \in Int /\ Bal(r.s, x) \in Int /\ Refers(u.s, x)
        BY <2>7, <3>4, <3>5, <3>6 DEF Exchanges
      <4>2. CountIn(r.todo, {x}) = CountIn(u.todo, {x}) + More(x, e, 1)
            /\ CountIn(u.todo, {x}) \in Nat
        <5>1. CountIn(r.todo, {x}) = CountIn(rest, {x}) + More(x, e, 1)
              /\ CountIn(rest, {x}) \in Nat
          BY <2>4
        <5> QED BY <3>1, <5>1
      <4>3. CASE x = e
        <5>1. More(x, e, 1) = 1
          BY <4>3 DEF More
        <5>2. Bal(u.s, x) + Cites(e, p, x) + Due(e, p)
                = Bal(r.s, x) + Cites(e, p, x) + (Due(e, p) - 1)
          BY <4>1, <4>3
        <5> QED BY <4>1, <4>2, <5>1, <5>2
      <4>4. CASE x # e
        <5>1. More(x, e, 1) = 0
          BY <4>4 DEF More
        <5>2. Bal(u.s, x) + Cites(e, p, x) = Bal(r.s, x) + Cites(e, p, x)
          BY <4>1, <4>4
        <5> QED BY <4>1, <4>2, <5>1, <5>2
      <4> QED BY <4>3, <4>4
    <3>7. Len(u.todo) + Fuel(u.s) + 1 = Len(r.todo) + Fuel(r.s)
      BY <2>4, <3>1, <3>4, <3>5 DEF Exchanges
    <3> QED BY <3>5, <3>6, <3>7 DEF Balances, SameRest
  <2>9. CASE ~(c > 1)
    <3> DEFINE v == [r.s EXCEPT ![KindOf(e)][e.v] = Freed]
               d == Dropped(r.s, e)
    <3>1. c = 1 /\ u.s = v /\ u.todo = d \o rest
      BY <2>1, <2>9
    <3>2. /\ IsList(d) /\ Len(d) = CitesAny(e, p)
          /\ \A x : Refers(r.s, x) => CountIn(d, {x}) = Cites(e, p, x)
      BY <2>1, <2>5, DroppedCounts, DroppedIs DEF TodoSound
    <3>3. v = [r.s EXCEPT ![KindOf(e)][e.v] = Freed]
      OBVIOUS
    <3> HIDE DEF v, d
    <3>4. Exchanges(r.s, u.s, e, p, Freed) /\ SameRest(r.s, u.s) /\ SameCounts(r.s, u.s)
      BY <2>6, <3>1, <3>3
    <3>5. /\ \A x : Cites(e, Freed, x) = 0
          /\ CitesAny(e, Freed) = 0 /\ Due(e, Freed) = 0
      BY FreedCites
    <3>6. \A V : /\ CountIn(u.todo, V) = CountIn(d, V) + CountIn(rest, V)
                 /\ Len(u.todo) = Len(d) + Len(rest) /\ Len(d) \in Nat
      <4>1. IsList(d) /\ IsList(rest) /\ u.todo = d \o rest
        BY <2>4, <3>1, <3>2
      <4>2. Len(d \o rest) = Len(d) + Len(rest) /\ Len(d) \in Nat
        BY <4>1, ListJoins
      <4>3. \A V : CountIn(d \o rest, V) = CountIn(d, V) + CountIn(rest, V)
        BY <4>1, SpotsJoin
      <4> QED BY <4>1, <4>2, <4>3
    <3>7. ASSUME ~u.s.crashed
          PROVE  Due(e, p) = 1
      <4>1. ~r.s.crashed
        BY <3>4, <3>7 DEF SameRest
      <4>2. Bal(r.s, e) >= CountIn(r.todo, {e}) /\ CountIn(r.todo, {e}) >= 1
        <5>1. Bal(r.s, e) >= CountIn(r.todo, {e})
          BY <2>1, <4>1 DEF Covered
        <5>2. More(e, e, 1) = 1
          BY DEF More
        <5>3. CountIn(r.todo, {e}) = CountIn(rest, {e}) + More(e, e, 1)
              /\ CountIn(rest, {e}) \in Nat
          BY <2>4
        <5> QED BY <5>1, <5>2, <5>3
      <4>3. Bal(r.s, e) = Due(e, p) - Owed(r.s, e) /\ Owed(r.s, e) \in Nat
        BY <2>1, <2>5, BalIs
      <4>4. Due(e, p) <= 1
        <5>1. p.ref_count = 1
          BY <2>5, <3>1
        <5> QED BY <5>1 DEF Due, OwnUse
      <4>5. CountIn(r.todo, {e}) \in Nat
        BY <2>3, SpotsAre
      <4>6. Due(e, p) \in Int
        BY <3>4 DEF Exchanges
      <4> QED BY <4>2, <4>3, <4>4, <4>5, <4>6
    <3>8. ASSUME ~u.s.crashed, NEW x, Refers(r.s, x)
          PROVE  /\ Refers(u.s, x)
                 /\ Bal(u.s, x) + CountIn(r.todo, {x}) = Bal(r.s, x) + CountIn(u.todo, {x})
      <4>1. Bal(u.s, x) + More(x, e, 1) = Bal(r.s, x) + Cites(e, p, x)
        <5>1. /\ Bal(u.s, x) + Cites(e, Freed, x) + (IF x = e THEN Due(x, p) ELSE 0)
                   = Bal(r.s, x) + Cites(e, p, x) + (IF x = e THEN Due(x, Freed) ELSE 0)
              /\ Cites(e, Freed, x) = 0 /\ Cites(e, p, x) \in Nat
              /\ Due(e, p) = 1 /\ Due(e, Freed) = 0
              /\ Bal(u.s, x) \in Int /\ Bal(r.s, x) \in Int
          BY <2>7, <3>4, <3>5, <3>7, <3>8 DEF Exchanges
        <5>2. CASE x = e
          BY <5>1, <5>2 DEF More
        <5>3. CASE x # e
          BY <5>1, <5>3 DEF More
        <5> QED BY <5>2, <5>3
      <4>2. More(x, e, 1) \in Int
        BY DEF More
      <4>3. CountIn(r.todo, {x}) = CountIn(rest, {x}) + More(x, e, 1)
            /\ CountIn(u.todo, {x}) = Cites(e, p, x) + CountIn(rest, {x})
            /\ CountIn(rest, {x}) \in Nat /\ Cites(e, p, x) \in Nat
        <5>1. CountIn(u.todo, {x}) = CountIn(d, {x}) + CountIn(rest, {x})
          BY <3>6
        <5>2. CountIn(d, {x}) = Cites(e, p, x) /\ Cites(e, p, x) \in Nat
          BY <3>2, <3>4, <3>8 DEF Exchanges
        <5> QED BY <2>4, <5>1, <5>2
      <4>4. Refers(u.s, x)
        BY <3>4, <3>8 DEF Exchanges
      <4> QED BY <2>7, <4>1, <4>2, <4>3, <4>4
    <3>9. Len(u.todo) + Fuel(u.s) + 1 = Len(r.todo) + Fuel(r.s)
      <4>1. /\ Fuel(u.s) + CitesAny(e, p) = Fuel(r.s) + CitesAny(e, Freed)
            /\ CitesAny(e, Freed) = 0 /\ CitesAny(e, p) \in Nat
            /\ Fuel(u.s) \in Nat /\ Fuel(r.s) \in Nat
        BY <3>4, <3>5 DEF Exchanges
      <4>2. Len(u.todo) = CitesAny(e, p) + Len(rest)
        BY <3>2, <3>6
      <4> QED BY <2>4, <4>1, <4>2
    <3> QED BY <3>4, <3>8, <3>9 DEF Balances, SameRest
  <2> QED BY <2>8, <2>9
<1> QED BY <1>2, <1>3

(* All the unrefs of a call, e being given back.                           *)
GivesBack(s, e, max, i, r) ==
  /\ GivenBack(s, e, r)
  /\ r.s.leaks = s.leaks /\ r.s.global = s.global
  /\ s.crashed => r.s.crashed
  /\ r.todo = <<>> \/ Len(r.todo) + Fuel(r.s) + i = max \/ r.s.crashed
  /\ ~r.s.crashed =>
       \A x : Refers(s, x) => /\ Refers(r.s, x)
                              /\ Bal(r.s, x) + More(x, e, 1) = Bal(s, x) + CountIn(r.todo, {x})
  /\ \A x : Refers(r.s, x) => Refers(s, x)

LEMMA UnrefsBalance ==
  ASSUME NEW s, Sound(s), NEW e, Refers(s, e),
         ~s.crashed => \A x : Refers(s, x) => Bal(s, x) >= More(x, e, 1),
         NEW g, NEW max, Unrefs(g, s, e, max)
  PROVE  \A i \in 0 .. max : GivesBack(s, e, max, i, g[i])
<1> DEFINE T == {i \in 0 .. max : GivesBack(s, e, max, i, g[i])}
<1>1. /\ max \in Nat /\ \A i \in 0 .. max : GivenBack(s, e, g[i])
  BY UnrefsKeep DEF Unrefs
<1>2. \A x : Bal(s, x) \in Int /\ More(x, e, 1) \in Int
  BY BalIs DEF More
<1>3. 0 \in T
  <2> DEFINE r == g[0]
  <2>1. r.s = s /\ r.todo = <<e>> /\ GivenBack(s, e, r)
    BY <1>1 DEF Unrefs
  <2>2. \A x : CountIn(<<e>>, {x}) = More(x, e, 1)
    BY SpotsOne DEF More
  <2>3. Len(<<e>>) = 1
    OBVIOUS
  <2>4. max = 1 + Fuel(s) /\ Fuel(s) \in Nat
    <3>1. /\ max = 1 + Cardinality(Members(s)) + Cardinality(Listed(s))
          /\ Cardinality(Members(s)) = MembersIn(s, AnyFormat)
          /\ Cardinality(Listed(s)) = ListedIn(s, AnyEntry)
          /\ MembersIn(s, AnyFormat) \in Nat /\ ListedIn(s, AnyEntry) \in Nat
      BY AnyIs, CountsAre DEF Unrefs
    <3> QED BY <3>1 DEF Fuel
  <2> HIDE DEF r
  <2>5. GivesBack(s, e, max, 0, r)
    BY <1>2, <2>1, <2>2, <2>3, <2>4 DEF GivesBack
  <2> QED BY <1>1, <2>5 DEF r
<1>4. ASSUME NEW i \in 1 .. max, i - 1 \in T PROVE i \in T
  <2> DEFINE r == g[i - 1]
             u == g[i]
  <2>1. /\ GivesBack(s, e, max, i - 1, r) /\ GivenBack(s, e, u)
        /\ u = IF r.todo = <<>> THEN r ELSE Unref(r)
    BY <1>1, <1>4 DEF Unrefs
  <2> HIDE DEF r, u
  <2>2. CASE r.todo = <<>>
    <3>1. u = r
      BY <2>1, <2>2
    <3>2. GivesBack(s, e, max, i, u)
      BY <2>1, <2>2, <3>1 DEF GivesBack
    <3>3. i \in 0 .. max
      BY <1>1
    <3> QED BY <3>2, <3>3 DEF u
  <2>3. CASE r.todo # <<>>
    <3>1. u = Unref(r) /\ Sound(r.s) /\ TodoSound(r.s, r.todo) /\ IsList(r.todo)
      BY <2>1, <2>3 DEF GivesBack, GivenBack, Becomes, TodoSound
    <3>2. ~r.s.crashed => Covered(r.s, r.todo)
      <4> SUFFICES ASSUME ~r.s.crashed, NEW x, Refers(r.s, x)
                   PROVE  Bal(r.s, x) >= CountIn(r.todo, {x})
        BY DEF Covered
      <4>1. Bal(r.s, x) + More(x, e, 1) = Bal(s, x) + CountIn(r.todo, {x})
            /\ Bal(s, x) >= More(x, e, 1)
        BY <2>1 DEF GivesBack
      <4>2. CountIn(r.todo, {x}) \in Nat /\ Bal(r.s, x) \in Int
        BY <3>1, SpotsAre, BalIs
      <4> QED BY <1>2, <4>1, <4>2
    <3>3. Balances(r, u)
      BY <2>3, <3>1, <3>2, UnrefBalances
    <3>4. u.todo = <<>> \/ Len(u.todo) + Fuel(u.s) + i = max \/ u.s.crashed
      <4> SUFFICES ASSUME ~u.s.crashed PROVE Len(u.todo) + Fuel(u.s) + i = max
        OBVIOUS
      <4>1. /\ Len(r.todo) + Fuel(r.s) + (i - 1) = max
            /\ Len(u.todo) + Fuel(u.s) + 1 = Len(r.todo) + Fuel(r.s)
        BY <2>1, <2>3, <3>3 DEF GivesBack, Balances
      <4>2. IsList(u.todo) /\ Sound(u.s)
        BY <2>1 DEF GivenBack, TodoSound, Becomes
      <4>3. /\ Len(u.todo) \in Nat /\ Len(r.todo) \in Nat
            /\ Fuel(u.s) \in Nat /\ Fuel(r.s) \in Nat
        BY <3>1, <4>2, CountsAre, ListIs DEF Fuel
      <4> QED BY <1>1, <4>1, <4>3
    <3>5. ASSUME ~u.s.crashed, NEW x, Refers(s, x)
          PROVE  /\ Refers(u.s, x)
                 /\ Bal(u.s, x) + More(x, e, 1) = Bal(s, x) + CountIn(u.todo, {x})
      <4>1. /\ Refers(r.s, x)
            /\ Bal(r.s, x) + More(x, e, 1) = Bal(s, x) + CountIn(r.todo, {x})
        BY <2>1, <3>3, <3>5 DEF GivesBack, Balances
      <4>2. /\ Refers(u.s, x)
            /\ Bal(u.s, x) + CountIn(r.todo, {x}) = Bal(r.s, x) + CountIn(u.todo, {x})
        BY <3>3, <3>5, <4>1 DEF Balances
      <4>3. IsList(u.todo) /\ Sound(u.s)
        BY <2>1 DEF GivenBack, TodoSound, Becomes
      <4>4. /\ CountIn(r.todo, {x}) \in Nat /\ CountIn(u.todo, {x}) \in Nat
            /\ Bal(u.s, x) \in Int /\ Bal(r.s, x) \in Int
        BY <3>1, <4>3, SpotsAre, BalIs
      <4> QED BY <1>2, <4>1, <4>2, <4>4
    <3>6. /\ u.s.leaks = s.leaks /\ u.s.global = s.global
          /\ s.crashed => u.s.crashed
      BY <2>1, <3>3 DEF GivesBack, Balances
    <3>7. \A x : Refers(u.s, x) => Refers(s, x)
      <4>1. \A x : Refers(u.s, x) => Refers(r.s, x)
        BY <3>3 DEF Balances, SameCounts, Refers
      <4> QED BY <2>1, <4>1 DEF GivesBack
    <3> QED BY <2>1, <3>4, <3>5, <3>6, <3>7 DEF GivesBack, u
  <2> QED BY <2>2, <2>3
<1>5. 0 .. max \subseteq T
  <2> HIDE DEF T
  <2> QED BY <1>1, <1>3, <1>4, IndexInduction
<1> QED BY <1>5

(* bulp_format_unref and bulp_namespace_unref give back one reference that *)
(* was accounted for, and whatever they destroy is given back too.         *)
LEMMA GiveBackSettles ==
  ASSUME NEW s, Sound(s), NEW e, Refers(s, e),
         ~s.crashed => \A x : Refers(s, x) => Bal(s, x) >= More(x, e, 1),
         NEW u, u = GiveBack(s, e)
  PROVE  Settles(s, u, e, -1)
<1>1. PICK g, max : Unrefs(g, s, e, max)
  BY GiveBackUnrefs
<1> DEFINE r == g[max]
<1>2. max \in Nat /\ u = r.s
  BY <1>1 DEF Unrefs
<1>3. GivesBack(s, e, max, max, r)
  BY <1>1, <1>2, UnrefsBalance
<1> HIDE DEF r
<1>4. IsList(r.todo) /\ Sound(r.s)
  BY <1>3 DEF GivesBack, GivenBack, TodoSound, Becomes
<1>5. ASSUME ~u.crashed PROVE r.todo = <<>>
  <2> SUFFICES ASSUME r.todo # <<>> PROVE FALSE
    OBVIOUS
  <2>1. Len(r.todo) + Fuel(r.s) + max = max
    BY <1>2, <1>3, <1>5 DEF GivesBack
  <2>2. Fuel(r.s) \in Nat /\ Len(r.todo) \in Nat \ {0}
    BY <1>4, CountsAre, ListTail DEF Fuel
  <2> QED BY <1>2, <2>1, <2>2
<1>6. ASSUME ~u.crashed, NEW x PROVE Bal(u, x) = Bal(s, x) + More(x, e, -1)
  <2>1. CASE Refers(s, x)
    <3>1. Bal(u, x) + More(x, e, 1) = Bal(s, x) + CountIn(<<>>, {x})
      BY <1>2, <1>3, <1>5, <1>6, <2>1 DEF GivesBack
    <3>2. CountIn(<<>>, {x}) = 0 /\ Bal(u, x) \in Int /\ Bal(s, x) \in Int
      BY <1>2, <1>4, SpotsOne, BalIs
    <3> QED BY <3>1, <3>2 DEF More
  <2>2. CASE ~Refers(s, x)
    <3>1. ~Refers(u, x) /\ x # e
      BY <1>2, <1>3, <2>2 DEF GivesBack
    <3> QED BY <2>2, <3>1 DEF Bal, More
  <2> QED BY <2>1, <2>2
<1> QED BY <1>2, <1>3, <1>6 DEF Settles, GivesBack

-----------------------------------------------------------------------------
(* The calls: what they take for themselves they account for.              *)
LEMMA FormatBoundSettles ==
  ASSUME NEW s, Sound(s), NEW u, NEW n, NEW name, NEW f \in 1 .. FormatCount(s),
         FormatBound(s, u, n, name, f), NEW y
  PROVE  Settles(s, u, y, 0)
<1> DEFINE e == Entry("FORMAT", f)
<1>1. PICK s0 : /\ Binds(s, s0, n, name, e)
                /\ \/ u = FormatRef(s0, f)
                   \/ Crashed(FormatRef(s0, f), u)
                   \/ FieldsSet(FormatRef(s0, f), u, f)
  BY DEF FormatBound
<1> DEFINE s1 == FormatRef(s0, f)
<1>2. Refers(s, e)
  BY NumbersAre DEF Refers
<1>3. Sound(s0) /\ f \in 1 .. FormatCount(s0)
  BY <1>1 DEF Binds, Becomes, SpaceSet, FormatCount
<1>4. Sound(s1) /\ f \in 1 .. FormatCount(s1)
  BY <1>3, FormatRefKept DEF RefKept, Becomes
<1>5. Settles(s0, s1, e, 1)
  BY <1>3, FormatRefSettles
<1> HIDE DEF e, s1
<1>6. Settles(s, s0, e, -1)
  BY <1>1, <1>2, BindsSettle DEF e
<1>7. Settles(s, s1, e, -1 + 1)
  BY <1>5, <1>6, SettlesTwice
<1>8. Settles(s, s1, e, 0)
  BY <1>7
<1>9. CASE u = s1
  BY <1>8, <1>9, SettlesTwice
<1>10. CASE Crashed(s1, u)
  <2>1. Settles(s1, u, y, 0)
    BY <1>10, CrashSettles
  <2> QED BY <1>8, <2>1, SettlesTwice
<1>11. CASE FieldsSet(s1, u, f)
  <2>1. Settles(s1, u, y, 0)
    BY <1>4, <1>11, FieldsSettle
  <2> QED BY <1>8, <2>1, SettlesTwice
<1> QED BY <1>1, <1>9, <1>10, <1>11 DEF s1

LEMMA SpaceBoundSettles ==
  ASSUME NEW s, Sound(s), NEW u, NEW n, NEW name, NEW m \in 1 .. SpaceCount(s),
         SpaceBound(s, u, n, name, m), NEW y
  PROVE  Settles(s, u, y, 0)
<1> DEFINE e == Entry("SUBNAMESPACE", m)
<1>1. PICK s0 : Binds(s, s0, n, name, e) /\ u = NamespaceRef(s0, m)
  BY DEF SpaceBound
<1>2. Refers(s, e)
  BY NumbersAre DEF Refers
<1>3. Sound(s0) /\ m \in 1 .. SpaceCount(s0)
  BY <1>1 DEF Binds, Becomes, SpaceSet
<1>4. Settles(s0, u, e, 1)
  BY <1>1, <1>3, NamespaceRefSettles
<1> HIDE DEF e
<1>5. Settles(s, s0, e, -1)
  BY <1>1, <1>2, BindsSettle
<1>6. Settles(s, u, e, -1 + 1)
  BY <1>4, <1>5, SettlesTwice
<1>7. Settles(s, u, e, 0)
  BY <1>6
<1> QED BY <1>7, SettlesTwice

LEMMA ArraySettles ==
  ASSUME NEW s, Sound(s), NEW f \in 1 .. FormatCount(s), NEW junk, NEW u, u = ArrayOf(s, f, junk),
         NEW y
  PROVE  Settles(s, u, y, 0)
<1>1. u = s \/ Crashed(s, u) \/ ArrayMade(s, f, u)
  BY ArrayOfMakes
<1>2. CASE u = s
  BY <1>2, SettlesTwice
<1>3. CASE Crashed(s, u)
  BY <1>3, CrashSettles
<1>4. CASE ArrayMade(s, f, u)
  <2>1. PICK s1, s2 : /\ FormatMade(s, s1, "ARRAY", <<>>)
                      /\ FieldsSet(s1, s2, FormatCount(s1)) /\ FieldsSet(s2, u, f)
    BY <1>4 DEF ArrayMade
  <2> DEFINE e == Entry("FORMAT", FormatCount(s1))
  <2>2. Settles(s, s1, e, IF "ARRAY" = "ARRAY" THEN 0 ELSE 1)
    BY <2>1, NoMembers, FormatMadeSettles
  <2>3. /\ Sound(s1) /\ FormatCount(s1) \in 1 .. FormatCount(s1)
        /\ f \in 1 .. FormatCount(s1)
    <3>1. FormatCount(s1) = FormatCount(s) + 1 /\ FormatCount(s) \in Nat /\ Sound(s1)
      BY <2>1, ShapeIs DEF FormatMade, Becomes, Sound
    <3> QED BY <3>1
  <2>4. Sound(s2) /\ f \in 1 .. FormatCount(s2)
    BY <2>1, <2>3 DEF FieldsSet, Becomes, FormatSet
  <2>5. Settles(s, s1, y, 0)
    BY <2>2, SettlesTwice
  <2>6. Settles(s1, s2, y, 0)
    BY <2>1, <2>3, FieldsSettle
  <2>7. Settles(s2, u, y, 0)
    BY <2>1, <2>4, FieldsSettle
  <2>8. Settles(s, s2, y, 0)
    BY <2>5, <2>6, SettlesTwice
  <2> QED BY <2>7, <2>8, SettlesTwice
<1> QED BY <1>1, <1>2, <1>3, <1>4

LEMMA ForceOneSettles ==
  ASSUME NEW s, Sound(s), NEW n, IsLive(s, n), NEW name \in Names, NEW y,
         NEW r, r = ForceSubnamespace1(s, n, name)
  PROVE  Settles(s, r.s, y, 0)
<1> DEFINE u == r.s
           m == r.v
           e == Entry("SUBNAMESPACE", m)
<1>1. u = s \/ SpaceForced(s, u, n, name, m)
  BY ForceOne
<1> HIDE DEF u, m
<1>2. CASE u = s
  BY <1>2, SettlesTwice DEF u
<1>3. CASE SpaceForced(s, u, n, name, m)
  <2>1. PICK s2 : SpaceMade(s, s2, FALSE) /\ m = SpaceCount(s2) /\ Binds(s2, u, n, name, e)
    BY <1>3 DEF SpaceForced
  <2>2. Sound(s2) /\ m \in 1 .. SpaceCount(s2)
    <3>1. Sound(s2) /\ SpaceCount(s2) = SpaceCount(s) + 1 /\ SpaceCount(s) \in Nat
      BY <2>1, ShapeIs DEF SpaceMade, Becomes, SpaceAdded, Sound
    <3> QED BY <2>1, <3>1
  <2>3. Refers(s2, e)
    BY <2>2, NumbersAre DEF Refers
  <2>4. Settles(s, s2, e, 1)
    <3> DEFINE toplevel == FALSE
    <3>1. SpaceMade(s, s2, toplevel)
      BY <2>1
    <3> HIDE DEF toplevel
    <3> QED BY <2>1, <3>1, SpaceMadeSettles
  <2> HIDE DEF e
  <2>5. Settles(s2, u, e, -1)
    BY <2>1, <2>2, <2>3, BindsSettle
  <2>6. Settles(s, u, e, 1 + (-1))
    <3>1. 1 \in Int /\ -1 \in Int
      OBVIOUS
    <3> QED BY <2>4, <2>5, <3>1, SettlesTwice
  <2>7. Settles(s, u, e, 0)
    BY <2>6
  <2> QED BY <2>7, SettlesTwice DEF u
<1> QED BY <1>1, <1>2, <1>3

LEMMA ForceSettles ==
  ASSUME NEW s, Sound(s), NEW n, IsLive(s, n), NEW path \in Seq(Names), NEW y,
         NEW u, u = ForceSubnamespace(s, n, path).s
  PROVE  Settles(s, u, y, 0)
<1> DEFINE max == Len(path)
<1>1. PICK g : Forces(g, s, n, path, max)
  BY ForceForces
<1>2. max \in Nat /\ \A i \in 0 .. max : Becomes(s, g[i].s) /\ IsLive(g[i].s, n)
  BY <1>1, ForcesKeep
<1> DEFINE T == {i \in 0 .. max : Settles(s, g[i].s, y, 0)}
<1>3. 0 \in T
  <2>1. g[0].s = s
    BY <1>1 DEF Forces
  <2> QED BY <1>2, <2>1, SettlesTwice
<1>4. ASSUME NEW i \in 1 .. max, i - 1 \in T PROVE i \in T
  <2> DEFINE r == g[i - 1]
             v == g[i]
  <2>1. /\ Sound(r.s) /\ IsLive(r.s, n) /\ Settles(s, r.s, y, 0)
        /\ v = r \/ v = ForceSubnamespace1(r.s, n, path[i])
        /\ path[i] \in Names
    BY <1>1, <1>2, <1>4, ElementOfSeq DEF Forces, Becomes
  <2> HIDE DEF r, v
  <2>2. CASE v = r
    BY <1>2, <2>1, <2>2 DEF v
  <2>3. CASE v = ForceSubnamespace1(r.s, n, path[i])
    <3>1. Settles(r.s, v.s, y, 0)
      BY <2>1, <2>3, ForceOneSettles
    <3>2. Settles(s, v.s, y, 0)
      BY <2>1, <3>1, SettlesTwice
    <3> QED BY <1>2, <3>2 DEF v
  <2> QED BY <2>1, <2>2, <2>3
<1>5. 0 .. max \subseteq T
  <2> HIDE DEF T, max
  <2> QED BY <1>2, <1>3, <1>4, IndexInduction
<1>6. u = g[max].s /\ max \in T
  BY <1>1, <1>2, <1>5 DEF Forces
<1> QED BY <1>6

(* Nobody holds less than nothing.                                         *)
Solvent(s) == ~s.crashed => \A x : Bal(s, x) >= 0

LEMMA BuiltinSettles ==
  ASSUME NEW s, Sound(s), IsLive(s, SpaceCount(s)), Solvent(s), NEW name \in Names,
         NEW u, u = AddBuiltin(s, name), NEW y
  PROVE  Settles(s, u, y, 0)
<1> DEFINE n == SpaceCount(s)
<1>1. PICK s1, s2 : /\ FormatMade(s, s1, "BUILTIN", <<>>) /\ Sound(s1)
                    /\ s2 = s1 \/ FormatBound(s1, s2, n, name, FormatCount(s1))
                    /\ Sound(s2) /\ FormatCount(s1) \in 1 .. FormatCount(s2)
                    /\ u = GiveBack(s2, Entry("FORMAT", FormatCount(s1)))
  BY AddBuiltinKeeps
<1> DEFINE f == FormatCount(s1)
           e == Entry("FORMAT", f)
<1>2. Settles(s, s1, e, IF "BUILTIN" = "ARRAY" THEN 0 ELSE 1)
  BY <1>1, NoMembers, FormatMadeSettles
<1>3. Settles(s, s1, e, 1)
  <2>1. "BUILTIN" # "ARRAY"
    OBVIOUS
  <2> QED BY <1>2, <2>1
<1>4. f \in 1 .. FormatCount(s1)
  <2>1. FormatCount(s1) = FormatCount(s) + 1 /\ FormatCount(s) \in Nat
    BY <1>1, ShapeIs DEF FormatMade, Sound
  <2> QED BY <2>1
<1>5. Settles(s1, s2, e, 0)
  <2>1. CASE s2 = s1
    BY <1>1, <2>1, SettlesTwice
  <2>2. CASE FormatBound(s1, s2, n, name, f)
    <3> HIDE DEF e, f, n
    <3> QED BY <1>1, <1>4, <2>2, FormatBoundSettles
  <2> QED BY <1>1, <2>1, <2>2
<1>6. Refers(s2, e)
  BY <1>1, NumbersAre DEF Refers
<1>7. u = GiveBack(s2, e)
  BY <1>1
<1> HIDE DEF e, f, n
<1>8. Settles(s, s2, e, 1)
  BY <1>3, <1>5, SettlesTwice
<1>9. ~s2.crashed => \A x : Refers(s2, x) => Bal(s2, x) >= More(x, e, 1)
  <2> SUFFICES ASSUME ~s2.crashed, NEW x PROVE Bal(s2, x) >= More(x, e, 1)
    OBVIOUS
  <2>1. Bal(s2, x) = Bal(s, x) + More(x, e, 1) /\ Bal(s, x) >= 0
    BY <1>8 DEF Settles, Solvent
  <2>2. Bal(s, x) \in Int /\ More(x, e, 1) \in Int
    BY BalIs DEF More
  <2> QED BY <2>1, <2>2
<1>10. Settles(s2, u, e, -1)
  BY <1>1, <1>6, <1>7, <1>9, GiveBackSettles
<1>11. Settles(s, u, e, 1 + (-1))
  BY <1>8, <1>10, SettlesTwice
<1>12. Settles(s, u, e, 0)
  BY <1>11
<1> QED BY <1>12, SettlesTwice

LEMMA NewGlobalSettles ==
  ASSUME NEW s, Sound(s), Solvent(s), NEW e, e = Entry("SUBNAMESPACE", SpaceCount(s) + 1)
  PROVE  Settles(s, NewGlobal(s), e, 1)
<1>1. PICK g : Adds(g, s, Len(Builtins))
  BY GlobalAdds
<1> DEFINE max == Len(Builtins)
           n == SpaceCount(s) + 1
           T == {i \in 0 .. max : Settles(s, g[i], e, 1)}
<1>2. /\ max \in Nat
      /\ \A i \in 0 .. max : Becomes(s, g[i]) /\ SpaceCount(g[i]) = n /\ IsLive(g[i], n)
  BY <1>1, AddsKeep DEF Adds
<1>3. 0 \in T
  <2> DEFINE toplevel == TRUE
             u == g[0]
  <2>1. u = NewNamespace(s, toplevel)
    BY <1>1 DEF Adds
  <2>2. SpaceCount(u) = n
    BY <1>2
  <2> HIDE DEF toplevel, u
  <2>3. Settles(s, u, Entry("SUBNAMESPACE", SpaceCount(u)), 1)
    BY <2>1, NewNamespaceMakes, SpaceMadeSettles
  <2>4. Settles(s, u, e, 1)
    BY <2>2, <2>3
  <2> QED BY <1>2, <2>4 DEF u
<1>4. ASSUME NEW i \in 1 .. max, i - 1 \in T PROVE i \in T
  <2> DEFINE r == g[i - 1]
             u == g[i]
             name == Builtins[i]
  <2>1. /\ Sound(r) /\ IsLive(r, SpaceCount(r)) /\ Settles(s, r, e, 1)
        /\ u = AddBuiltin(r, name) /\ name \in Names
    BY <1>1, <1>2, <1>4 DEF Adds, Becomes
  <2> HIDE DEF r, u, name
  <2>2. Solvent(r)
    <3> SUFFICES ASSUME ~r.crashed, NEW x PROVE Bal(r, x) >= 0
      BY DEF Solvent
    <3>1. Bal(r, x) = Bal(s, x) + More(x, e, 1) /\ Bal(s, x) >= 0
      BY <2>1 DEF Settles, Solvent
    <3>2. Bal(s, x) \in Int /\ More(x, e, 1) \in Nat
      BY BalIs DEF More
    <3> QED BY <3>1, <3>2
  <2>3. Settles(r, u, e, 0)
    BY <2>1, <2>2, BuiltinSettles
  <2>4. Settles(s, u, e, 1)
    <3> DEFINE one == 1
    <3>1. Settles(s, r, e, one) /\ one \in Int
      BY <2>1
    <3> HIDE DEF one
    <3>2. Settles(s, u, e, one + 0)
      <4>1. ASSUME NEW d \in Int, NEW c \in Int, Settles(s, r, e, d), Settles(r, u, e, c)
            PROVE  Settles(s, u, e, d + c)
        BY <4>1, SettlesTwice
      <4> QED BY <2>3, <3>1, <4>1
    <3>3. one + 0 = one
      BY <3>1
    <3>4. Settles(s, u, e, one)
      BY <3>2, <3>3
    <3> QED BY <3>4 DEF one
  <2> QED BY <2>4 DEF u
<1>5. 0 .. max \subseteq T
  <2> HIDE DEF T, max
  <2> QED BY <1>2, <1>3, <1>4, IndexInduction
<1>6. NewGlobal(s) = g[max] /\ max \in T
  BY <1>1, <1>2, <1>5 DEF Adds
<1> QED BY <1>6

-----------------------------------------------------------------------------
(* What neither an entry nor a member, nor the static variable, accounts   *)
(* for is what the caller holds, or has leaked.                            *)
LeaksSound(s) == IsList(s.leaks) /\ \A i \in 1 .. Len(s.leaks) : Refers(s, s.leaks[i])
Exact(s, h) ==
  ~s.crashed => \A x : Refers(s, x) => Bal(s, x) = HeldBy(h, x) + Uses(s.leaks, x)
Accounted == StoreSound /\ LeaksSound(store) /\ Exact(store, held)

LEMMA UsesAre ==
  ASSUME NEW s, LeaksSound(s)
  PROVE  /\ \A x : Uses(s.leaks, x) \in Nat
         /\ \A x : ~Refers(s, x) => Uses(s.leaks, x) = 0
<1> DEFINE q == s.leaks
           U(x) == {i \in DOMAIN q : q[i] = x}
<1>1. DOMAIN q = 1 .. Len(q) /\ Len(q) \in Nat /\ IsFiniteSet(1 .. Len(q))
  BY ListIs, FS_Interval DEF LeaksSound
<1>2. \A x : IsFiniteSet(U(x)) /\ U(x) \subseteq 1 .. Len(q)
  BY <1>1, FS_Subset
<1>3. \A x : ~Refers(s, x) => U(x) = {}
  BY <1>1 DEF LeaksSound
<1>4. \A x : Uses(s.leaks, x) = Cardinality(U(x))
  BY DEF Uses
<1> HIDE DEF U
<1> QED BY <1>2, <1>3, <1>4, FS_CardinalityType, FS_EmptySet

HeldAfter(h, e, d) == [h EXCEPT ![KindOf(e)][e.v] = @ + d]

LEMMA HeldFollows ==
  ASSUME NEW u, NEW h, HeldSound(u, h), NEW e, Refers(u, e), Within(u),
         SpaceCount(u) \in Nat, FormatCount(u) \in Nat, NEW d,
         NEW k, k = HeldAfter(h, e, d)
  PROVE  \A x : Refers(u, x) => HeldBy(k, x) = IF x = e THEN HeldBy(h, x) + d ELSE HeldBy(h, x)
<1>1. /\ h = [ns |-> h.ns, fmt |-> h.fmt]
      /\ h.ns \in [NsIds -> Nat] /\ h.fmt \in [FmtIds -> Nat]
  BY DEF HeldSound
<1>2. /\ 1 .. SpaceCount(u) \subseteq NsIds
      /\ 1 .. FormatCount(u) \subseteq FmtIds
  BY CallerAssumption DEF NsIds, FmtIds, Within
<1>3. "FORMAT" # "SUBNAMESPACE"
  OBVIOUS
<1>4. CASE e.type = "FORMAT"
  <2>1. /\ e.v \in 1 .. FormatCount(u) /\ KindOf(e) = "fmt" /\ e = Entry("FORMAT", e.v)
    BY <1>3, <1>4, NumbersAre DEF Refers, KindOf
  <2> DEFINE l == [h.fmt EXCEPT ![e.v] = @ + d]
  <2>2. k = [ns |-> h.ns, fmt |-> l]
    BY <1>1, <2>1 DEF HeldAfter
  <2>3. l[e.v] = h.fmt[e.v] + d /\ \A f \in FmtIds : f # e.v => l[f] = h.fmt[f]
    BY <1>1, <1>2, <2>1
  <2> HIDE DEF l
  <2>4. k.ns = h.ns /\ k.fmt = l
    BY ONLY <2>2
  <2> SUFFICES ASSUME NEW x, Refers(u, x)
               PROVE  HeldBy(k, x) = IF x = e THEN HeldBy(h, x) + d ELSE HeldBy(h, x)
    OBVIOUS
  <2>5. CASE x.type = "FORMAT"
    <3>1. x = Entry("FORMAT", x.v) /\ x.v \in FmtIds
      BY <1>2, <2>5, ObjectIs
    <3> QED BY <2>1, <2>3, <2>4, <2>5, <3>1 DEF HeldBy
  <2>6. CASE x.type # "FORMAT"
    BY <1>4, <2>4, <2>6 DEF HeldBy
  <2> QED BY <2>5, <2>6
<1>5. CASE e.type # "FORMAT"
  <2>1. /\ e.v \in 1 .. SpaceCount(u) /\ KindOf(e) = "ns" /\ e = Entry("SUBNAMESPACE", e.v)
    BY <1>3, <1>5, NumbersAre DEF Refers, KindOf
  <2> DEFINE l == [h.ns EXCEPT ![e.v] = @ + d]
  <2>2. k = [ns |-> l, fmt |-> h.fmt]
    BY <1>1, <2>1 DEF HeldAfter
  <2>3. l[e.v] = h.ns[e.v] + d /\ \A n \in NsIds : n # e.v => l[n] = h.ns[n]
    BY <1>1, <1>2, <2>1
  <2> HIDE DEF l
  <2>4. k.ns = l /\ k.fmt = h.fmt
    BY ONLY <2>2
  <2> SUFFICES ASSUME NEW x, Refers(u, x)
               PROVE  HeldBy(k, x) = IF x = e THEN HeldBy(h, x) + d ELSE HeldBy(h, x)
    OBVIOUS
  <2>5. CASE x.type = "FORMAT"
    BY <1>5, <2>4, <2>5 DEF HeldBy
  <2>6. CASE x.type # "FORMAT"
    <3>1. x = Entry("SUBNAMESPACE", x.v) /\ x.v \in NsIds
      BY <1>2, <2>6, ObjectIs
    <3> QED BY <2>1, <2>3, <2>4, <2>6, <3>1 DEF HeldBy
  <2> QED BY <2>5, <2>6
<1> QED BY <1>4, <1>5

(* Nothing is held of what is not there.                                   *)
LEMMA NothingHeld ==
  ASSUME NEW s, Sound(s), NEW h, HeldSound(s, h), NEW x, ~Refers(s, x),
         NEW u, Refers(u, x), Within(u), SpaceCount(u) \in Nat, FormatCount(u) \in Nat
  PROVE  HeldBy(h, x) = 0
<1>1. /\ 1 .. SpaceCount(u) \subseteq NsIds
      /\ 1 .. FormatCount(u) \subseteq FmtIds
  BY CallerAssumption DEF NsIds, FmtIds, Within
<1>2. CASE x.type = "FORMAT"
  <2>1. x = Entry("FORMAT", x.v) /\ x.v \in FmtIds
    BY <1>1, <1>2, ObjectIs
  <2>2. x.v \notin 1 .. FormatCount(s)
    BY <2>1 DEF Refers
  <2>3. h.fmt[x.v] \in Nat /\ ~(h.fmt[x.v] > 0)
    BY <2>1, <2>2 DEF HeldSound
  <2> QED BY <1>2, <2>3 DEF HeldBy
<1>3. CASE x.type # "FORMAT"
  <2>1. x = Entry("SUBNAMESPACE", x.v) /\ x.v \in NsIds
    BY <1>1, <1>3, ObjectIs
  <2>2. x.v \notin 1 .. SpaceCount(s)
    BY <2>1 DEF Refers
  <2>3. h.ns[x.v] \in Nat /\ ~(h.ns[x.v] > 0)
    BY <2>1, <2>2 DEF HeldSound
  <2> QED BY <1>3, <2>3 DEF HeldBy
<1> QED BY <1>2, <1>3

(* The balance of an object that is there when a call returns.             *)
LEMMA BalanceOf ==
  ASSUME Accounted, ~store.crashed, NEW s, Becomes(store, s), Within(s), NEW x, Refers(s, x)
  PROVE  /\ Bal(store, x) = HeldBy(held, x) + Uses(store.leaks, x)
         /\ HeldBy(held, x) \in Int
<1> DEFINE w == Uses(store.leaks, x)
<1>1. /\ Sound(store) /\ HeldSound(store, held) /\ Exact(store, held) /\ LeaksSound(store)
      /\ w \in Nat
  BY UsesAre DEF Accounted, StoreSound
<1>2. SpaceCount(s) \in Nat /\ FormatCount(s) \in Nat
  BY ShapeIs DEF Becomes, Sound
<1> HIDE DEF w
<1>3. HeldBy(held, x) \in Int
  <2>1. held.ns \in [NsIds -> Nat] /\ held.fmt \in [FmtIds -> Nat]
    BY <1>1 DEF HeldSound
  <2>2. /\ 1 .. SpaceCount(s) \subseteq NsIds
        /\ 1 .. FormatCount(s) \subseteq FmtIds
    BY <1>2, CallerAssumption DEF NsIds, FmtIds, Within
  <2> QED BY <2>1, <2>2, ObjectIs DEF HeldBy
<1>4. CASE Refers(store, x)
  BY <1>1, <1>3, <1>4 DEF Exact, w
<1>5. CASE ~Refers(store, x)
  <2>1. HeldBy(held, x) = 0
    BY <1>1, <1>2, <1>5, NothingHeld
  <2>2. w = 0
    BY <1>1, <1>5, UsesAre DEF w
  <2> QED BY <1>5, <2>1, <2>2 DEF Bal, w
<1> QED BY <1>3, <1>4, <1>5 DEF w

(* A call that moves the references that it hands to the caller or takes   *)
(* from it.                                                                *)
Moves(s, u, e, d) ==
  u.leaks = s.leaks /\ (~u.crashed => \A x : Bal(u, x) = Bal(s, x) + More(x, e, d))

LEMMA CallCounts ==
  ASSUME Accounted, NEW s, Becomes(store, s), Returns(s), NEW e, NEW d, Moves(store, s, e, d),
         \/ UNCHANGED held /\ d = 0
         \/ /\ Refers(s, e) /\ d \in {1, -1} /\ HeldBy(held, e) + d \in Nat
            /\ Holds(KindOf(e), e.v, d)
  PROVE  Accounted'
<1>1. StoreSound /\ Sound(store) /\ HeldSound(store, held) /\ Exact(store, held)
      /\ LeaksSound(store)
  BY DEF Accounted, StoreSound
<1>2. UNCHANGED held \/ \E e1, d1 : /\ Refers(s, e1) /\ d1 \in {1, -1}
                                    /\ HeldBy(held, e1) + d1 \in Nat
                                    /\ Holds(KindOf(e1), e1.v, d1)
  OBVIOUS
<1>3. StoreSound'
  BY <1>1, <1>2, CallReturns
<1>4. /\ store' = s /\ ~store.crashed /\ Sound(s) /\ Within(s)
      /\ SpaceCount(s) \in Nat /\ FormatCount(s) \in Nat
  BY ShapeIs DEF Returns, Within, Becomes, Sound, SpaceCount, FormatCount
<1>5. HeldSound(s, held)
  BY <1>1, HeldStays
<1>6. ASSUME ~s.crashed, NEW x, Refers(s, x) 
      PROVE  Bal(s, x) = HeldBy(held', x) + Uses(s.leaks, x)
  <2> DEFINE w == Uses(s.leaks, x)
  <2>0. w = Uses(store.leaks, x) /\ w \in Nat
    BY <1>1, UsesAre DEF Moves
  <2>1. Bal(store, x) = HeldBy(held, x) + w /\ HeldBy(held, x) \in Int
    <3>1. /\ Bal(store, x) = HeldBy(held, x) + Uses(store.leaks, x)
          /\ HeldBy(held, x) \in Int
      BY <1>4, <1>6, BalanceOf
    <3> QED BY <2>0, <3>1
  <2> HIDE DEF w
  <2>2. Bal(s, x) = Bal(store, x) + More(x, e, d)
    BY <1>6 DEF Moves
  <2>3. Bal(store, x) \in Int
    BY <1>1, BalIs
  <2>4. CASE UNCHANGED held /\ d = 0
    <3>1. Bal(s, x) = HeldBy(held', x) + w
      BY <2>1, <2>2, <2>3, <2>4 DEF More
    <3> QED BY <3>1 DEF w
  <2>5. CASE Refers(s, e) /\ d \in {1, -1} /\ Holds(KindOf(e), e.v, d)
    <3>1. held' = [held EXCEPT ![KindOf(e)][e.v] = @ + d]
      BY <2>5 DEF Holds
    <3> DEFINE k == held'
    <3>2. k = HeldAfter(held, e, d)
      BY <3>1 DEF HeldAfter
    <3> HIDE DEF k
    <3>3. HeldBy(k, x) = IF x = e THEN HeldBy(held, x) + d ELSE HeldBy(held, x)
      <4>1. d \in Int /\ Refers(s, e) /\ Refers(s, x)
        BY <1>6, <2>5
      <4>2. \A y : Refers(s, y) => HeldBy(k, y) = IF y = e THEN HeldBy(held, y) + d ELSE HeldBy(held, y)
        BY <1>4, <1>5, <3>2, <4>1, HeldFollows
      <4> QED BY <4>1, <4>2
    <3>4. Bal(s, x) = HeldBy(k, x) + w
      BY <2>0, <2>1, <2>2, <2>3, <2>5, <3>3 DEF More
    <3> QED BY <3>4 DEF k, w
  <2> QED BY <2>4, <2>5
<1>7. LeaksSound(s)
  <2>1. s.leaks = store.leaks
    BY DEF Moves
  <2>2. \A x : Refers(store, x) => Refers(s, x)
    <3>1. SpaceCount(store) <= SpaceCount(s) /\ FormatCount(store) <= FormatCount(s)
          /\ SpaceCount(store) \in Nat /\ FormatCount(store) \in Nat
      BY <1>1, ShapeIs DEF Becomes, Evolves, Sound
    <3> QED BY <1>4, <3>1 DEF Refers
  <2> QED BY <1>1, <2>1, <2>2 DEF LeaksSound
<1>8. Exact(s, held')
  BY <1>6 DEF Exact
<1> QED BY <1>3, <1>4, <1>7, <1>8 DEF Accounted

LEMMA SettlesMoves ==
  ASSUME NEW s, NEW u, NEW e, NEW d, Settles(s, u, e, d)
  PROVE  Moves(s, u, e, d)
BY DEF Settles, Moves

(* What the caller holds, in the heap that the invariant describes.        *)
LEMMA AccountedIs ==
  ASSUME Accounted
  PROVE  /\ StoreSound /\ Sound(store) /\ HeldSound(store, held) /\ Within(store)
         /\ SpaceCount(store) \in Nat /\ FormatCount(store) \in Nat
         /\ \A x : Refers(store, x) => HeldBy(held, x) \in Nat
         /\ ~store.crashed =>
              \A x : Refers(store, x) => /\ Bal(store, x) = HeldBy(held, x) + Uses(store.leaks, x)
                                         /\ Bal(store, x) >= HeldBy(held, x)
         /\ \A x : Uses(store.leaks, x) \in Nat /\ Bal(store, x) \in Int
         /\ Solvent(store)
<1>1. /\ StoreSound /\ Sound(store) /\ HeldSound(store, held) /\ Within(store)
      /\ SpaceCount(store) \in Nat /\ FormatCount(store) \in Nat
  BY ShapeIs DEF Accounted, StoreSound, Sound
<1>2. /\ 1 .. SpaceCount(store) \subseteq NsIds
      /\ 1 .. FormatCount(store) \subseteq FmtIds
  BY <1>1, CallerAssumption DEF NsIds, FmtIds, Within
<1>3. ASSUME NEW x, Refers(store, x) PROVE HeldBy(held, x) \in Nat
  <2>1. held.ns \in [NsIds -> Nat] /\ held.fmt \in [FmtIds -> Nat]
    BY <1>1 DEF HeldSound
  <2>2. CASE x.type = "FORMAT"
    <3>1. x.v \in FmtIds
      BY <1>2, <1>3, <2>2, ObjectIs
    <3> QED BY <2>1, <2>2, <3>1 DEF HeldBy
  <2>3. CASE x.type # "FORMAT"
    <3>1. x.v \in NsIds
      BY <1>2, <1>3, <2>3, ObjectIs
    <3> QED BY <2>1, <2>3, <3>1 DEF HeldBy
  <2> QED BY <2>2, <2>3
<1>6. \A x : Uses(store.leaks, x) \in Nat /\ Bal(store, x) \in Int
  BY <1>1, UsesAre, BalIs DEF Accounted
<1>4. ~store.crashed =>
        \A x : Refers(store, x) => /\ Bal(store, x) = HeldBy(held, x) + Uses(store.leaks, x)
                                   /\ Bal(store, x) >= HeldBy(held, x)
  <2>1. ~store.crashed =>
          \A x : Refers(store, x) => Bal(store, x) = HeldBy(held, x) + Uses(store.leaks, x)
    BY DEF Accounted, Exact
  <2> QED BY <1>3, <1>6, <2>1
<1>5. Solvent(store)
  <2> SUFFICES ASSUME ~store.crashed, NEW x PROVE Bal(store, x) >= 0
    BY DEF Solvent
  <2>1. CASE Refers(store, x)
    BY <1>3, <1>4, <1>6, <2>1
  <2>2. CASE ~Refers(store, x)
    BY <2>2 DEF Bal
  <2> QED BY <2>1, <2>2
<1> QED BY <1>1, <1>3, <1>4, <1>5, <1>6

LEMMA NewGlobalCounts ==
  ASSUME Accounted, namespace_new_global
  PROVE  Accounted'
<1> DEFINE s == NewGlobal(store)
           n == SpaceCount(store) + 1
           e == Entry("SUBNAMESPACE", n)
<1>1. Sound(store) /\ Solvent(store) /\ HeldSound(store, held) /\ SpaceCount(store) \in Nat
  BY AccountedIs
<1>2. Becomes(store, s) /\ SpaceCount(s) = n /\ Returns(s)
  BY <1>1, NewGlobalKeeps DEF namespace_new_global
<1>3. Settles(store, s, e, 1)
  BY <1>1, NewGlobalSettles
<1>4. n \in NsIds /\ held.ns[n] + 1 \in Nat /\ n \in 1 .. SpaceCount(s)
  BY <1>1, <1>2, CallerAssumption DEF Returns, SpaceCount, HeldSound, NsIds
<1>5. Holds("ns", n, 1)
  BY DEF namespace_new_global, SpaceCount
<1>6. e.v = n /\ Refers(s, e) /\ KindOf(e) = "ns" /\ HeldBy(held, e) + 1 \in Nat
  <2> HIDE DEF n, s
  <2> QED BY <1>4, EntryIs, NumbersAre
<1>7. Holds(KindOf(e), e.v, 1)
  BY <1>5, <1>6
<1> HIDE DEF e, n, s
<1>8. Moves(store, s, e, 1)
  BY <1>3, SettlesMoves
<1> QED BY <1>2, <1>6, <1>7, <1>8, CallCounts

LEMMA GlobalCounts ==
  ASSUME Accounted, namespace_global
  PROVE  Accounted'
<1> DEFINE r == NewGlobal(store)
           n == SpaceCount(store) + 1
           s == [r EXCEPT !.global = n]
           e == Entry("SUBNAMESPACE", n)
<1>1. Sound(store) /\ Solvent(store) /\ SpaceCount(store) \in Nat
  BY AccountedIs
<1>2. Becomes(store, r) /\ n \in 1 .. SpaceCount(r) /\ SpaceCount(r) = n
  BY <1>1, NewGlobalKeeps
<1>3. Settles(store, r, e, 1)
  BY <1>1, NewGlobalSettles
<1>4. Returns(s) /\ UNCHANGED held /\ store.global = NULL
  BY DEF namespace_global, SpaceCount
<1>5. s = [r EXCEPT !.global = n]
  OBVIOUS
<1>6. e.type # "FORMAT" /\ e.v = n /\ n # NULL /\ e = Entry("SUBNAMESPACE", n)
  BY <1>1, NumbersAre
<1> HIDE DEF r, s, n, e
<1>7. /\ Becomes(store, s) /\ s.ns = r.ns /\ s.fmt = r.fmt /\ s.crashed = r.crashed
      /\ s.leaks = r.leaks /\ s.global = n /\ Sound(r) /\ Sound(s)
  BY <1>1, <1>2, <1>5, GlobalSets DEF Becomes
<1>8. /\ SpaceCount(s) = SpaceCount(r) /\ FormatCount(s) = FormatCount(r)
      /\ \A E : ListedIn(s, E) = ListedIn(r, E) /\ MembersIn(s, E) = MembersIn(r, E)
      /\ \A x : Object(s, x) = Object(r, x)
  <2>1. SpaceCount(s) = SpaceCount(r) /\ FormatCount(s) = FormatCount(r)
    BY <1>7 DEF SpaceCount, FormatCount
  <2>2. \A E : ListedIn(s, E) = ListedIn(r, E) /\ MembersIn(s, E) = MembersIn(r, E)
    BY <1>7, ListedChange
  <2>3. \A x : Object(s, x) = Object(r, x)
    BY <1>7 DEF Object, KindOf
  <2> QED BY <2>1, <2>2, <2>3
<1>9. \A x : Refers(s, x) <=> Refers(r, x)
  BY <1>8 DEF Refers
<1>10. Refers(r, e)
  BY <1>2, <1>6 DEF Refers
<1>11. ASSUME ~s.crashed, NEW x PROVE Bal(s, x) = Bal(store, x) + More(x, e, 0)
  <2>1. Bal(r, x) = Bal(store, x) + More(x, e, 1) /\ r.global = NULL
    BY <1>3, <1>4, <1>7, <1>11 DEF Settles
  <2>2. Bal(s, x) + More(x, e, 1) = Bal(r, x)
    <3>1. CASE ~Refers(r, x)
      BY <1>9, <1>10, <3>1 DEF Bal, More
    <3>2. CASE Refers(r, x)
      <4>1. Owed(s, x) = Owed(r, x) + More(x, e, 1)
        <5>1. CASE x.type = "FORMAT"
          <6>1. Owed(s, x) = Owed(r, x) /\ Owed(r, x) \in Nat
            BY <1>7, <1>8, <5>1, BalIs DEF Owed
          <6> QED BY <1>6, <5>1, <6>1 DEF More
        <5>2. CASE x.type # "FORMAT"
          <6>1. Owed(s, x) = ListedIn(r, {x}) + (IF n = x.v THEN 1 ELSE 0)
            BY <1>7, <1>8, <5>2 DEF Owed
          <6>2. Owed(r, x) = ListedIn(r, {x}) + (IF NULL = x.v THEN 1 ELSE 0)
            BY <2>1, <5>2 DEF Owed
          <6>3. x = Entry("SUBNAMESPACE", x.v) /\ x.v # NULL /\ ListedIn(r, {x}) \in Nat
            BY <1>7, <3>2, <5>2, ObjectIs, NumbersAre, CountsAre
          <6>4. x = e <=> x.v = n
            BY <1>6, <6>3
          <6> QED BY <6>1, <6>2, <6>3, <6>4 DEF More
        <5> QED BY <5>1, <5>2
      <4>2. /\ Bal(s, x) = Due(x, Object(r, x)) - Owed(s, x)
            /\ Bal(r, x) = Due(x, Object(r, x)) - Owed(r, x)
            /\ Due(x, Object(r, x)) \in Int /\ Owed(s, x) \in Nat /\ Owed(r, x) \in Nat
        BY <1>7, <1>8, <1>9, <3>2, BalIs
      <4>3. More(x, e, 1) \in Int
        BY DEF More
      <4> QED BY <4>1, <4>2, <4>3
    <3> QED BY <3>1, <3>2
  <2>3. Bal(s, x) \in Int /\ Bal(store, x) \in Int
    BY <1>1, <1>7, BalIs
  <2> QED BY <2>1, <2>2, <2>3 DEF More
<1>12. s.leaks = store.leaks
  BY <1>3, <1>7 DEF Settles
<1>13. Moves(store, s, e, 0)
  BY <1>11, <1>12 DEF Moves
<1> QED BY <1>4, <1>7, <1>13, CallCounts

LEMMA NamespaceCounts ==
  ASSUME Accounted
  PROVE  /\ \A n \in Spaces : namespace_ref(n) => Accounted'
         /\ \A n \in NsIds : namespace_unref(n) => Accounted'
<1>1. /\ StoreSound /\ Sound(store) /\ HeldSound(store, held) /\ SpaceCount(store) \in Nat
      /\ ~store.crashed => \A x : Refers(store, x) => Bal(store, x) >= HeldBy(held, x)
      /\ \A x : Refers(store, x) => HeldBy(held, x) \in Nat
  BY AccountedIs
<1>2. \A s : Becomes(store, s) => 1 .. SpaceCount(store) \subseteq 1 .. SpaceCount(s)
  BY <1>1, ShapeIs DEF Becomes, Evolves, Sound
<1>3. ASSUME NEW n \in Spaces, namespace_ref(n) PROVE Accounted'
  <2> DEFINE s == NamespaceRef(store, n)
             e == Entry("SUBNAMESPACE", n)
  <2>1. n \in 1 .. SpaceCount(store) /\ n \in NsIds
    BY <1>1, PassedAre DEF IsLive
  <2>2. Becomes(store, s)
    BY <1>1, <2>1, NamespaceRefKeeps
  <2>3. Returns(s) /\ Holds("ns", n, 1)
    BY <1>3 DEF namespace_ref
  <2>4. n \in 1 .. SpaceCount(s) /\ held.ns[n] + 1 \in Nat
    BY <1>1, <1>2, <2>1, <2>2 DEF HeldSound
  <2>5. Settles(store, s, e, 1)
    BY <1>1, <2>1, NamespaceRefSettles
  <2>6. e.v = n /\ Refers(s, e) /\ KindOf(e) = "ns" /\ HeldBy(held, e) + 1 \in Nat
    BY <2>4, EntryIs, NumbersAre
  <2> HIDE DEF e, s
  <2>7. Holds(KindOf(e), e.v, 1) /\ Moves(store, s, e, 1)
    BY <2>3, <2>5, <2>6, SettlesMoves
  <2> QED BY <2>2, <2>3, <2>6, <2>7, CallCounts
<1>4. ASSUME NEW n \in NsIds, namespace_unref(n) PROVE Accounted'
  <2> DEFINE s == NamespaceUnref(store, n)
             e == Entry("SUBNAMESPACE", n)
  <2>1. n \in 1 .. SpaceCount(store) /\ held.ns[n] > 0 /\ held.ns[n] \in Nat
    BY <1>1, <1>4 DEF HeldSound, namespace_unref
  <2>2. Refers(store, e) /\ s = GiveBack(store, e) /\ e.v = n /\ KindOf(e) = "ns"
        /\ HeldBy(held, e) = held.ns[n]
    BY <2>1, EntryIs, NumbersAre DEF NamespaceUnref
  <2>3. Returns(s) /\ Holds("ns", n, -1)
    BY <1>4 DEF namespace_unref
  <2> HIDE DEF e, s
  <2>4. Becomes(store, s)
    BY <1>1, <2>2, GiveBackKeeps
  <2>5. ~store.crashed => \A x : Refers(store, x) => Bal(store, x) >= More(x, e, 1)
    <3>1. \A x : Bal(store, x) \in Int
      BY <1>1, BalIs
    <3> QED BY <1>1, <2>1, <2>2, <3>1 DEF More
  <2>6. Settles(store, s, e, -1)
    BY <1>1, <2>2, <2>5, GiveBackSettles
  <2>7. Refers(s, e) /\ HeldBy(held, e) + (-1) \in Nat /\ Holds(KindOf(e), e.v, -1)
    <3>1. n \in 1 .. SpaceCount(s)
      BY <1>2, <2>1, <2>4
    <3> QED BY <2>1, <2>2, <2>3, <3>1, EntryIs DEF e
  <2>8. Moves(store, s, e, -1)
    BY <2>6, SettlesMoves
  <2> QED BY <2>3, <2>4, <2>7, <2>8, CallCounts
<1> QED BY <1>3, <1>4

LEMMA FormatCounts ==
  ASSUME Accounted
  PROVE  /\ \A f \in Formats : format_ref(f) => Accounted'
         /\ \A f \in FmtIds : format_unref(f) => Accounted'
         /\ \A f \in Formats, junk \in BOOLEAN : format_array_of(f, junk) => Accounted'
<1>1. /\ StoreSound /\ Sound(store) /\ HeldSound(store, held) /\ FormatCount(store) \in Nat
      /\ ~store.crashed => \A x : Refers(store, x) => Bal(store, x) >= HeldBy(held, x)
      /\ \A x : Refers(store, x) => HeldBy(held, x) \in Nat
  BY AccountedIs
<1>2. \A s : Becomes(store, s) => 1 .. FormatCount(store) \subseteq 1 .. FormatCount(s)
  BY <1>1, ShapeIs DEF Becomes, Evolves, Sound
<1>3. ASSUME NEW f \in Formats, format_ref(f) PROVE Accounted'
  <2> DEFINE s == FormatRef(store, f)
             e == Entry("FORMAT", f)
  <2>1. f \in 1 .. FormatCount(store) /\ f \in FmtIds
    BY <1>1, PassedAre
  <2>2. Becomes(store, s)
    BY <1>1, <2>1, FormatRefKeeps
  <2>3. Returns(s) /\ Holds("fmt", f, 1)
    BY <1>3 DEF format_ref
  <2>4. f \in 1 .. FormatCount(s) /\ held.fmt[f] + 1 \in Nat
    BY <1>1, <1>2, <2>1, <2>2 DEF HeldSound
  <2>5. Settles(store, s, e, 1)
    BY <1>1, <2>1, FormatRefSettles
  <2>6. e.v = f /\ Refers(s, e) /\ KindOf(e) = "fmt" /\ HeldBy(held, e) + 1 \in Nat
    BY <2>4, EntryIs, NumbersAre
  <2> HIDE DEF e, s
  <2>7. Holds(KindOf(e), e.v, 1) /\ Moves(store, s, e, 1)
    BY <2>3, <2>5, <2>6, SettlesMoves
  <2> QED BY <2>2, <2>3, <2>6, <2>7, CallCounts
<1>4. ASSUME NEW f \in FmtIds, format_unref(f) PROVE Accounted'
  <2> DEFINE s == FormatUnref(store, f)
             e == Entry("FORMAT", f)
  <2>1. f \in 1 .. FormatCount(store) /\ held.fmt[f] > 0 /\ held.fmt[f] \in Nat
    BY <1>1, <1>4 DEF HeldSound, format_unref
  <2>2. Refers(store, e) /\ s = GiveBack(store, e) /\ e.v = f /\ KindOf(e) = "fmt"
        /\ HeldBy(held, e) = held.fmt[f]
    BY <2>1, EntryIs, NumbersAre DEF FormatUnref
  <2>3. Returns(s) /\ Holds("fmt", f, -1)
    BY <1>4 DEF format_unref
  <2> HIDE DEF e, s
  <2>4. Becomes(store, s)
    BY <1>1, <2>2, GiveBackKeeps
  <2>5. ~store.crashed => \A x : Refers(store, x) => Bal(store, x) >= More(x, e, 1)
    <3>1. \A x : Bal(store, x) \in Int
      BY <1>1, BalIs
    <3> QED BY <1>1, <2>1, <2>2, <3>1 DEF More
  <2>6. Settles(store, s, e, -1)
    BY <1>1, <2>2, <2>5, GiveBackSettles
  <2>7. Refers(s, e) /\ HeldBy(held, e) + (-1) \in Nat /\ Holds(KindOf(e), e.v, -1)
    <3>1. f \in 1 .. FormatCount(s)
      BY <1>2, <2>1, <2>4
    <3> QED BY <2>1, <2>2, <2>3, <3>1, EntryIs DEF e
  <2>8. Moves(store, s, e, -1)
    BY <2>6, SettlesMoves
  <2> QED BY <2>3, <2>4, <2>7, <2>8, CallCounts
<1>5. ASSUME NEW f \in Formats, NEW junk \in BOOLEAN, format_array_of(f, junk)
      PROVE  Accounted'
  <2> DEFINE s == ArrayOf(store, f, junk)
  <2>1. f \in 1 .. FormatCount(store)
    BY <1>1, PassedAre
  <2>2. Becomes(store, s)
    BY <1>1, <2>1, ArrayOfMakes
  <2>3. Returns(s) /\ UNCHANGED held
    BY <1>5 DEF format_array_of
  <2>4. Settles(store, s, NULL, 0)
    BY <1>1, <2>1, ArraySettles
  <2> HIDE DEF s
  <2>5. Moves(store, s, NULL, 0)
    BY <2>4, SettlesMoves
  <2> QED BY <2>2, <2>3, <2>5, CallCounts
<1> QED BY <1>3, <1>4, <1>5

LEMMA FormatMadeCounts ==
  ASSUME Accounted, NEW type, type # "ARRAY",
         NEW members \in BoundedSeq(Formats \cup {NULL}, MaxMembers),
         format_new(type, members)
  PROVE  Accounted'
<1> DEFINE s == NewFormat(store, type, members)
           f == FormatCount(store) + 1
           e == Entry("FORMAT", f)
<1>1. StoreSound /\ Sound(store) /\ HeldSound(store, held) /\ FormatCount(store) \in Nat
  BY AccountedIs
<1>2. MayHave(store, members)
  BY <1>1, MembersArePassed
<1>3. FormatMade(store, s, type, members) /\ Returns(s)
  BY <1>1, <1>2, NewFormatMakes DEF format_new
<1>4. Becomes(store, s) /\ FormatCount(s) = f
  BY <1>3 DEF FormatMade
<1>5. Settles(store, s, e, 1)
  <2>1. Settles(store, s, Entry("FORMAT", FormatCount(s)), IF type = "ARRAY" THEN 0 ELSE 1)
    <3> HIDE DEF s
    <3> QED BY <1>1, <1>2, <1>3, FormatMadeSettles
  <2> QED BY <1>4, <2>1
<1>6. f \in FmtIds /\ held.fmt[f] + 1 \in Nat /\ f \in 1 .. FormatCount(s)
  BY <1>1, <1>3, <1>4, CallerAssumption DEF Returns, FormatCount, HeldSound, FmtIds
<1>7. Holds("fmt", f, 1)
  BY DEF format_new, FormatCount
<1>8. e.v = f /\ Refers(s, e) /\ KindOf(e) = "fmt" /\ HeldBy(held, e) + 1 \in Nat
  <2> HIDE DEF f, s
  <2> QED BY <1>6, EntryIs, NumbersAre
<1>9. Holds(KindOf(e), e.v, 1)
  BY <1>7, <1>8
<1> HIDE DEF e, f, s
<1>10. Moves(store, s, e, 1)
  BY <1>5, SettlesMoves
<1> QED BY <1>3, <1>4, <1>8, <1>9, <1>10, CallCounts

LEMMA BindingCounts ==
  ASSUME Accounted, NEW n \in Spaces
  PROVE  /\ \A name \in CallerNames, subns \in Spaces :
              add_subnamespace(n, name, subns) => Accounted'
         /\ \A name \in CallerNames, f \in Formats : add_format(n, name, f) => Accounted'
         /\ \A path \in Paths : force_subnamespace(n, path) => Accounted'
<1>1. StoreSound /\ Sound(store) /\ IsLive(store, n)
  BY AccountedIs, PassedAre
<1>2. ASSUME NEW name \in CallerNames, NEW subns \in Spaces, add_subnamespace(n, name, subns)
      PROVE  Accounted'
  <2> DEFINE s == AddSubnamespace(store, n, name, subns)
  <2>1. name \in Names /\ subns \in 1 .. SpaceCount(store)
    BY <1>1, PassedAre, CallerAssumption DEF IsLive
  <2>2. Becomes(store, s) /\ (s = store \/ SpaceBound(store, s, n, name, subns))
    BY <1>1, <2>1, AddSubnamespaceBinds
  <2>3. Returns(s) /\ UNCHANGED held
    BY <1>2 DEF add_subnamespace
  <2> HIDE DEF s
  <2>4. Settles(store, s, NULL, 0)
    <3>1. CASE s = store
      BY <1>1, <3>1, SettlesTwice
    <3>2. CASE SpaceBound(store, s, n, name, subns)
      BY <1>1, <2>1, <3>2, SpaceBoundSettles
    <3> QED BY <2>2, <3>1, <3>2
  <2>5. Moves(store, s, NULL, 0)
    BY <2>4, SettlesMoves
  <2> QED BY <2>2, <2>3, <2>5, CallCounts
<1>3. ASSUME NEW name \in CallerNames, NEW f \in Formats, add_format(n, name, f)
      PROVE  Accounted'
  <2> DEFINE first == store.fmt[f].canonical_name = NULL
             s == AddFormat(store, n, name, f, first)
  <2>1. name \in Names /\ f \in 1 .. FormatCount(store)
    BY <1>1, PassedAre, CallerAssumption
  <2>2. Returns(s) /\ UNCHANGED held
    BY <1>3 DEF add_format
  <2> HIDE DEF first
  <2>3. Becomes(store, s) /\ (s = store \/ FormatBound(store, s, n, name, f))
    BY <1>1, <2>1, AddFormatBinds
  <2> HIDE DEF s
  <2>4. Settles(store, s, NULL, 0)
    <3>1. CASE s = store
      BY <1>1, <3>1, SettlesTwice
    <3>2. CASE FormatBound(store, s, n, name, f)
      BY <1>1, <2>1, <3>2, FormatBoundSettles
    <3> QED BY <2>3, <3>1, <3>2
  <2>5. Moves(store, s, NULL, 0)
    BY <2>4, SettlesMoves
  <2> QED BY <2>2, <2>3, <2>5, CallCounts
<1>4. ASSUME NEW path \in Paths, force_subnamespace(n, path)
      PROVE  Accounted'
  <2> DEFINE s == ForceSubnamespace(store, n, path).s
  <2>1. path \in Seq(Names)
    BY CallerAssumption
  <2>2. Becomes(store, s)
    BY <1>1, <2>1, ForceKeeps
  <2>3. Returns(s) /\ UNCHANGED held
    BY <1>4 DEF force_subnamespace
  <2>4. Settles(store, s, NULL, 0)
    BY <1>1, <2>1, ForceSettles
  <2> HIDE DEF s
  <2>5. Moves(store, s, NULL, 0)
    BY <2>4, SettlesMoves
  <2> QED BY <2>2, <2>3, <2>5, CallCounts
<1> QED BY <1>2, <1>3, <1>4

LEMMA CallsCount ==
  ASSUME Accounted, CallerNext
  PROVE  Accounted'
<1>1. ASSUME NEW type \in Kinds, NEW members \in BoundedSeq(Formats \cup {NULL}, MaxMembers),
             format_new(type, members)
      PROVE  Accounted'
  BY <1>1, FormatMadeCounts, CallerAssumption
<1> QED BY <1>1, NewGlobalCounts, GlobalCounts, NamespaceCounts, FormatCounts, BindingCounts
        DEF CallerNext

LEMMA InitIsCounted ==
  ASSUME InitNamespaces
  PROVE  Accounted
<1>1. StoreSound
  BY InitIsSound
<1>2. store.ns = <<>> /\ store.fmt = <<>> /\ store.leaks = <<>> /\ Len(<<>>) = 0
  BY DEF InitNamespaces, InitStore
<1>3. SpaceCount(store) = 0 /\ FormatCount(store) = 0 /\ 1 .. 0 = {}
  BY <1>2 DEF SpaceCount, FormatCount
<1>4. \A x : ~Refers(store, x)
  BY <1>3 DEF Refers
<1>5. LeaksSound(store)
  <2>1. IsList(<<>>) /\ Len(<<>>) = 0
    BY EmptySeq, ListOfSeq
  <2> QED BY <1>2, <2>1 DEF LeaksSound
<1> QED BY <1>1, <1>4, <1>5 DEF Accounted, Exact

(* What is carried along: the heap is sound, and what a count has besides  *)
(* entries, members and the static variable is what the caller holds and   *)
(* what has leaked.                                                        *)
LEMMA StaysAccounted == Namespaces => []Accounted
<1>1. InitNamespaces => Accounted
  BY InitIsCounted
<1>2. Accounted /\ [CallerNext]_<<store, held>> => Accounted'
  <2> SUFFICES ASSUME Accounted, [CallerNext]_<<store, held>> PROVE Accounted'
    OBVIOUS
  <2>1. CASE CallerNext
    BY <2>1, CallsCount
  <2>2. CASE UNCHANGED <<store, held>>
    BY <2>2 DEF Accounted, StoreSound
  <2> QED BY <2>1, <2>2
<1> QED BY <1>1, <1>2, PTL DEF Namespaces

LEMMA AccountedExact ==
  ASSUME Accounted
  PROVE  RefCountsExact
<1> SUFFICES ASSUME Accounted, ~store.crashed
             PROVE  /\ \A n \in DOMAIN store.ns :
                         store.ns[n].ref_count = held.ns[n] + OwnersOfSpace(store, n)
                    /\ \A f \in DOMAIN store.fmt :
                         store.fmt[f].ref_count = held.fmt[f] + OwnersOfFormat(store, f)
  BY DEF RefCountsExact
<1>1. /\ Sound(store) /\ \A x : Uses(store.leaks, x) \in Nat
      /\ \A x : Refers(store, x) => Bal(store, x) = HeldBy(held, x) + Uses(store.leaks, x)
      /\ \A x : Refers(store, x) => HeldBy(held, x) \in Nat
  BY AccountedIs DEF Accounted
<1>2. DOMAIN store.ns = 1 .. SpaceCount(store) /\ DOMAIN store.fmt = 1 .. FormatCount(store)
  BY <1>1, ShapeIs DEF Sound
<1>4. ASSUME NEW n \in 1 .. SpaceCount(store)
      PROVE  store.ns[n].ref_count = held.ns[n] + OwnersOfSpace(store, n)
  <2> DEFINE e == Entry("SUBNAMESPACE", n)
             k == IF store.global = n THEN 1 ELSE 0
             w == Uses(store.leaks, e)
  <2>1. Refers(store, e) /\ e.v = n /\ e.type # "FORMAT" /\ HeldBy(held, e) = held.ns[n]
        /\ Object(store, e) = store.ns[n]
    BY EntryIs, NumbersAre, ObjectIs
  <2>2. OwnersOfSpace(store, n) = ListedIn(store, {e}) + w + k
    BY <1>1, CountsAre DEF OwnersOfSpace
  <2>3. k \in Nat /\ w \in Nat /\ ListedIn(store, {e}) \in Nat
    BY <1>1, CountsAre
  <2>4. Owed(store, e) = ListedIn(store, {e}) + k
    BY <2>1 DEF Owed
  <2> HIDE DEF e, k, w
  <2>5. /\ Bal(store, e) = Due(e, Object(store, e)) - Owed(store, e)
        /\ Due(e, Object(store, e)) = store.ns[n].ref_count
        /\ Due(e, Object(store, e)) \in Int
    BY <1>1, <2>1, BalIs DEF Due
  <2>6. Bal(store, e) = held.ns[n] + w /\ held.ns[n] \in Nat
    BY <1>1, <2>1 DEF w
  <2> QED BY <2>2, <2>3, <2>4, <2>5, <2>6
<1>5. ASSUME NEW f \in 1 .. FormatCount(store)
      PROVE  store.fmt[f].ref_count = held.fmt[f] + OwnersOfFormat(store, f)
  <2> DEFINE e == Entry("FORMAT", f)
             k == IF Alive(store.fmt[f]) /\ store.fmt[f].type = "ARRAY" THEN 1 ELSE 0
             w == Uses(store.leaks, e)
  <2>1. Refers(store, e) /\ e.v = f /\ e.type = "FORMAT" /\ HeldBy(held, e) = held.fmt[f]
        /\ Object(store, e) = store.fmt[f]
    BY EntryIs, NumbersAre, ObjectIs
  <2>2. OwnersOfFormat(store, f) = ListedIn(store, {e}) + w + MembersIn(store, {f}) + k
    BY <1>1, CountsAre DEF OwnersOfFormat
  <2>3. k \in Nat /\ w \in Nat /\ ListedIn(store, {e}) \in Nat /\ MembersIn(store, {f}) \in Nat
    BY <1>1, CountsAre
  <2>4. Owed(store, e) = ListedIn(store, {e}) + MembersIn(store, {f})
    BY <2>1 DEF Owed
  <2>5. OwnUse(store.fmt[f]) = k
    BY DEF OwnUse
  <2> HIDE DEF e, k, w
  <2>6. /\ Bal(store, e) = Due(e, Object(store, e)) - Owed(store, e)
        /\ Due(e, Object(store, e)) = store.fmt[f].ref_count - k
        /\ store.fmt[f].ref_count \in Nat
    BY <1>1, <2>1, <2>5, BalIs DEF Due
  <2>7. Bal(store, e) = held.fmt[f] + w /\ held.fmt[f] \in Nat
    BY <1>1, <2>1 DEF w
  <2> QED BY <2>2, <2>3, <2>4, <2>6, <2>7
<1> QED BY <1>2, <1>4, <1>5

(* Reference counts are exact: in every run of calls of a caller that      *)
(* keeps to the rules, the count of every namespace and of every format is *)
(* the number of references to it that the code counts, so none is freed   *)
(* while there is one and none is left when there is none                  *)
(* (bulp-namespace.c, bulp-format.c and the constructors and destructors   *)
(* of formats).  Of the element of an array nothing is said.               *)
THEOREM RefCountsStayExact == Namespaces => []RefCountsExact
BY AccountedExact, StaysAccounted, PTL

-----------------------------------------------------------------------------
(* What dotted names lead to                                               *)

LEMMA WholeStart ==
  ASSUME NEW q \in Seq(Nat)
  PROVE  SubSeq(q, 1, Len(q)) = q
<1> DEFINE u == SubSeq(q, 1, Len(q))
<1>1. Len(q) \in 0 .. Len(q)
  BY LenProperties
<1>2. u \in Seq(Nat) /\ Len(u) = Len(q) /\ \A i \in 1 .. Len(q) : u[i] = q[i]
  BY <1>1, CutSeq
<1> HIDE DEF u
<1>3. u = q
  BY <1>2, SeqEqual
<1> QED BY <1>3 DEF u

(* query_1_len takes no other name for the one it looks for, and strays    *)
(* from strcmp only at the names that go on after it.                      *)
LEMMA CmpLenIs ==
  ASSUME NEW x \in Names, NEW y \in Names
  PROVE  /\ CmpLen[x][y] = 0 => x = y
         /\ y \notin Longer(x) => CmpLen[x][y] = Cmp[x][y]
<1> DEFINE a == Spelling[x]
           b == Spelling[y]
           start == SubSeq(b, 1, Len(a))
           short == IF Len(b) < Len(a) THEN b ELSE start
           n == StrCmp(a, short)
<1>1. a \in Seq(Nat) /\ b \in Seq(Nat) /\ (a = b => x = y)
  BY NamesAssumption
<1>2. /\ Cmp[x][y] = StrCmp(a, b)
      /\ CmpLen[x][y] = IF n = 0 /\ Len(b) > Len(a) THEN 1 ELSE n
  BY DEF Cmp, CmpLen
<1>3. y \in Longer(x) <=> IsStrictPrefix(a, b)
  BY DEF Longer
<1> HIDE DEF a, b
<1>4. Len(a) \in Nat /\ Len(b) \in Nat
  BY <1>1, LenProperties
<1>5. CASE Len(b) < Len(a)
  <2>1. n = StrCmp(a, b) /\ CmpLen[x][y] = n
    <3>1. short = b /\ ~(Len(b) > Len(a))
      BY <1>4, <1>5
    <3> QED BY <1>2, <3>1
  <2>2. n = 0 => a = b
    BY <1>1, <2>1, StrCmpIs
  <2> QED BY <1>1, <1>2, <2>1, <2>2
<1>6. CASE ~(Len(b) < Len(a))
  <2>1. /\ start \in Seq(Nat) /\ Len(start) = Len(a)
        /\ \A i \in 1 .. Len(a) : start[i] = b[i]
    <3>1. Len(a) \in 0 .. Len(b)
      BY <1>4, <1>6
    <3> QED BY <1>1, <3>1, CutSeq
  <2>2. n = StrCmp(a, start)
    BY <1>6
  <2>3. start = b <=> Len(a) = Len(b)
    <3>1. Len(a) = Len(b) => start = b
      BY <1>1, <2>1, SeqEqual
    <3> QED BY <2>1, <3>1
  <2>4. n = 0 <=> a = start
    BY <1>1, <2>1, <2>2, StrCmpIs
  <2>5. IsStrictPrefix(a, b) <=> a = start /\ a # b
    <3>1. SubSeq(a, 1, Len(a)) = a
      BY <1>1, WholeStart
    <3>2. Len(a) <= Len(b)
      BY <1>4, <1>6
    <3> QED BY <3>1, <3>2 DEF IsStrictPrefix, IsPrefix
  <2> HIDE DEF start, n, short
  <2>6. CASE a = start
    <3>1. CASE Len(b) > Len(a)
      <4>1. CmpLen[x][y] = 1 /\ a # b
        BY <1>2, <1>4, <2>4, <2>6, <3>1
      <4> QED BY <1>3, <2>5, <2>6, <4>1
    <3>2. CASE ~(Len(b) > Len(a))
      <4>1. Len(a) = Len(b)
        BY <1>4, <1>6, <3>2
      <4>2. a = b
        BY <2>3, <2>6, <4>1
      <4>3. CmpLen[x][y] = 0
        BY <1>2, <2>4, <2>6, <3>2
      <4>4. Cmp[x][y] = 0
        BY <1>1, <1>2, <4>2, StrCmpIs
      <4> QED BY <1>1, <4>2, <4>3, <4>4
    <3> QED BY <3>1, <3>2
  <2>7. CASE a # start
    <3>1. CmpLen[x][y] = n /\ n # 0 /\ a # b
      <4>1. n # 0
        BY <2>4, <2>7
      <4>2. a # b
        BY <2>3, <2>7
      <4> QED BY <1>2, <4>1, <4>2
    <3>2. ~IsStrictPrefix(a, b)
      BY <2>5, <2>7
    <3>3. ~IsStrictPrefix(a, start)
      <4>2. SubSeq(start, 1, Len(a)) = start
        BY <2>1, WholeStart
      <4> SUFFICES ASSUME IsStrictPrefix(a, start) PROVE FALSE
        OBVIOUS
      <4>3. SubSeq(a, 1, Len(a)) = start
        BY <4>2 DEF IsStrictPrefix, IsPrefix
      <4>4. SubSeq(a, 1, Len(a)) = a
        BY <1>1, WholeStart
      <4> QED BY <2>7, <4>3, <4>4
    <3>4. (\E i \in DOMAIN a \cap DOMAIN start :
             a[i] < start[i] /\ SubSeq(a, 1, i - 1) = SubSeq(start, 1, i - 1))
          <=> (\E i \in DOMAIN a \cap DOMAIN b :
                 a[i] < b[i] /\ SubSeq(a, 1, i - 1) = SubSeq(b, 1, i - 1))
      <4>1. /\ DOMAIN a = 1 .. Len(a) /\ DOMAIN b = 1 .. Len(b) /\ DOMAIN start = 1 .. Len(a)
        BY <1>1, <2>1, LenProperties
      <4>2. DOMAIN a \cap DOMAIN start = 1 .. Len(a) /\ DOMAIN a \cap DOMAIN b = 1 .. Len(a)
        BY <1>4, <1>6, <4>1
      <4>3. ASSUME NEW i \in 1 .. Len(a)
            PROVE  SubSeq(start, 1, i - 1) = SubSeq(b, 1, i - 1)
        <5> DEFINE k == i - 1
        <5>1. k \in Nat /\ k <= Len(start) /\ k <= Len(b) /\ 1 .. k \subseteq 1 .. Len(a)
          BY <1>4, <1>6, <2>1
        <5> HIDE DEF k
        <5>2. \A j \in 1 .. k : start[j] = b[j]
          BY <2>1, <5>1
        <5>3. SubSeq(start, 1, k) = SubSeq(b, 1, k)
          BY <1>1, <2>1, <5>1, <5>2, SameStart
        <5> QED BY <5>3 DEF k
      <4> QED BY <2>1, <4>2, <4>3
    <3>5. n = StrCmp(a, b)
      BY <2>2, <2>7, <3>1, <3>2, <3>3, <3>4 DEF StrCmp
    <3> QED BY <1>2, <3>1, <3>5
  <2> QED BY <2>6, <2>7
<1> QED BY <1>5, <1>6

(* Whatever the comparator, a lookup returns a node that compares equal.   *)
LEMMA LookupOnly ==
  ASSUME NEW t, NEW less, Balanced(t, less), NEW order
  PROVE  Lookup(t, order) = NULL \/ Lookup(t, order) \in Equal(t, order)
<1>1. PICK below : Search(t, below, less)
  BY DEF Balanced
<1>2. CASE t.top = NULL
  BY <1>2 DEF Lookup
<1>3. CASE t.top # NULL
  <2> DEFINE last == Descend(t, order)
  <2>1. EndsWell(t, below, order, t.top, last)
    BY <1>1, <1>3, DescentEnds
  <2>2. Lookup(t, order) = IF last.found THEN last.node ELSE NULL
    BY <1>3 DEF Lookup
  <2> HIDE DEF last
  <2>3. last.found => last.node \in Equal(t, order)
    BY <2>1 DEF EndsWell, Equal
  <2> QED BY <2>2, <2>3
<1> QED BY <1>2, <1>3

(* query_1_len finds what the name is bound to, or it finds nothing in a   *)
(* namespace that has a longer name.                                       *)
LongerBound(s, n, name) == \E x \in Longer(name) : Bound(s, n, x)

LEMMA EntryForIs ==
  ASSUME NEW s, Sound(s), NEW n, IsLive(s, n), NEW name \in Names
  PROVE  \/ EntryFor(CmpLen, s, n, name) = EntryFor(Cmp, s, n, name)
         \/ EntryFor(CmpLen, s, n, name) = NULL /\ LongerBound(s, n, name)
<1> DEFINE t == TreeOf(s, n)
           order == AgainstNodes(CmpLen, name, t)
           exact == AgainstNodes(Cmp, name, t)
<1>1. Tidy(t)
  BY LiveIs
<1>2. \A x \in Nodes(t) : /\ NodeName(x) \in Names /\ x = Malloced(NodeName(x))
                          /\ x # NULL
  BY <1>1, HomesAre, NodeIdsAre DEF Tidy
<1>3. /\ \A x \in Nodes(t) : /\ order[x] = CmpLen[name][NodeName(x)]
                             /\ exact[x] = Cmp[name][NodeName(x)]
      /\ order = [x \in Nodes(t) |-> order[x]] /\ exact = [x \in Nodes(t) |-> exact[x]]
  BY DEF AgainstNodes
<1>4. /\ NodeOf(CmpLen, s, n, name) = Lookup(t, order)
      /\ NodeOf(Cmp, s, n, name) = Lookup(t, exact)
      /\ NodeOf(Cmp, s, n, name) = IF HasName(s, n, name) THEN Malloced(name) ELSE NULL
  BY LiveIs DEF NodeOf, TreeOf
<1>5. \A cmp : EntryFor(cmp, s, n, name)
                 = IF NodeOf(cmp, s, n, name) = NULL THEN NULL
                   ELSE t.at[NodeOf(cmp, s, n, name)].entry
  BY DEF EntryFor, TreeOf
<1>6. HasName(s, n, name) <=> Malloced(name) \in Nodes(t)
  BY DEF HasName
<1> HIDE DEF t, order, exact
<1>7. CASE \E x \in Nodes(t) : NodeName(x) \in Longer(name)
  <2>1. PICK x \in Nodes(t) : NodeName(x) \in Longer(name)
    BY <1>7
  <2>2. HasName(s, n, NodeName(x)) /\ NodeName(x) \in Names
    BY <1>2, <2>1 DEF HasName, t
  <2>3. LongerBound(s, n, name)
    BY <2>1, <2>2, LiveIs DEF LongerBound
  <2>4. Lookup(t, order) = NULL \/ Lookup(t, order) \in Equal(t, order)
    BY <1>1, LookupOnly DEF Tidy
  <2>5. CASE Lookup(t, order) = NULL
    BY <1>4, <1>5, <2>3, <2>5
  <2>6. CASE Lookup(t, order) \in Equal(t, order)
    <3> DEFINE y == Lookup(t, order)
    <3>1. y \in Nodes(t) /\ order[y] = 0
      BY <2>6 DEF Equal
    <3> HIDE DEF y
    <3>2. NodeName(y) = name
      BY <1>2, <1>3, <3>1, CmpLenIs
    <3>3. y = Malloced(name)
      BY <1>2, <3>1, <3>2
    <3>4. NodeOf(Cmp, s, n, name) = y /\ NodeOf(CmpLen, s, n, name) = y
      BY <1>4, <1>6, <3>1, <3>3 DEF y
    <3> QED BY <1>5, <3>4
  <2> QED BY <2>4, <2>5, <2>6
<1>8. CASE ~ \E x \in Nodes(t) : NodeName(x) \in Longer(name)
  <2>1. \A x \in Nodes(t) : order[x] = exact[x]
    BY <1>2, <1>3, <1>8, CmpLenIs
  <2>2. order = exact
    BY <1>3, <2>1
  <2>3. NodeOf(CmpLen, s, n, name) = NodeOf(Cmp, s, n, name)
    BY <1>4, <2>2
  <2> QED BY <1>5, <2>3
<1> QED BY <1>7, <1>8

(* The loop along the components of a dotted name.                         *)
Follows(at, cmp, s, n, path, max) ==
  /\ max = Len(path) /\ at[0] = Entry("SUBNAMESPACE", n)
  /\ \A i \in 1 .. max :
       at[i] = IF IsSpace(at[i - 1]) THEN EntryFor(cmp, s, at[i - 1].v, path[i]) ELSE NULL
  /\ Follow(cmp, s, n, path) = at[max]

LEMMA FollowFollows ==
  ASSUME NEW cmp, NEW s, NEW n, NEW path \in Seq(Names)
  PROVE  \E at : Follows(at, cmp, s, n, path, Len(path))
<1> DEFINE max == Len(path)
           b == Entry("SUBNAMESPACE", n)
           at == CHOOSE at : at = [i \in 0 .. max |->
             IF i = 0 THEN b
             ELSE IF IsSpace(at[i - 1]) THEN EntryFor(cmp, s, at[i - 1].v, path[i]) ELSE NULL]
<1>1. Follow(cmp, s, n, path) = at[max]
  BY DEF Follow
<1>2. max \in Nat
  BY LenProperties
<1> HIDE DEF max, b
<1>3. PICK g : Steps(g, "follow", path, n, cmp, s, b, max)
  BY <1>2, StepsExist
<1>4. g = [i \in 0 .. max |->
             IF i = 0 THEN b
             ELSE IF IsSpace(g[i - 1]) THEN EntryFor(cmp, s, g[i - 1].v, path[i]) ELSE NULL]
  BY <1>3 DEF Steps, Step
<1>5. at = [i \in 0 .. max |->
             IF i = 0 THEN b
             ELSE IF IsSpace(at[i - 1]) THEN EntryFor(cmp, s, at[i - 1].v, path[i]) ELSE NULL]
  BY <1>4
<1> HIDE DEF at
<1>6. at[0] = b
  BY <1>2, <1>5
<1>7. ASSUME NEW i \in 1 .. max
      PROVE  at[i] = IF IsSpace(at[i - 1]) THEN EntryFor(cmp, s, at[i - 1].v, path[i]) ELSE NULL
  <2>1. i \in 0 .. max /\ i # 0
    BY <1>2
  <2> QED BY <1>5, <2>1
<1>8. Follows(at, cmp, s, n, path, max)
  BY <1>1, <1>6, <1>7 DEF Follows, max, b
<1> QED BY <1>8 DEF max

(* Counts being exact, the namespace a living one's name is bound to is    *)
(* there.                                                                  *)
LEMMA BoundAlive ==
  ASSUME NEW s, Sound(s), Solvent(s), ~s.crashed, NEW n, IsLive(s, n),
         NEW name \in Names, HasName(s, n, name), NEW m,
         Binding(s, n, name) = Entry("SUBNAMESPACE", m)
  PROVE  IsLive(s, m)
<1> DEFINE e == Entry("SUBNAMESPACE", m)
           x == Malloced(name)
           F == Listings1(s, {e})
           N == SpaceCount(s)
           L == (1 .. N) \ {n}
<1>1. Sound(s) /\ N \in Nat /\ n \in 1 .. N /\ Alive(s.ns[n])
  BY ShapeIs DEF Sound, IsLive
<1>2. Refers(s, e)
  BY <1>1, LiveIs
<1>3. e.type # "FORMAT" /\ e.v = m
  BY NumbersAre
<1>4. m \in 1 .. N
  BY <1>2, <1>3, ObjectIs
<1>5. Object(s, e) = s.ns[m] /\ Due(e, Object(s, e)) = s.ns[m].ref_count
  BY <1>3, ObjectIs
<1>6. x \in Listing(s.ns[n], {e})
  BY <1>1 DEF HasName, Binding, TreeOf, Listing
<1>7. /\ \A v \in 1 .. N : IsFiniteSet(F[v])
      /\ F[n] = Listing(s.ns[n], {e})
  BY <1>1, HeldReferencesFinite
<1>8. ListedIn(s, {e}) = SlotCount(F, N)
  BY DEF ListedIn
<1>9. Owed(s, e) = ListedIn(s, {e}) + IF s.global = m THEN 1 ELSE 0
  BY <1>3 DEF Owed
<1> HIDE DEF e, x, F, N
<1>10. Cardinality(F[n]) # 0
  BY <1>1, <1>6, <1>7, FS_EmptySet
<1> HIDE DEF L
<1>11. /\ SlotCount(F, N) = Cardinality(SlotsIn(F, L)) + Cardinality(F[n])
       /\ Cardinality(SlotsIn(F, L)) \in Nat /\ Cardinality(F[n]) \in Nat
  BY <1>1, <1>7, SlotsSplit DEF L
<1>12. Owed(s, e) > 0
  BY <1>8, <1>9, <1>10, <1>11
<1>13. Bal(s, e) \in Int /\ Bal(s, e) >= 0
  BY <1>1, BalIs DEF Solvent
<1>14. Bal(s, e) = s.ns[m].ref_count - Owed(s, e)
  BY <1>1, <1>2, <1>5, BalIs
<1>15. Owed(s, e) \in Nat /\ s.ns[m].ref_count \in Nat
  <2>1. Owed(s, e) \in Nat /\ Object(s, e).ref_count \in Nat
    BY <1>1, <1>2, BalIs
  <2> QED BY <1>5, <2>1
<1>16. Alive(s.ns[m])
  BY <1>12, <1>13, <1>14, <1>15 DEF Alive
<1> QED BY <1>4, <1>16 DEF IsLive, N

(* What both lookups are at after i components: at the same entry, or the  *)
(* one of bulp_namespace_query is nowhere, because of a longer name.       *)
Astray(s, path) ==
  \E m \in LiveSpaces(s) : \E j \in 1 .. Len(path) : LongerBound(s, m, path[j])
WalkSound(s, walk) ==
  (walk = NULL \/ Refers(s, walk)) /\ (IsSpace(walk) => IsLive(s, walk.v))
Together(s, path, found, walk) ==
  WalkSound(s, walk) /\ (found = walk \/ (found = NULL /\ Astray(s, path)))

LEMMA TogetherStep ==
  ASSUME Accounted, ~store.crashed, NEW path \in Seq(Names), NEW i \in 1 .. Len(path),
         NEW found, NEW walk, Together(store, path, found, walk),
         NEW found1, found1 = IF IsSpace(found) THEN EntryFor(CmpLen, store, found.v, path[i])
                              ELSE NULL,
         NEW walk1, walk1 = IF IsSpace(walk) THEN EntryFor(Cmp, store, walk.v, path[i]) ELSE NULL
  PROVE  Together(store, path, found1, walk1)
<1>1. Sound(store) /\ Solvent(store) /\ path[i] \in Names
  BY AccountedIs, ElementOfSeq
<1>2. ~IsSpace(NULL)
  BY DEF IsSpace
<1>3. WalkSound(store, walk) /\ (found = walk \/ (found = NULL /\ Astray(store, path)))
  BY DEF Together
<1>4. CASE ~IsSpace(walk)
  <2>1. walk1 = NULL /\ found1 = NULL
    BY <1>2, <1>3, <1>4
  <2> QED BY <1>2, <2>1 DEF Together, WalkSound
<1>5. CASE IsSpace(walk)
  <2> DEFINE n == walk.v
             name == path[i]
             exact == EntryFor(Cmp, store, n, name)
             near == EntryFor(CmpLen, store, n, name)
  <2>1. walk1 = exact /\ IsLive(store, n) /\ name \in Names
    BY <1>1, <1>3, <1>5 DEF WalkSound
  <2>2. exact = IF HasName(store, n, name) THEN Binding(store, n, name) ELSE NULL
    BY <1>1, <2>1, LiveIs DEF Query1
  <2>7. (found = NULL /\ found1 = NULL /\ Astray(store, path)) \/ found1 = near
    BY <1>2, <1>3, <1>5
  <2> HIDE DEF n, name
  <2>3. near = exact \/ (near = NULL /\ LongerBound(store, n, name))
    <3>1. \/ EntryFor(CmpLen, store, n, name) = EntryFor(Cmp, store, n, name)
          \/ EntryFor(CmpLen, store, n, name) = NULL /\ LongerBound(store, n, name)
      BY <1>1, <2>1, EntryForIs
    <3> QED BY <3>1
  <2> HIDE DEF exact, near
  <2>4. ASSUME IsSpace(exact) PROVE IsLive(store, exact.v)
    <3>1. exact # NULL /\ exact.type = "SUBNAMESPACE" /\ HasName(store, n, name)
          /\ exact = Binding(store, n, name)
      BY <2>2, <2>4 DEF IsSpace
    <3>2. Refers(store, exact)
      BY <1>1, <2>1, <3>1, LiveIs
    <3>3. exact = Entry("SUBNAMESPACE", exact.v)
      BY <3>1, <3>2, NumbersAre, ObjectIs
    <3> QED BY <1>1, <2>1, <3>1, <3>3, BoundAlive
  <2>5. LongerBound(store, n, name) => Astray(store, path)
    <3>1. n \in LiveSpaces(store)
      BY <1>1, <2>1, ShapeIs DEF Sound, IsLive
    <3> QED BY <3>1 DEF Astray, name
  <2>6. exact = NULL \/ Refers(store, exact)
    BY <1>1, <2>1, <2>2, LiveIs
  <2> QED BY <2>1, <2>3, <2>4, <2>5, <2>6, <2>7 DEF Together, WalkSound
<1> QED BY <1>4, <1>5

LEMMA QueryMeetsWalk ==
  ASSUME Accounted, ~store.crashed, NEW n, IsLive(store, n), NEW path \in Seq(Names)
  PROVE  Together(store, path, Query(store, n, path), Walk(store, n, path))
<1>1. PICK f : Follows(f, CmpLen, store, n, path, Len(path))
  BY FollowFollows
<1>2. PICK w : Follows(w, Cmp, store, n, path, Len(path))
  BY FollowFollows
<1> DEFINE max == Len(path)
           T == {i \in 0 .. max : Together(store, path, f[i], w[i])}
<1>3. max \in Nat
  BY LenProperties
<1>4. /\ f[0] = Entry("SUBNAMESPACE", n) /\ w[0] = Entry("SUBNAMESPACE", n)
      /\ \A i \in 1 .. max :
           f[i] = IF IsSpace(f[i - 1]) THEN EntryFor(CmpLen, store, f[i - 1].v, path[i]) ELSE NULL
      /\ \A i \in 1 .. max :
           w[i] = IF IsSpace(w[i - 1]) THEN EntryFor(Cmp, store, w[i - 1].v, path[i]) ELSE NULL
      /\ Query(store, n, path) = f[max] /\ Walk(store, n, path) = w[max]
  BY <1>1, <1>2 DEF Follows, Query, Walk
<1>5. 0 \in T
  <2>1. w[0].v = n /\ Refers(store, w[0])
    <3>1. Refers(store, Entry("SUBNAMESPACE", n))
      BY EntryIs DEF IsLive
    <3>2. w[0] = Entry("SUBNAMESPACE", n)
      BY <1>4
    <3>3. Entry("SUBNAMESPACE", n).v = n
      BY NumbersAre
    <3> QED BY <3>1, <3>2, <3>3
  <2>2. Together(store, path, f[0], w[0])
    BY <1>4, <2>1 DEF Together, WalkSound
  <2> QED BY <1>3, <2>2
<1>6. \A i \in 1 .. max : i - 1 \in T => i \in T
  <2> SUFFICES ASSUME NEW i \in 1 .. max, i - 1 \in T PROVE i \in T
    OBVIOUS
  <2>1. Together(store, path, f[i - 1], w[i - 1])
    OBVIOUS
  <2> DEFINE f1 == f[i]  w1 == w[i]  f0 == f[i - 1]  w0 == w[i - 1]
  <2>2. /\ f1 = IF IsSpace(f0) THEN EntryFor(CmpLen, store, f0.v, path[i]) ELSE NULL
        /\ w1 = IF IsSpace(w0) THEN EntryFor(Cmp, store, w0.v, path[i]) ELSE NULL
        /\ Together(store, path, f0, w0)
    BY <1>4, <2>1
  <2>3. i \in 1 .. Len(path) /\ i \in 0 .. max
    BY <1>3
  <2> HIDE DEF f1, w1, f0, w0, T, max
  <2>4. Together(store, path, f1, w1)
    BY <2>2, <2>3, TogetherStep
  <2> QED BY <2>3, <2>4 DEF T, f1, w1
<1> HIDE DEF T, max
<1>7. 0 .. max \subseteq T
  BY <1>3, <1>5, <1>6, IndexInduction
<1>8. max \in T
  BY <1>3, <1>7
<1> QED BY <1>4, <1>8 DEF T

LEMMA AccountedNamesLead ==
  ASSUME Accounted, ~store.crashed
  PROVE  NamesLead
<1>1. QueryIsSound
  <2> SUFFICES ASSUME NEW n \in LiveSpaces(store), NEW path \in Paths,
                      NEW found, found = Query(store, n, path),
                      NEW walk, walk = Walk(store, n, path)
               PROVE  \/ found = walk
                      \/ /\ found = NULL
                         /\ \E m \in LiveSpaces(store) : \E i \in DOMAIN path :
                              \E x \in Longer(path[i]) : Bound(store, m, x)
    BY DEF QueryIsSound
  <2>1. IsLive(store, n)
    BY AccountedIs, ShapeIs DEF Sound, IsLive
  <2>2. path \in Seq(Names) /\ DOMAIN path = 1 .. Len(path)
    <3>1. path \in Seq(Names)
      BY CallerAssumption
    <3> QED BY <3>1, LenProperties
  <2>3. Together(store, path, found, walk)
    BY <2>1, <2>2, QueryMeetsWalk
  <2> QED BY <2>2, <2>3 DEF Together, Astray, LongerBound
<1>2. CanonicalNamesLead
  BY SoundNamesLead DEF Accounted
<1> QED BY <1>1, <1>2 DEF NamesLead

(* Until the process ends, names lead where they should: a dotted name is  *)
(* found as bulp_imports_lookup would find it, or not at all because a     *)
(* longer name is bound, and canonical names lead back to their formats.   *)
(* It needs the counts: a namespace that is bound somewhere is there.      *)
THEOREM NamesAlwaysLead == Namespaces => [](~store.crashed => NamesLead)
<1>1. Accounted => (~store.crashed => NamesLead)
  BY AccountedNamesLead
<1> QED BY <1>1, StaysAccounted, PTL

-----------------------------------------------------------------------------
(* The tokens of a description                                             *)

(* What the parser takes for a word is one of the names.                   *)
WordToken(token) == IsBareword(token) => token.text \in Names
GoodTokens(q) == IsList(q) /\ \A i \in 1 .. Len(q) : WordToken(q[i])

LEMMA TokenOfIs ==
  ASSUME NEW lexeme, lexeme # Blank,
         IsBareword(TokenOf(lexeme)) => lexeme \in Names \cup {Blank}
  PROVE  WordToken(TokenOf(lexeme))
<1> DEFINE t == TokenOf(lexeme)
<1>1. \/ t = Token(lexeme, lexeme) \/ t = Token("NUMBER", lexeme)
      \/ t = Unread \/ t = Token("BAREWORD", lexeme)
  BY DEF TokenOf
<1>2. t = Unread => ~IsBareword(t)
  BY DEF Unread, Token, IsBareword, Keywords
<1>3. t # Unread => t.text = lexeme
  BY <1>1 DEF Token
<1> HIDE DEF t
<1> QED BY <1>2, <1>3 DEF WordToken, t

LEMMA NumberTokenIs == \A text : WordToken(Token("NUMBER", text))
BY DEF WordToken, Token, IsBareword, Keywords

(* The tokens a text may have, for the recursive function of tokenize.     *)
TokensOf(q) ==
  {TokenOf(l) : l \in Range(q)} \cup {Token("NUMBER", l) : l \in Range(q) \cup {Blank}} \cup {Unread}
Tokenized(q, m, f, i) ==
  IF i > Len(q) THEN <<>>
  ELSE IF q[i] = Blank THEN f[i + 1]
  ELSE IF q[i] \in {"=", "=="}
  THEN <<TokenOf(q[i]), NumberBehind(q, i, m)>> \o f[i + (IF BlankNumber(q, i) THEN 3 ELSE 2)]
  ELSE <<TokenOf(q[i])>> \o f[i + 1]

LEMMA NumberBehindIs ==
  ASSUME NEW q, q \in Seq(Range(q)), NEW m, NEW i \in 1 .. Len(q)
  PROVE  /\ NumberBehind(q, i, m) \in TokensOf(q) /\ WordToken(NumberBehind(q, i, m))
         /\ TokenOf(q[i]) \in TokensOf(q)
<1> DEFINE N == {Token("NUMBER", l) : l \in Range(q) \cup {Blank}}
           c == NumberBehind(q, i, m)
<1>1. Len(q) \in Nat
  BY LenProperties
<1>2. \A j \in 1 .. Len(q) : q[j] \in Range(q)
  BY ElementOfSeq
<1>3. c \in N \cup {Unread}
  <2>1. CASE i = Len(q)
    BY <2>1 DEF NumberBehind
  <2>2. CASE i # Len(q) /\ BlankNumber(q, i)
    <3>1. i + 2 \in 1 .. Len(q)
      BY <1>1, <2>2 DEF BlankNumber
    <3>2. c = Token("NUMBER", q[i + 2])
      BY <2>2 DEF NumberBehind
    <3> HIDE DEF c
    <3> QED BY <1>2, <3>1, <3>2
  <2>3. CASE i # Len(q) /\ ~BlankNumber(q, i)
    <3>1. i + 1 \in 1 .. Len(q)
      BY <1>1, <2>3
    <3>2. c \in {Unread, Token("NUMBER", q[i + 1])}
      BY <2>3 DEF NumberBehind
    <3> HIDE DEF c
    <3> QED BY <1>2, <3>1, <3>2
  <2> QED BY <2>1, <2>2, <2>3
<1>4. WordToken(Unread)
  BY DEF Unread, Token, IsBareword, Keywords, WordToken
<1> HIDE DEF c
<1>5. WordToken(c)
  BY <1>3, <1>4, NumberTokenIs
<1> QED BY <1>2, <1>3, <1>5 DEF TokensOf, c

(* How far behind a lexeme the rest of the text begins.                    *)
LEMMA BehindIs ==
  ASSUME NEW q, Len(q) \in Nat, NEW i \in 1 .. Len(q)
  PROVE  /\ i + 1 \in i + 1 .. Len(q) + 2
         /\ i + (IF BlankNumber(q, i) THEN 3 ELSE 2) \in i + 1 .. Len(q) + 2
<1>1. CASE BlankNumber(q, i)
  <2>1. i + 1 < Len(q)
    BY <1>1 DEF BlankNumber
  <2> QED BY <1>1, <2>1
<1>2. CASE ~BlankNumber(q, i)
  BY <1>2
<1> QED BY <1>1, <1>2

LEMMA TokenizedIs ==
  ASSUME NEW q, q \in Seq(Range(q)), NEW m, NEW b, b = Len(q) + 2,
         NEW f \in [1 .. b -> Seq(TokensOf(q))], NEW i \in 1 .. b
  PROVE  /\ Tokenized(q, m, f, i) \in Seq(TokensOf(q))
         /\ \A g : (\A j \in i + 1 .. b : f[j] = g[j]) => Tokenized(q, m, f, i) = Tokenized(q, m, g, i)
<1> DEFINE V == TokensOf(q)
<1>1. Len(q) \in Nat /\ b \in Nat
  BY LenProperties
<1>2. CASE i > Len(q)
  <2>1. <<>> \in Seq(V)
    BY EmptySeq
  <2> QED BY <1>2, <2>1 DEF Tokenized
<1>3. CASE ~(i > Len(q))
  <2> DEFINE k == i + (IF BlankNumber(q, i) THEN 3 ELSE 2)
             a == TokenOf(q[i])
             c == NumberBehind(q, i, m)
  <2>1. i \in 1 .. Len(q)
    BY <1>1, <1>3
  <2>2. i + 1 \in i + 1 .. b /\ k \in i + 1 .. b
    BY <1>1, <2>1, BehindIs
  <2>3. a \in V /\ c \in V
    BY <2>1, NumberBehindIs
  <2>4. <<a>> \in Seq(V) /\ <<a, c>> \in Seq(V)
    <3> HIDE DEF a, c, V
    <3> QED BY <2>3
  <2>7. \A g : Tokenized(q, m, g, i) = IF q[i] = Blank THEN g[i + 1]
                                       ELSE IF q[i] \in {"=", "=="} THEN <<a, c>> \o g[k]
                                       ELSE <<a>> \o g[i + 1]
    BY <1>3 DEF Tokenized
  <2> HIDE DEF k, a, c, V
  <2>5. f[i + 1] \in Seq(V) /\ f[k] \in Seq(V)
    <3>1. i + 1 \in 1 .. b /\ k \in 1 .. b
      BY <1>1, <2>1, <2>2
    <3> QED BY <3>1 DEF V
  <2>6. <<a>> \o f[i + 1] \in Seq(V) /\ <<a, c>> \o f[k] \in Seq(V)
    BY <2>4, <2>5, ConcatProperties
  <2>8. Tokenized(q, m, f, i) \in Seq(V)
    BY <2>5, <2>6, <2>7
  <2>9. ASSUME NEW g, \A j \in i + 1 .. b : f[j] = g[j]
        PROVE  Tokenized(q, m, f, i) = Tokenized(q, m, g, i)
    <3>1. f[i + 1] = g[i + 1] /\ f[k] = g[k]
      BY <2>2, <2>9
    <3> QED BY <2>7, <3>1
  <2> QED BY <2>8, <2>9 DEF V
<1> QED BY <1>2, <1>3

LEMMA TokensAreGood ==
  ASSUME NEW text \in Texts, NEW m
  PROVE  GoodTokens(tokenize(text.lexemes, m))
<1> DEFINE q == text.lexemes
           b == Len(q) + 2
           V == TokensOf(q)
           X == [1 .. b -> Seq(V)]
           F == [f \in X |-> [i \in 1 .. b |-> Tokenized(q, m, f, i)]]
           from == CHOOSE from : from = [i \in 1 .. b |-> Tokenized(q, m, from, i)]
<1>1. /\ q \in Seq(Range(q))
      /\ \A i \in DOMAIN q : IsBareword(TokenOf(q[i])) => q[i] \in Names \cup {Blank}
  BY TextsAssumption
<1>2. tokenize(q, m) = from[1]
  BY DEF tokenize, Tokenized
<1> HIDE DEF q
<1>3. Len(q) \in Nat /\ b \in Nat /\ 1 \in Nat /\ 1 \in 1 .. b
  BY <1>1, LenProperties
<1>4. Walks(F, 1, b, Seq(V))
  <2>1. Seq(V) # {}
    BY EmptySeq
  <2>2. \A f \in X, i \in 1 .. b : Tokenized(q, m, f, i) \in Seq(V)
    <3> SUFFICES ASSUME NEW f \in X, NEW i \in 1 .. b PROVE Tokenized(q, m, f, i) \in Seq(V)
      OBVIOUS
    <3> QED BY <1>1, TokenizedIs
  <2>3. \A f, g \in X, i \in 1 .. b :
          (\A j \in i + 1 .. b : f[j] = g[j]) => Tokenized(q, m, f, i) = Tokenized(q, m, g, i)
    <3> SUFFICES ASSUME NEW f \in X, NEW g \in X, NEW i \in 1 .. b,
                        \A j \in i + 1 .. b : f[j] = g[j]
                 PROVE  Tokenized(q, m, f, i) = Tokenized(q, m, g, i)
      OBVIOUS
    <3>1. \A h : (\A j \in i + 1 .. b : f[j] = h[j]) => Tokenized(q, m, f, i) = Tokenized(q, m, h, i)
      BY <1>1, TokenizedIs
    <3> QED BY <3>1
  <2> HIDE DEF b, V
  <2>4. F \in [X -> X]
    BY <2>2
  <2>5. \A f \in X, i \in 1 .. b : F[f][i] = Tokenized(q, m, f, i)
    OBVIOUS
  <2> HIDE DEF F
  <2>6. ASSUME NEW f \in X, NEW g \in X, NEW i \in 1 .. b, \A j \in i + 1 .. b : f[j] = g[j]
        PROVE  F[f][i] = F[g][i]
    <3>1. Tokenized(q, m, f, i) = Tokenized(q, m, g, i)
      BY <2>3, <2>6
    <3> QED BY <2>5, <3>1
  <2> QED BY <2>1, <2>4, <2>6 DEF Walks
<1>5. PICK f \in X : f = F[f]
  <2> HIDE DEF F, b, V
  <2> QED BY <1>3, <1>4, WalkExists
<1>6. f = [i \in 1 .. b |-> Tokenized(q, m, f, i)]
  BY <1>5
<1>7. from = [i \in 1 .. b |-> Tokenized(q, m, from, i)]
  BY <1>6
<1> HIDE DEF from, b
<1>8. \A i \in 1 .. b : from[i] = Tokenized(q, m, from, i)
  BY <1>7
<1> DEFINE T == {i \in 1 .. b : from[i] \in Seq({t \in V : WordToken(t)})}
<1>9. \A i \in 1 .. b : (\A j \in i + 1 .. b : j \in T) => i \in T
  <2> SUFFICES ASSUME NEW i \in 1 .. b, \A j \in i + 1 .. b : j \in T PROVE i \in T
    OBVIOUS
  <2> DEFINE G == {t \in V : WordToken(t)}
  <2>1. from[i] = Tokenized(q, m, from, i)
    BY <1>8
  <2>2. CASE i > Len(q)
    <3>1. <<>> \in Seq(G)
      BY EmptySeq
    <3> QED BY <2>1, <2>2, <3>1 DEF Tokenized
  <2>3. CASE ~(i > Len(q))
    <3> DEFINE k == i + (IF BlankNumber(q, i) THEN 3 ELSE 2)
               a == TokenOf(q[i])
               c == NumberBehind(q, i, m)
    <3>1. i \in 1 .. Len(q)
      BY <1>3, <2>3 DEF b
    <3>2. from[i + 1] \in Seq(G) /\ from[k] \in Seq(G)
      <4>1. i + 1 \in i + 1 .. b /\ k \in i + 1 .. b
        BY <1>3, <3>1, BehindIs DEF b
      <4> HIDE DEF k, G
      <4> QED BY <4>1 DEF G
    <3>3. a \in V /\ c \in V /\ WordToken(c)
      BY <1>1, <3>1, NumberBehindIs
    <3>4. q[i] # Blank => WordToken(a)
      <4>1. DOMAIN q = 1 .. Len(q)
        BY <1>1, LenProperties
      <4> QED BY <1>1, <3>1, <4>1, TokenOfIs
    <3>5. from[i] = IF q[i] = Blank THEN from[i + 1]
                    ELSE IF q[i] \in {"=", "=="} THEN <<a, c>> \o from[k]
                    ELSE <<a>> \o from[i + 1]
      BY <2>1, <2>3 DEF Tokenized
    <3>6. q[i] # Blank => <<a>> \in Seq(G) /\ <<a, c>> \in Seq(G)
      <4> HIDE DEF V, a, c
      <4>1. q[i] # Blank => a \in G /\ c \in G
        BY <3>3, <3>4
      <4> HIDE DEF G
      <4> QED BY <4>1
    <3> HIDE DEF a, c, k, G
    <3>7. q[i] # Blank => /\ <<a>> \o from[i + 1] \in Seq(G)
                          /\ <<a, c>> \o from[k] \in Seq(G)
      BY <3>2, <3>6, ConcatProperties
    <3>8. from[i] \in Seq(G)
      BY <3>2, <3>5, <3>7
    <3> QED BY <3>8 DEF G
  <2> QED BY <2>2, <2>3
<1>10. from[1] \in Seq({t \in V : WordToken(t)})
  <2> HIDE DEF T
  <2>1. \A i \in 1 .. b : i \in T
    BY <1>3, <1>9, WalkInduction
  <2> QED BY <1>3, <2>1 DEF T
<1> DEFINE G == {t \in V : WordToken(t)}
           r == from[1]
<1>11. /\ r \in Seq(G) /\ \A t \in G : WordToken(t)
  BY <1>10
<1> HIDE DEF G, r
<1>12. GoodTokens(r)
  BY <1>11, ListOfSeq, ElementOfSeq DEF GoodTokens
<1> QED BY <1>2, <1>12 DEF r, q

(* A dotted name of the tokens ts takes an odd number of them, words at    *)
(* every second place after the first.                                     *)
DottedFrom(ts, limit, f, i) ==
  IF i + 2 < limit /\ ts[i + 1].type = "."
  THEN IF ts[i + 2].type = "BAREWORD" THEN f[i + 2] ELSE 0
  ELSE i
Wordy(ts, limit, i, rv) ==
  \/ rv = 0
  \/ \E k \in Nat : /\ rv = i + 2 * k /\ (k > 0 => rv < limit)
                    /\ \A j \in 1 .. k : ts[i + 2 * j].type = "BAREWORD"

LEMMA WordyStep ==
  ASSUME NEW ts, NEW limit \in Nat, NEW i \in Nat, i + 2 < limit, ts[i + 2].type = "BAREWORD",
         NEW rv, Wordy(ts, limit, i + 2, rv)
  PROVE  Wordy(ts, limit, i, rv)
<1>1. CASE rv = 0
  BY <1>1 DEF Wordy
<1>2. CASE rv # 0
  <2>1. PICK k \in Nat : /\ rv = (i + 2) + 2 * k /\ (k > 0 => rv < limit)
                         /\ \A j \in 1 .. k : ts[(i + 2) + 2 * j].type = "BAREWORD"
    BY <1>2 DEF Wordy
  <2>2. k + 1 \in Nat /\ rv = i + 2 * (k + 1) /\ rv < limit
    <3>1. k = 0 => rv = i + 2
      BY <2>1
    <3>2. rv < limit
      BY <2>1, <3>1
    <3> QED BY <2>1, <3>2
  <2>3. ASSUME NEW j \in 1 .. k + 1 PROVE ts[i + 2 * j].type = "BAREWORD"
    <3>1. CASE j = 1
      <4>1. i + 2 * j = i + 2
        BY <3>1
      <4> QED BY <4>1
    <3>2. CASE j # 1
      <4>1. j - 1 \in 1 .. k /\ (i + 2) + 2 * (j - 1) = i + 2 * j
        BY <3>2
      <4> QED BY <2>1, <4>1
    <3> QED BY <3>1, <3>2
  <2> QED BY <2>2, <2>3 DEF Wordy
<1> QED BY <1>1, <1>2

LEMMA DottedNameIs ==
  ASSUME NEW ts, Len(ts) \in Nat, NEW limit \in Nat, limit <= Len(ts) + 1
  PROVE  Wordy(ts, limit, 1, DottedName(ts, limit))
<1> DEFINE b == Len(ts) + 2
           X == [1 .. b -> Nat]
           F == [f \in X |-> [i \in 1 .. b |-> DottedFrom(ts, limit, f, i)]]
           from == CHOOSE from : from = [i \in 1 .. b |-> DottedFrom(ts, limit, from, i)]
<1>1. DottedName(ts, limit) = from[1]
  BY DEF DottedName, DottedFrom
<1>2. b \in Nat /\ 1 \in Nat /\ 1 \in 1 .. b
  OBVIOUS
<1>3. ASSUME NEW i \in 1 .. b, i + 2 < limit PROVE i + 2 \in 1 .. b /\ i + 2 \in i + 1 .. b
  BY <1>3
<1> HIDE DEF b
<1>4. Walks(F, 1, b, Nat)
  <2>1. Nat # {}
    OBVIOUS
  <2>2. \A f \in X, i \in 1 .. b : DottedFrom(ts, limit, f, i) \in Nat
    <3> SUFFICES ASSUME NEW f \in X, NEW i \in 1 .. b PROVE DottedFrom(ts, limit, f, i) \in Nat
      OBVIOUS
    <3>1. i + 2 < limit => f[i + 2] \in Nat
      BY <1>3
    <3>2. i \in Nat /\ 0 \in Nat
      BY <1>2
    <3> QED BY <3>1, <3>2 DEF DottedFrom
  <2>3. \A f, g \in X, i \in 1 .. b :
          (\A j \in i + 1 .. b : f[j] = g[j])
             => DottedFrom(ts, limit, f, i) = DottedFrom(ts, limit, g, i)
    <3> SUFFICES ASSUME NEW f \in X, NEW g \in X, NEW i \in 1 .. b,
                        \A j \in i + 1 .. b : f[j] = g[j]
                 PROVE  DottedFrom(ts, limit, f, i) = DottedFrom(ts, limit, g, i)
      OBVIOUS
    <3>1. i + 2 < limit => f[i + 2] = g[i + 2]
      BY <1>3
    <3> QED BY <3>1 DEF DottedFrom
  <2>4. F \in [X -> X]
    BY <2>2
  <2>5. \A f \in X, i \in 1 .. b : F[f][i] = DottedFrom(ts, limit, f, i)
    OBVIOUS
  <2> HIDE DEF F
  <2>6. ASSUME NEW f \in X, NEW g \in X, NEW i \in 1 .. b, \A j \in i + 1 .. b : f[j] = g[j]
        PROVE  F[f][i] = F[g][i]
    <3>1. DottedFrom(ts, limit, f, i) = DottedFrom(ts, limit, g, i)
      BY <2>3, <2>6
    <3> QED BY <2>5, <3>1
  <2> QED BY <2>1, <2>4, <2>6 DEF Walks
<1>5. PICK f \in X : f = F[f]
  <2> HIDE DEF F
  <2> QED BY <1>2, <1>4, WalkExists
<1>6. f = [i \in 1 .. b |-> DottedFrom(ts, limit, f, i)]
  BY <1>5
<1>7. from = [i \in 1 .. b |-> DottedFrom(ts, limit, from, i)]
  BY <1>6
<1> HIDE DEF from
<1>8. \A i \in 1 .. b : from[i] = DottedFrom(ts, limit, from, i)
  BY <1>7
<1> DEFINE T == {i \in 1 .. b : Wordy(ts, limit, i, from[i])}
<1>9. \A i \in 1 .. b : (\A j \in i + 1 .. b : j \in T) => i \in T
  <2> SUFFICES ASSUME NEW i \in 1 .. b, \A j \in i + 1 .. b : j \in T PROVE i \in T
    OBVIOUS
  <2>1. from[i] = DottedFrom(ts, limit, from, i) /\ i \in Nat
    BY <1>2, <1>8
  <2>2. CASE i + 2 < limit /\ ts[i + 2].type = "BAREWORD" /\ from[i] = from[i + 2]
    <3>1. Wordy(ts, limit, i + 2, from[i + 2])
      BY <1>3, <2>2
    <3>2. Wordy(ts, limit, i, from[i])
      BY <2>1, <2>2, <3>1, WordyStep
    <3> QED BY <3>2
  <2>3. CASE from[i] = 0
    BY <2>3 DEF Wordy
  <2>4. CASE from[i] = i
    <3>1. 0 \in Nat /\ i = i + 2 * 0 /\ 1 .. 0 = {}
      BY <2>1
    <3>2. Wordy(ts, limit, i, i)
      BY <3>1 DEF Wordy
    <3> QED BY <2>4, <3>2
  <2> QED BY <2>1, <2>2, <2>3, <2>4 DEF DottedFrom
<1>10. 1 \in T
  <2> HIDE DEF T
  <2>1. \A i \in 1 .. b : i \in T
    BY <1>2, <1>9, WalkInduction
  <2> QED BY <1>2, <2>1
<1> QED BY <1>1, <1>10

(* The path of such a name is a list, of names where its tokens are words. *)
TextList(ts, p) == \E m \in Nat : m > 0 /\ p = [i \in 1 .. m |-> ts[2 * i - 1].text]
AllWords(ts, n) == (\A j \in 1 .. n : WordToken(ts[j])) /\ ts[1].type = "BAREWORD"

LEMMA PathOfIs ==
  ASSUME NEW ts, NEW limit \in Nat, NEW used, used # 0, Wordy(ts, limit, 1, used)
  PROVE  /\ used \in Nat /\ used > 0 /\ (used = 1 \/ used < limit)
         /\ TextList(ts, PathOf(ts, used))
         /\ AllWords(ts, used) => PathOf(ts, used) \in Seq(Names)
<1>1. PICK k \in Nat : /\ used = 1 + 2 * k /\ (k > 0 => used < limit)
                       /\ \A j \in 1 .. k : ts[1 + 2 * j].type = "BAREWORD"
  BY DEF Wordy
<1> DEFINE m == k + 1
           p == [i \in 1 .. m |-> ts[2 * i - 1].text]
<1>2. (used + 1) \div 2 = m
  <2>1. used + 1 = 2 * m
    BY <1>1
  <2>2. (2 * m) \div 2 = m
    <3>1. m \in Nat
      OBVIOUS
    <3> HIDE DEF m
    <3> QED BY <3>1
  <2> QED BY <2>1, <2>2
<1>3. PathOf(ts, used) = p
  BY <1>2 DEF PathOf
<1>4. used \in Nat /\ used > 0 /\ (used = 1 \/ used < limit) /\ m \in Nat /\ m > 0
  <2>1. k = 0 => used = 1
    BY <1>1
  <2> QED BY <1>1, <2>1
<1>5. ASSUME \A j \in 1 .. used : WordToken(ts[j]), ts[1].type = "BAREWORD"
      PROVE  p \in Seq(Names)
  <2>1. ASSUME NEW i \in 1 .. m PROVE ts[2 * i - 1].text \in Names
    <3>1. 2 * i - 1 \in 1 .. used
      BY <1>1
    <3>2. ts[2 * i - 1].type = "BAREWORD"
      <4>1. CASE i = 1
        <5>1. 2 * i - 1 = 1
          BY <4>1
        <5> QED BY <1>5, <5>1
      <4>2. CASE i # 1
        <5>1. i - 1 \in 1 .. k /\ 1 + 2 * (i - 1) = 2 * i - 1
          BY <4>2
        <5> QED BY <1>1, <5>1
      <4> QED BY <4>1, <4>2
    <3> QED BY <1>5, <3>1, <3>2 DEF WordToken, IsBareword
  <2>2. p \in [1 .. m -> Names]
    BY <2>1
  <2>3. m \in Nat
    BY <1>4
  <2> HIDE DEF p, m
  <2> QED BY <2>2, <2>3, FunctionIsSeq
<1>6. TextList(ts, p)
  BY <1>4 DEF TextList
<1> HIDE DEF p
<1> QED BY <1>3, <1>4, <1>5, <1>6 DEF AllWords

-----------------------------------------------------------------------------
(* The format of a member                                                  *)

(* What bulp_imports_lookup finds is a format, though it need not be there *)
(* any more: nothing is assumed of the counts.                             *)
LEMMA ImportsLookupIs ==
  ASSUME Accounted, ~store.crashed, IsLive(store, parse.this_ns), IsLive(store, parse.global_ns),
         NEW m \in Nat, m > 0, NEW path, path = [i \in 1 .. m |-> path[i]],
         ImportsLookup(store, path) # NULL
  PROVE  ImportsLookup(store, path) \in 1 .. FormatCount(store)
<1> DEFINE here == Query1(store, parse.this_ns, path[1])
           above == Walk(store, parse.global_ns, path)
<1>1. DOMAIN path = 1 .. m
  OBVIOUS
<1>2. /\ \A i \in 1 .. m : path[i] \in Names
      /\ \/ IsFormat(here) /\ ImportsLookup(store, path) = here.v
         \/ IsFormat(above) /\ ImportsLookup(store, path) = above.v
  BY <1>1 DEF ImportsLookup
<1>3. path \in Seq(Names) /\ path[1] \in Names
  <2>1. path \in [1 .. m -> Names]
    BY <1>2
  <2>2. 1 \in 1 .. m
    OBVIOUS
  <2> QED BY <1>2, <2>1, <2>2, FunctionIsSeq
<1>4. Sound(store)
  BY AccountedIs
<1>5. IsFormat(here) => Refers(store, here)
  <2>1. here = IF HasName(store, parse.this_ns, path[1])
               THEN Binding(store, parse.this_ns, path[1]) ELSE NULL
    BY <1>3, <1>4, LiveIs
  <2>2. HasName(store, parse.this_ns, path[1]) => Refers(store, Binding(store, parse.this_ns, path[1]))
    BY <1>3, <1>4, LiveIs
  <2> HIDE DEF here
  <2> QED BY <2>1, <2>2 DEF IsFormat
<1>6. IsFormat(above) => Refers(store, above)
  <2>1. Together(store, path, Query(store, parse.global_ns, path), above)
    BY <1>3, QueryMeetsWalk
  <2> HIDE DEF above
  <2> QED BY <2>1 DEF Together, WalkSound, IsFormat
<1> HIDE DEF here, above
<1>7. \A e : Refers(store, e) /\ IsFormat(e) => e.v \in 1 .. FormatCount(store)
  BY ObjectIs DEF IsFormat
<1> QED BY <1>2, <1>5, <1>6, <1>7

(* A part of the parser that has read something: the heap has come to no   *)
(* harm, nobody's balance has changed, and what it made is there.          *)
SpacesStay(s, u) == \A m : IsLive(s, m) => IsLive(u, m)
Quiet(s, u) == Becomes(s, u) /\ Settles(s, u, NULL, 0) /\ SpacesStay(s, u)
FormatRead(s, r) ==
  /\ Quiet(s, r.s) /\ r.used \in Nat
  /\ r.used # 0 => r.v \in 1 .. FormatCount(r.s)

LEMMA QuietIs ==
  ASSUME NEW s, Sound(s)
  PROVE  /\ Quiet(s, s)
         /\ \A u, v : Quiet(s, u) /\ Quiet(u, v) => Quiet(s, v)
<1>1. Quiet(s, s)
  BY EvolvesIs, SettlesTwice DEF Quiet, Becomes, SpacesStay
<1>2. ASSUME NEW u, NEW v, Quiet(s, u), Quiet(u, v) PROVE Quiet(s, v)
  <2>1. Becomes(s, v)
    BY <1>2, EvolvesIs DEF Quiet, Becomes
  <2>2. Settles(s, v, NULL, 0)
    <3>1. \A x : Settles(s, u, x, 0) /\ Settles(u, v, NULL, 0) => Settles(s, v, NULL, 0)
      BY SettlesTwice
    <3> QED BY <1>2, <3>1 DEF Quiet
  <2>3. SpacesStay(s, v)
    BY <1>2 DEF Quiet, SpacesStay
  <2> QED BY <2>1, <2>2, <2>3 DEF Quiet
<1> QED BY <1>1, <1>2

LEMMA ArrayIsQuiet ==
  ASSUME NEW s, Sound(s), NEW f \in 1 .. FormatCount(s), NEW junk, NEW u, u = ArrayOf(s, f, junk)
  PROVE  Quiet(s, u)
<1>1. Becomes(s, u) /\ (u = s \/ Crashed(s, u) \/ ArrayMade(s, f, u))
  BY ArrayOfMakes
<1>2. Settles(s, u, NULL, 0)
  BY ArraySettles
<1>3. u.ns = s.ns
  <2>1. Crashed(s, u) => u.ns = s.ns
    BY DEF Crashed
  <2>2. ArrayMade(s, f, u) => u.ns = s.ns
    BY DEF ArrayMade, FormatMade, FieldsSet, FormatSet
  <2> QED BY <1>1, <2>1, <2>2
<1>4. SpacesStay(s, u)
  BY <1>3 DEF SpacesStay, IsLive, SpaceCount
<1> QED BY <1>1, <1>2, <1>4 DEF Quiet

LEMMA ArrayMarkIs ==
  ASSUME NEW s, Sound(s), NEW r, FormatRead(s, r), NEW ts, NEW junk
  PROVE  FormatRead(s, ArrayMark(r, ts, junk))
<1> DEFINE s1 == ArrayOf(r.s, r.v, junk)
           t == ArrayMark(r, ts, junk)
<1>1. \/ t = r
      \/ t = Read(r.s, 0, NULL)
      \/ r.used # 0 /\ s1.crashed /\ t = Read(s1, 0, NULL)
      \/ r.used # 0 /\ ~s1.crashed /\ t = Read(s1, r.used + 2, s1.fmt[r.v].array_of)
  BY DEF ArrayMark
<1> HIDE DEF t
<1>2. CASE t = r
  BY <1>2 DEF t
<1>3. CASE t = Read(r.s, 0, NULL)
  BY <1>3 DEF FormatRead, Read, t
<1>4. CASE /\ r.used # 0
           /\ \/ t = Read(s1, 0, NULL)
              \/ ~s1.crashed /\ t = Read(s1, r.used + 2, s1.fmt[r.v].array_of)
  <2>1. Sound(r.s) /\ r.v \in 1 .. FormatCount(r.s) /\ r.used + 2 \in Nat
    BY <1>4 DEF FormatRead, Quiet, Becomes
  <2>2. Quiet(r.s, s1)
    BY <2>1, ArrayIsQuiet
  <2>3. ~s1.crashed => s1.fmt[r.v].array_of \in 1 .. FormatCount(s1)
    BY <2>1, ArrayOfMakes
  <2> HIDE DEF s1
  <2>4. Quiet(s, s1)
    BY <2>2, QuietIs DEF FormatRead
  <2>5. CASE t = Read(s1, 0, NULL)
    BY <2>4, <2>5 DEF FormatRead, Read, t
  <2>6. CASE ~s1.crashed /\ t = Read(s1, r.used + 2, s1.fmt[r.v].array_of)
    <3> DEFINE k == r.used + 2
               v == s1.fmt[r.v].array_of
    <3>1. k \in Nat /\ v \in 1 .. FormatCount(s1) /\ t = Read(s1, k, v)
      BY <2>1, <2>3, <2>6
    <3> HIDE DEF k, v
    <3> QED BY <2>4, <3>1 DEF FormatRead, Read, t
  <2> QED BY <1>4, <2>5, <2>6
<1> QED BY <1>1, <1>2, <1>3, <1>4

LEMMA ArrayMarksAre ==
  ASSUME NEW s, Sound(s), NEW f \in 1 .. FormatCount(s), NEW ts, Len(ts) \in Nat,
         NEW used \in Nat, NEW junk
  PROVE  FormatRead(s, ArrayMarks(s, f, ts, used, junk))
<1> DEFINE max == Len(ts)
           b == Read(s, used, f)
           marked == CHOOSE marked : marked = [k \in 0 .. max |->
             IF k = 0 THEN b ELSE ArrayMark(marked[k - 1], ts, junk)]
<1>1. ArrayMarks(s, f, ts, used, junk) = marked[max]
  BY DEF ArrayMarks
<1>2. max \in Nat
  OBVIOUS
<1>3. FormatRead(s, b)
  BY QuietIs DEF FormatRead, Read
<1> HIDE DEF max, b
<1>4. PICK g : Steps(g, "mark", ts, NULL, junk, NULL, b, max)
  BY <1>2, StepsExist
<1>5. g = [k \in 0 .. max |-> IF k = 0 THEN b ELSE ArrayMark(g[k - 1], ts, junk)]
  BY <1>4 DEF Steps, Step
<1>6. marked = [k \in 0 .. max |-> IF k = 0 THEN b ELSE ArrayMark(marked[k - 1], ts, junk)]
  BY <1>5
<1> HIDE DEF marked
<1> DEFINE T == {k \in 0 .. max : FormatRead(s, marked[k])}
<1>7. 0 \in T
  BY <1>2, <1>3, <1>6
<1>8. ASSUME NEW k \in 1 .. max, k - 1 \in T PROVE k \in T
  <2>1. k \in 0 .. max /\ k # 0
    BY <1>2
  <2>2. marked[k] = ArrayMark(marked[k - 1], ts, junk)
    BY <1>6, <2>1
  <2>3. FormatRead(s, ArrayMark(marked[k - 1], ts, junk))
    <3> DEFINE r == marked[k - 1]
    <3>1. FormatRead(s, r)
      BY <1>8
    <3> HIDE DEF r
    <3>2. FormatRead(s, ArrayMark(r, ts, junk))
      BY <3>1, ArrayMarkIs
    <3> QED BY <3>2 DEF r
  <2> QED BY <2>1, <2>2, <2>3
<1>9. 0 .. max \subseteq T
  <2> HIDE DEF T
  <2> QED BY <1>2, <1>7, <1>8, IndexInduction
<1>10. max \in T
  <2> HIDE DEF T
  <2> QED BY <1>2, <1>9
<1> QED BY <1>1, <1>10

LEMMA FormatIsRead ==
  ASSUME Accounted, ~store.crashed, IsLive(store, parse.this_ns), IsLive(store, parse.global_ns),
         NEW ts, Len(ts) \in Nat, NEW junk
  PROVE  FormatRead(store, parse_format(store, ts, junk))
<1> DEFINE used == DottedName(ts, Len(ts))
           path == PathOf(ts, used)
           f == ImportsLookup(store, path)
<1>1. Sound(store)
  BY AccountedIs
<1>2. CASE used = 0 \/ f = NULL
  <2>1. parse_format(store, ts, junk) = Read(store, 0, NULL)
    BY <1>2 DEF parse_format
  <2> QED BY <1>1, <2>1, QuietIs DEF FormatRead, Read
<1>3. CASE used # 0 /\ f # NULL
  <2> DEFINE limit == Len(ts)
  <2>1. Wordy(ts, limit, 1, used)
    <3>1. limit \in Nat /\ limit <= Len(ts) + 1
      OBVIOUS
    <3> HIDE DEF limit
    <3>2. Wordy(ts, limit, 1, DottedName(ts, limit))
      BY <3>1, DottedNameIs
    <3> QED BY <3>2 DEF limit
  <2>2. parse_format(store, ts, junk) = ArrayMarks(store, f, ts, used, junk)
    BY <1>3 DEF parse_format
  <2>3. limit \in Nat
    OBVIOUS
  <2> HIDE DEF limit, used
  <2>4. used \in Nat /\ TextList(ts, PathOf(ts, used))
    BY <1>3, <2>1, <2>3, PathOfIs
  <2>5. PICK m \in Nat : m > 0 /\ path = [i \in 1 .. m |-> ts[2 * i - 1].text]
    BY <2>4 DEF TextList
  <2>6. path = [i \in 1 .. m |-> path[i]]
    BY <2>5
  <2> HIDE DEF path
  <2>7. f \in 1 .. FormatCount(store)
    BY <1>3, <2>5, <2>6, ImportsLookupIs
  <2> HIDE DEF f
  <2> QED BY <1>1, <2>2, <2>4, <2>7, ArrayMarksAre
<1> QED BY <1>2, <1>3

-----------------------------------------------------------------------------
(* The namespace of a text                                                 *)

LEMMA QuietSolvent ==
  ASSUME NEW s, Sound(s), Solvent(s), NEW u, Quiet(s, u)
  PROVE  Solvent(u)
<1> SUFFICES ASSUME ~u.crashed, NEW x PROVE Bal(u, x) >= 0
  BY DEF Solvent
<1>1. ~s.crashed /\ Bal(u, x) = Bal(s, x) + More(x, NULL, 0)
  BY DEF Quiet, Settles
<1>2. Bal(s, x) >= 0 /\ Bal(s, x) \in Int
  BY <1>1, BalIs DEF Solvent
<1> QED BY <1>1, <1>2 DEF More

(* One component: the namespace that is there, or a new one.               *)
Arrives(s, r) ==
  Quiet(s, r.s) /\ ~r.s.crashed /\ (r.v = NULL \/ IsLive(r.s, r.v))

LEMMA ForceArrives ==
  ASSUME NEW s, Sound(s), Solvent(s), ~s.crashed, NEW n, IsLive(s, n), NEW name \in Names,
         NEW r, r = ForceSubnamespace1(s, n, name)
  PROVE  Arrives(s, r)
<1>1. Settles(s, r.s, NULL, 0)
  BY ForceOneSettles
<1>2. CASE HasName(s, n, name)
  <2> DEFINE e == Query1(s, n, name)
  <2>1. e = Binding(s, n, name) /\ Refers(s, e) /\ e # NULL
    <3>1. Query1(s, n, name) = Binding(s, n, name) /\ Refers(s, Binding(s, n, name))
      BY <1>2, LiveIs
    <3> QED BY <3>1, NumbersAre
  <2>2. r.s = s /\ r.v = IF IsSpace(e) THEN e.v ELSE NULL
    BY <2>1 DEF ForceSubnamespace1
  <2> HIDE DEF e
  <2>3. ASSUME IsSpace(e) PROVE IsLive(s, e.v)
    <3>1. e.type = "SUBNAMESPACE"
      BY <2>3 DEF IsSpace
    <3>2. e = Entry("SUBNAMESPACE", e.v)
      BY <2>1, <3>1, NumbersAre, ObjectIs
    <3> QED BY <1>2, <2>1, <3>2, BoundAlive
  <2>4. Quiet(s, s)
    BY QuietIs
  <2> QED BY <2>2, <2>3, <2>4 DEF Arrives
<1>3. CASE ~HasName(s, n, name)
  <2> DEFINE u == r.s
             m == r.v
  <2>1. SpaceForced(s, u, n, name, m) /\ Becomes(s, u)
    BY <1>3, ForceFree
  <2> HIDE DEF u, m
  <2>2. PICK s2 : /\ SpaceMade(s, s2, FALSE) /\ m = SpaceCount(s2)
                  /\ Binds(s2, u, n, name, Entry("SUBNAMESPACE", m))
    BY <2>1 DEF SpaceForced
  <2>3. /\ SpaceCount(s2) = SpaceCount(s) + 1 /\ s2.ns[m].ref_count = 1
        /\ s2.crashed = s.crashed
        /\ \A k \in 1 .. SpaceCount(s) : s2.ns[k] = s.ns[k]
    BY <2>2 DEF SpaceMade, SpaceAdded, SameRest, NewSpace
  <2>4. /\ SpaceCount(u) = SpaceCount(s2) /\ u.crashed = s2.crashed /\ IsLive(u, n)
        /\ \A k \in 1 .. SpaceCount(s2) : k # n => u.ns[k] = s2.ns[k]
    BY <2>2 DEF Binds, SpaceSet, SameRest
  <2>5. SpaceCount(s) \in Nat
    BY ShapeIs DEF Sound
  <2>6. SpacesStay(s, u)
    <3> SUFFICES ASSUME NEW k, IsLive(s, k) PROVE IsLive(u, k)
      BY DEF SpacesStay
    <3>1. k \in 1 .. SpaceCount(s) /\ k \in 1 .. SpaceCount(s2)
      BY <2>3, <2>5 DEF IsLive
    <3>2. k # n => u.ns[k] = s.ns[k]
      BY <2>3, <2>4, <3>1
    <3> QED BY <2>4, <3>1, <3>2 DEF IsLive
  <2>7. IsLive(u, m)
    <3>1. m \in 1 .. SpaceCount(u) /\ m \in 1 .. SpaceCount(s2) /\ m # n
      BY <2>2, <2>3, <2>4, <2>5 DEF IsLive
    <3>2. u.ns[m] = s2.ns[m]
      BY <2>4, <3>1
    <3> QED BY <2>3, <3>1, <3>2 DEF IsLive, Alive
  <2>8. ~u.crashed
    BY <2>3, <2>4
  <2>9. Quiet(s, u)
    BY <1>1, <2>1, <2>6 DEF Quiet, u
  <2> QED BY <2>7, <2>8, <2>9 DEF Arrives, u, m
<1> QED BY <1>2, <1>3

LEMMA ForcedArrives ==
  ASSUME Accounted, ~store.crashed, IsLive(store, parse.global_ns), NEW path \in Seq(Names)
  PROVE  Arrives(store, Forced(path))
<1> DEFINE max == Len(path)
           b == [s |-> store, v |-> parse.global_ns]
           forced == CHOOSE forced : forced = [i \in 0 .. max |->
             IF i = 0 THEN b
             ELSE IF forced[i - 1].v = NULL THEN forced[i - 1]
             ELSE ForceSubnamespace1(forced[i - 1].s, forced[i - 1].v, path[i])]
<1>1. Forced(path) = forced[max]
  BY DEF Forced
<1>2. max \in Nat
  BY LenProperties
<1>3. Sound(store) /\ Solvent(store)
  BY AccountedIs
<1>4. Arrives(store, b)
  BY <1>3, QuietIs DEF Arrives
<1> HIDE DEF max, b
<1>5. PICK g : Steps(g, "force on", path, NULL, NULL, NULL, b, max)
  BY <1>2, StepsExist
<1>6. g = [i \in 0 .. max |->
             IF i = 0 THEN b
             ELSE IF g[i - 1].v = NULL THEN g[i - 1]
             ELSE ForceSubnamespace1(g[i - 1].s, g[i - 1].v, path[i])]
  BY <1>5 DEF Steps, Step
<1>7. forced = [i \in 0 .. max |->
             IF i = 0 THEN b
             ELSE IF forced[i - 1].v = NULL THEN forced[i - 1]
             ELSE ForceSubnamespace1(forced[i - 1].s, forced[i - 1].v, path[i])]
  BY <1>6
<1> HIDE DEF forced
<1> DEFINE T == {i \in 0 .. max : Arrives(store, forced[i])}
<1>8. 0 \in T
  BY <1>2, <1>4, <1>7
<1>9. ASSUME NEW i \in 1 .. max, i - 1 \in T PROVE i \in T
  <2> DEFINE r == forced[i - 1]
             v == forced[i]
  <2>1. i \in 0 .. max /\ i # 0 /\ path[i] \in Names
    BY <1>2, ElementOfSeq DEF max
  <2>2. v = IF r.v = NULL THEN r ELSE ForceSubnamespace1(r.s, r.v, path[i])
    BY <1>7, <2>1
  <2>3. Arrives(store, r)
    BY <1>9
  <2> HIDE DEF r, v
  <2>4. Arrives(store, v)
    <3>1. CASE r.v = NULL
      BY <2>2, <2>3, <3>1
    <3>2. CASE r.v # NULL
      <4>1. Sound(r.s) /\ Solvent(r.s) /\ ~r.s.crashed /\ IsLive(r.s, r.v)
        BY <1>3, <2>3, <3>2, QuietSolvent DEF Arrives, Quiet, Becomes
      <4>2. Arrives(r.s, v)
        BY <2>1, <2>2, <3>2, <4>1, ForceArrives
      <4>3. Quiet(store, v.s)
        BY <1>3, <2>3, <4>2, QuietIs DEF Arrives
      <4> QED BY <4>2, <4>3 DEF Arrives
    <3> QED BY <3>1, <3>2
  <2> QED BY <2>1, <2>4 DEF v
<1>10. 0 .. max \subseteq T
  <2> HIDE DEF T
  <2> QED BY <1>2, <1>8, <1>9, IndexInduction
<1>11. max \in T
  <2> HIDE DEF T
  <2> QED BY <1>2, <1>10
<1> QED BY <1>1, <1>11

-----------------------------------------------------------------------------
(* References that nobody will give back                                   *)

LEMMA UsesAppend ==
  ASSUME NEW q, IsList(q), NEW e, NEW x
  PROVE  Uses(Append(q, e), x) = Uses(q, x) + More(x, e, 1)
<1> DEFINE a == Append(q, e)
           L == Len(q)
           S == {i \in DOMAIN q : q[i] = x}
           T == {i \in DOMAIN a : a[i] = x}
<1>1. /\ L \in Nat /\ DOMAIN q = 1 .. L /\ IsList(a) /\ Len(a) = L + 1
      /\ a[L + 1] = e /\ \A i \in 1 .. L : a[i] = q[i]
  BY ListIs
<1>2. DOMAIN a = 1 .. L + 1
  BY <1>1, ListIs
<1>3. Uses(a, x) = Cardinality(T) /\ Uses(q, x) = Cardinality(S)
  BY DEF Uses
<1> HIDE DEF a, L
<1>4. IsFiniteSet(S)
  <2>1. IsFiniteSet(1 .. L)
    BY <1>1, FS_Interval
  <2> QED BY <1>1, <2>1, FS_Subset
<1>5. L + 1 \notin S /\ T = IF x = e THEN S \cup {L + 1} ELSE S
  BY <1>1, <1>2
<1> HIDE DEF S, T
<1>6. Cardinality(S) \in Nat /\ Cardinality(S \cup {L + 1}) = Cardinality(S) + 1
  BY <1>4, <1>5, FS_AddElement, FS_CardinalityType
<1>7. Uses(a, x) = Uses(q, x) + More(x, e, 1)
  BY <1>3, <1>5, <1>6 DEF More
<1> QED BY <1>7 DEF a

Leaked(s, e) == [s EXCEPT !.leaks = Append(@, e)]

LEMMA LeakIs ==
  ASSUME NEW s, Sound(s), NEW e, NEW u, u = Leaked(s, e)
  PROVE  /\ Becomes(s, u) /\ u.ns = s.ns /\ u.fmt = s.fmt /\ u.crashed = s.crashed
         /\ u.leaks = Append(s.leaks, e) /\ \A x : Bal(u, x) = Bal(s, x)
<1> DEFINE q == Append(s.leaks, e)
<1>1. Shape(s) /\ IsList(q)
  BY ListIs DEF Sound, Shape
<1>2. u = [ns |-> s.ns, fmt |-> s.fmt, global |-> s.global, crashed |-> s.crashed,
           leaks |-> q]
  BY <1>1 DEF Shape, Leaked
<1> HIDE DEF q
<1>3. /\ u.ns = s.ns /\ u.fmt = s.fmt /\ u.crashed = s.crashed /\ u.leaks = q
      /\ u.global = s.global
      /\ u = [ns |-> u.ns, fmt |-> u.fmt, global |-> u.global, crashed |-> u.crashed,
              leaks |-> u.leaks]
  BY ONLY <1>2
<1>4. SpaceCount(u) = SpaceCount(s) /\ FormatCount(u) = FormatCount(s)
  BY <1>3 DEF SpaceCount, FormatCount
<1>5. Shape(u)
  BY <1>1, <1>3, <1>4 DEF Shape
<1>6. \A x : Refers(s, x) <=> Refers(u, x)
  BY <1>4 DEF Refers
<1>7. Sound(u)
  <2>1. \A t : TreeSound(s, t) => TreeSound(u, t)
    BY <1>6 DEF TreeSound
  <2>2. \A o : MembersSound(s, o) => MembersSound(u, o)
    BY <1>4 DEF MembersSound
  <2>3. \A o, f : LeadsTo(s, o, f) => LeadsTo(u, o, f)
    BY <1>3, <1>4 DEF LeadsTo
  <2> QED BY ONLY Sound(s), <1>3, <1>4, <1>5, <2>1, <2>2, <2>3 DEF Sound
<1>8. Evolves(s, u)
  <2>1. Evolves(s, s)
    BY EvolvesIs
  <2> QED BY <1>3, <1>4, <2>1 DEF Evolves
<1>9. \A x : Bal(u, x) = Bal(s, x)
  <2>1. \A E : ListedIn(u, E) = ListedIn(s, E) /\ MembersIn(u, E) = MembersIn(s, E)
    <3> SUFFICES ASSUME NEW E
                 PROVE  ListedIn(u, E) = ListedIn(s, E) /\ MembersIn(u, E) = MembersIn(s, E)
      OBVIOUS
    <3>1. u.ns = s.ns => ListedIn(u, E) = ListedIn(s, E)
      BY <1>7, ListedChange
    <3>2. u.fmt = s.fmt => MembersIn(u, E) = MembersIn(s, E)
      BY <1>7, ListedChange
    <3> QED BY <1>3, <3>1, <3>2
  <2>2. \A x : Object(u, x) = Object(s, x)
    BY <1>3 DEF Object, KindOf
  <2>3. \A x : Owed(u, x) = Owed(s, x)
    BY <1>3, <2>1 DEF Owed
  <2> QED BY <1>6, <2>2, <2>3 DEF Bal
<1> QED BY <1>3, <1>7, <1>8, <1>9 DEF Becomes, q

(* A call that takes a reference that it keeps to itself.                  *)
LEMMA LeakCounts ==
  ASSUME Accounted, NEW s, Becomes(store, s), NEW e, Refers(s, e), s.leaks = store.leaks,
         ~s.crashed => \A x : Bal(s, x) = Bal(store, x) + More(x, e, 1),
         NEW u, u = Leaked(s, e), Returns(u), UNCHANGED held
  PROVE  Accounted'
<1>1. Sound(store) /\ Sound(s) /\ LeaksSound(store) /\ StoreSound
  BY DEF Accounted, StoreSound, Becomes
<1>2. /\ Becomes(s, u) /\ u.ns = s.ns /\ u.fmt = s.fmt /\ u.crashed = s.crashed
      /\ u.leaks = Append(store.leaks, e) /\ \A x : Bal(u, x) = Bal(s, x)
  <2>1. /\ Becomes(s, u) /\ u.ns = s.ns /\ u.fmt = s.fmt /\ u.crashed = s.crashed
        /\ u.leaks = Append(s.leaks, e)
    BY <1>1, LeakIs
  <2>2. \A x : Bal(u, x) = Bal(s, x)
    BY <1>1, LeakIs
  <2> QED BY <2>1, <2>2
<1>3. Becomes(store, u) /\ Sound(u)
  BY <1>1, <1>2, EvolvesIs DEF Becomes
<1>4. StoreSound'
  BY <1>1, <1>3, CallReturns
<1>5. store' = u /\ ~store.crashed /\ Within(u)
  BY DEF Returns, Within, SpaceCount, FormatCount
<1>6. \A x : Refers(u, x) <=> Refers(s, x)
  BY <1>2 DEF Refers, SpaceCount, FormatCount
<1>7. ASSUME ~u.crashed, NEW x, Refers(u, x)
      PROVE  Bal(u, x) = HeldBy(held, x) + Uses(u.leaks, x)
  <2>1. /\ Bal(store, x) = HeldBy(held, x) + Uses(store.leaks, x)
        /\ HeldBy(held, x) \in Int
    BY <1>3, <1>5, <1>7, BalanceOf
  <2>2. Bal(u, x) = Bal(store, x) + More(x, e, 1)
    BY <1>2, <1>7
  <2>3. Uses(u.leaks, x) = Uses(store.leaks, x) + More(x, e, 1)
    BY <1>1, <1>2, UsesAppend DEF LeaksSound
  <2>4. Uses(store.leaks, x) \in Int /\ More(x, e, 1) \in Int
    BY <1>1, UsesAre DEF More
  <2> QED BY <2>1, <2>2, <2>3, <2>4
<1>8. LeaksSound(u)
  <2> DEFINE q == store.leaks
             a == Append(q, e)
  <2>1. \A x : Refers(store, x) => Refers(u, x)
    <3>1. SpaceCount(store) <= SpaceCount(u) /\ FormatCount(store) <= FormatCount(u)
          /\ SpaceCount(store) \in Nat /\ FormatCount(store) \in Nat
          /\ SpaceCount(u) \in Nat /\ FormatCount(u) \in Nat
      BY <1>1, <1>3, ShapeIs DEF Becomes, Evolves, Sound
    <3> QED BY <3>1 DEF Refers
  <2>2. IsList(q) /\ \A i \in 1 .. Len(q) : Refers(u, q[i])
    BY <1>1, <2>1 DEF LeaksSound
  <2>3. Refers(u, e)
    BY <1>6
  <2>4. u.leaks = a
    BY <1>2
  <2> HIDE DEF q
  <2>5. /\ IsList(a) /\ Len(a) = Len(q) + 1 /\ a[Len(q) + 1] = e /\ Len(q) \in Nat
        /\ \A i \in 1 .. Len(q) : a[i] = q[i]
    BY <2>2, ListIs
  <2> HIDE DEF a
  <2>6. \A i \in 1 .. Len(a) : i \in 1 .. Len(q) \/ i = Len(q) + 1
    BY <2>5
  <2> QED BY <2>2, <2>3, <2>4, <2>5, <2>6 DEF LeaksSound
<1>9. Exact(u, held')
  BY <1>7 DEF Exact
<1> QED BY <1>4, <1>5, <1>8, <1>9 DEF Accounted

-----------------------------------------------------------------------------
(* A stanza that is complete                                               *)

ItemsSound(s, items) ==
  IsList(items) /\ \A i \in 1 .. Len(items) : items[i].format \in 1 .. FormatCount(s) \cup {NULL}

LEMMA FormatsOfAre ==
  ASSUME NEW s, NEW kind, NEW items, ItemsSound(s, items)
  PROVE  MayHave(s, FormatsOf(kind, items)) /\ TypeOf(kind) # "ARRAY"
<1>1. Len(items) \in Nat /\ DOMAIN items = 1 .. Len(items)
  BY ListIs DEF ItemsSound
<1> DEFINE m == Len(items)
           q == [i \in 1 .. m |-> items[i].format]
<1>2. MayHave(s, q)
  <2> HIDE DEF m
  <2>1. Len(q) = m /\ m \in Nat
    BY <1>1 DEF m
  <2>2. IsList(q)
    BY <2>1 DEF IsList
  <2>3. \A i \in 1 .. m : q[i] \in 1 .. FormatCount(s) \cup {NULL}
    BY DEF ItemsSound, m
  <2> HIDE DEF q
  <2> QED BY <2>1, <2>2, <2>3 DEF MayHave
<1>3. FormatsOf(kind, items) = <<>> \/ FormatsOf(kind, items) = q
  BY <1>1 DEF FormatsOf
<1>4. TypeOf(kind) # "ARRAY"
  BY DEF TypeOf
<1> QED BY <1>2, <1>3, <1>4, NoMembers

LEMMA BindingSpacesStay ==
  ASSUME NEW s, Sound(s), NEW n, IsLive(s, n), NEW name \in Names, NEW f \in 1 .. FormatCount(s),
         NEW u, u = s \/ FormatBound(s, u, n, name, f)
  PROVE  SpacesStay(s, u)
<1>1. CASE u = s
  BY <1>1 DEF SpacesStay
<1>2. CASE FormatBound(s, u, n, name, f)
  <2>1. PICK s0 : /\ Binds(s, s0, n, name, Entry("FORMAT", f))
                  /\ \/ u = FormatRef(s0, f)
                     \/ Crashed(FormatRef(s0, f), u)
                     \/ FieldsSet(FormatRef(s0, f), u, f)
    BY <1>2 DEF FormatBound
  <2>2. Sound(s0) /\ f \in 1 .. FormatCount(s0)
    BY <2>1 DEF Binds, Becomes, SpaceSet, FormatCount
  <2> DEFINE s1 == FormatRef(s0, f)
  <2>3. s1.ns = s0.ns
    BY <2>2, FormatRefKept DEF RefKept
  <2>4. u.ns = s1.ns
    BY <2>1 DEF Crashed, FieldsSet, FormatSet
  <2> HIDE DEF s1
  <2>5. u.ns = s0.ns
    BY <2>3, <2>4
  <2>6. SpaceCount(u) = SpaceCount(s)
    BY <2>1, <2>5 DEF Binds, SpaceSet, SpaceCount
  <2> SUFFICES ASSUME NEW m, IsLive(s, m) PROVE IsLive(u, m)
    BY DEF SpacesStay
  <2>7. CASE m = n
    BY <2>1, <2>5, <2>6, <2>7 DEF Binds, IsLive
  <2>8. CASE m # n
    BY <2>1, <2>5, <2>6, <2>8 DEF Binds, SpaceSet, IsLive
  <2> QED BY <2>7, <2>8
<1> QED BY <1>1, <1>2

LEMMA NamedIs ==
  ASSUME Accounted, NEW n, IsLive(store, n), NEW name \in Names, NEW members, MayHave(store, members),
         NEW type, type # "ARRAY",
         NEW s1, s1 = NewFormat(store, type, members), NEW f, f = Made(s1),
         NEW s2, s2 = AddFormat(s1, n, name, f, TRUE), NEW e, e = Entry("FORMAT", f)
  PROVE  /\ Becomes(store, s2) /\ Refers(s2, e) /\ Settles(store, s2, e, 1)
         /\ SpacesStay(store, s2)
<1>1. Sound(store)
  BY AccountedIs
<1>2. FormatMade(store, s1, type, members)
  BY <1>1, NewFormatMakes
<1>3. /\ f = FormatCount(s1) /\ s1.ns = store.ns /\ Becomes(store, s1) /\ Sound(s1)
      /\ FormatCount(s1) = FormatCount(store) + 1
  BY <1>2 DEF FormatMade, Made, FormatCount, Becomes
<1>4. f \in 1 .. FormatCount(s1)
  BY <1>1, <1>3, ShapeIs DEF Sound
<1>5. IsLive(s1, n) /\ SpacesStay(store, s1)
  BY <1>3 DEF IsLive, SpaceCount, SpacesStay
<1>6. Settles(store, s1, e, 1)
  <2> DEFINE d == IF type = "ARRAY" THEN 0 ELSE 1
             k == FormatCount(s1)
  <2>1. Settles(store, s1, Entry("FORMAT", k), d)
    BY <1>1, <1>2, FormatMadeSettles
  <2>2. k = f /\ d = 1
    BY <1>3
  <2> HIDE DEF d, k
  <2> QED BY <2>1, <2>2
<1>7. /\ Becomes(s1, s2) /\ FormatCount(s2) = FormatCount(s1)
      /\ s2 = s1 \/ FormatBound(s1, s2, n, name, f)
  <2> DEFINE canonical == TRUE
  <2>1. s2 = AddFormat(s1, n, name, f, canonical)
    OBVIOUS
  <2> HIDE DEF canonical
  <2> QED BY ONLY <1>3, <1>4, <1>5, <2>1, name \in Names, AddFormatBinds
<1>8. Settles(s1, s2, e, 0)
  <2>1. CASE s2 = s1
    BY ONLY <1>3, <2>1, SettlesTwice
  <2>2. CASE FormatBound(s1, s2, n, name, f)
    BY ONLY <1>3, <1>4, <2>2, FormatBoundSettles
  <2> QED BY <1>7, <2>1, <2>2
<1>9. Settles(store, s2, e, 1)
  BY ONLY <1>1, <1>6, <1>8, SettlesTwice
<1>10. SpacesStay(s1, s2)
  BY ONLY <1>3, <1>4, <1>5, <1>7, name \in Names, BindingSpacesStay
<1>11. Becomes(store, s2) /\ Refers(s2, e)
  BY <1>1, <1>3, <1>4, <1>7, EvolvesIs, EntryIs DEF Becomes
<1> QED BY <1>5, <1>9, <1>10, <1>11 DEF SpacesStay

(* What is named is given back, or leaked, and the balances are as before. *)
LEMMA StanzaCounts ==
  ASSUME Accounted, IsLive(store, parse.this_ns), NEW kind, NEW name \in Names,
         NEW items, ItemsSound(store, items), NEW u, u = MakeAndBind(store, kind, name, items),
         Returns(u), UNCHANGED held
  PROVE  Accounted' /\ Becomes(store, u) /\ SpacesStay(store, u)
<1> DEFINE n == parse.this_ns
           type == TypeOf(kind)
           members == FormatsOf(kind, items)
           s1 == NewFormat(store, type, members)
           f == Made(s1)
           s2 == AddFormat(s1, n, name, f, TRUE)
           e == Entry("FORMAT", f)
<1>1. Sound(store) /\ Solvent(store)
  BY AccountedIs
<1>2. \/ u = Crash(store)
      \/ u = Leaked(s2, e)
      \/ u = GiveBack(s2, e)
  BY DEF MakeAndBind, Leaked, FormatUnref
<1>3. MayHave(store, members) /\ type # "ARRAY"
  BY FormatsOfAre
<1>4. /\ Becomes(store, s2) /\ Refers(s2, e) /\ Settles(store, s2, e, 1)
      /\ SpacesStay(store, s2)
  <2> HIDE DEF type, members
  <2> QED BY ONLY Accounted, IsLive(store, n), name \in Names, <1>3, NamedIs
<1>5. e.type = "FORMAT"
  BY NumbersAre
<1> HIDE DEF type, members, s1, f, s2, e
<1>6. CASE u = Crash(store)
  <2>1. Crashed(store, u)
    BY <1>1, <1>6, CrashIs DEF Sound
  <2>2. Becomes(store, u)
    BY <1>1, <2>1, CrashSound
  <2>3. Moves(store, u, e, 0)
    BY <2>1, CrashSettles, SettlesMoves
  <2>4. SpacesStay(store, u)
    BY <2>1 DEF SpacesStay, IsLive, Crashed, SpaceCount
  <2> QED BY <2>2, <2>3, <2>4, CallCounts
<1>7. CASE u = Leaked(s2, e)
  <2>1. /\ s2.leaks = store.leaks
        /\ ~s2.crashed => \A x : Bal(s2, x) = Bal(store, x) + More(x, e, 1)
    BY <1>4 DEF Settles
  <2>2. Accounted'
    BY <1>4, <1>7, <2>1, LeakCounts
  <2>3. Becomes(s2, u) /\ u.ns = s2.ns
    BY <1>4, <1>7, LeakIs DEF Becomes
  <2>4. Becomes(store, u)
    BY <1>1, <1>4, <2>3, EvolvesIs DEF Becomes
  <2>5. SpacesStay(store, u)
    BY <1>4, <2>3 DEF SpacesStay, IsLive, SpaceCount
  <2> QED BY <2>2, <2>4, <2>5
<1>8. CASE u = GiveBack(s2, e)
  <2>1. Sound(s2)
    BY <1>4 DEF Becomes
  <2>2. Becomes(s2, u) /\ SpacesKept(s2, u)
    BY <1>4, <1>5, <1>8, <2>1, GiveBackKeeps
  <2>3. ~s2.crashed => \A x : Refers(s2, x) => Bal(s2, x) >= More(x, e, 1)
    <3> SUFFICES ASSUME ~s2.crashed, NEW x PROVE Bal(s2, x) >= More(x, e, 1)
      OBVIOUS
    <3>1. Bal(s2, x) = Bal(store, x) + More(x, e, 1) /\ Bal(store, x) >= 0
      BY <1>1, <1>4 DEF Settles, Solvent
    <3>2. Bal(store, x) \in Int /\ More(x, e, 1) \in Int
      BY <1>1, BalIs DEF More
    <3> QED BY <3>1, <3>2
  <2>4. Settles(s2, u, e, -1)
    BY <1>4, <1>8, <2>1, <2>3, GiveBackSettles
  <2>5. Settles(store, u, e, 1 + (-1))
    BY <1>1, <1>4, <2>4, SettlesTwice
  <2>6. Moves(store, u, e, 0)
    BY <2>5, SettlesMoves
  <2>7. Becomes(store, u)
    BY <1>1, <1>4, <2>2, EvolvesIs DEF Becomes
  <2>8. SpacesStay(store, u)
    BY <1>4, <2>2 DEF SpacesKept, SpacesStay, IsLive, SpaceCount
  <2>9. Accounted'
    BY <2>6, <2>7, CallCounts
  <2> QED BY <2>7, <2>8, <2>9
<1> QED BY <1>2, <1>6, <1>7, <1>8

-----------------------------------------------------------------------------
(* The parser: what it has read is good, and the namespaces that it works  *)
(* in are there, for the caller waits.                                     *)

Working(p) == p.status \in {"header", "stanzas"}
ParserWhole(s, p) ==
  /\ p = [status |-> p.status, text |-> p.text, tokens |-> p.tokens, at |-> p.at,
          global_ns |-> p.global_ns, this_ns |-> p.this_ns, before |-> p.before,
          stanza |-> p.stanza, name |-> p.name, items |-> p.items]
  /\ GoodTokens(p.tokens) /\ p.at \in 0 .. Len(p.tokens)
  /\ IsLive(s, p.global_ns)
  /\ p.status = "stanzas" => IsLive(s, p.this_ns)
  /\ p.stanza # NULL => p.name \in Names
  /\ ItemsSound(s, p.items)
ParserSound(s, p) == ~s.crashed /\ Working(p) => ParserWhole(s, p)

(* What is so of the two together, and what a step does to them.           *)
DescriptionSound == Accounted /\ ParserSound(store, parse)
Carries == Accounted' /\ Becomes(store, store') /\ ParserSound(store', parse')

LEMMA CarriedOn ==
  ASSUME NEW s, Sound(s), NEW u, Becomes(s, u), SpacesStay(s, u), NEW p, ParserWhole(s, p)
  PROVE  ParserWhole(u, p)
<1>1. \A items : ItemsSound(s, items) => ItemsSound(u, items)
  <2>1. FormatCount(s) <= FormatCount(u) /\ FormatCount(s) \in Nat /\ FormatCount(u) \in Nat
    BY ShapeIs DEF Becomes, Evolves, Sound
  <2> QED BY <2>1 DEF ItemsSound
<1> QED BY <1>1 DEF ParserWhole, SpacesStay

LEMMA NothingChanges ==
  ASSUME Accounted, UNCHANGED <<store, held>>
  PROVE  Accounted' /\ Becomes(store, store')
<1>1. Sound(store)
  BY AccountedIs
<1>2. Becomes(store, store')
  BY <1>1, EvolvesIs DEF Becomes
<1> QED BY <1>2 DEF Accounted, StoreSound

(* A parser that gives up, and a process that ends.                        *)
LEMMA EndsIs ==
  ASSUME NEW s, NEW p, ParserWhole(s, p), NEW q, NEW status,
         q = [p EXCEPT !.status = status], status \notin {"header", "stanzas"}, NEW u
  PROVE  ParserSound(u, q)
<1>1. q.status = status
  BY DEF ParserWhole
<1> QED BY <1>1 DEF ParserSound, Working

LEMMA LeftIs ==
  ASSUME NEW s, ParserWhole(s, parse)
  PROVE  /\ GoodTokens(Left) /\ Len(Left) = Len(parse.tokens) - parse.at
         /\ Len(Left) \in Nat /\ parse.at \in Nat /\ Len(parse.tokens) \in Nat
<1> DEFINE q == parse.tokens
           k == parse.at
           l == SubSeq(q, k + 1, Len(q))
<1>1. GoodTokens(q) /\ k \in 0 .. Len(q) /\ IsList(q) /\ Len(q) \in Nat
  BY ListIs DEF ParserWhole, GoodTokens
<1>2. Left = l
  BY DEF Left
<1> HIDE DEF q, k
<1>3. PICK S : q \in Seq(S)
  BY <1>1, ListIs
<1>4. /\ l \in Seq(S) /\ Len(l) = Len(q) - k
      /\ \A i \in 1 .. Len(q) - k : l[i] = q[k + i]
  BY <1>1, <1>3, CutSeq
<1> HIDE DEF l
<1>5. IsList(l)
  BY <1>4, ListOfSeq
<1>6. \A i \in 1 .. Len(l) : WordToken(l[i])
  <2> SUFFICES ASSUME NEW i \in 1 .. Len(l) PROVE WordToken(l[i])
    OBVIOUS
  <2>1. k + i \in 1 .. Len(q) /\ l[i] = q[k + i]
    BY <1>1, <1>4
  <2> QED BY <1>1, <2>1 DEF GoodTokens
<1>7. GoodTokens(l) /\ Len(l) = Len(q) - k /\ Len(l) \in Nat
  BY <1>1, <1>4, <1>5, <1>6 DEF GoodTokens
<1> QED BY <1>1, <1>2, <1>7 DEF q, k

(* A step of the parser that leaves the heap alone and only goes on.       *)
LEMMA PassesOn ==
  ASSUME DescriptionSound, Working(parse), UNCHANGED <<store, held>>, NEW n \in Nat,
         ParserWhole(store, parse) => parse.at + n <= Len(parse.tokens), Passes(n)
  PROVE  Carries
<1>1. Accounted' /\ Becomes(store, store')
  BY NothingChanges DEF DescriptionSound
<1>2. ParserSound(store', parse')
  <2> SUFFICES ASSUME ~store.crashed PROVE ParserWhole(store, parse')
    BY DEF ParserSound
  <2>1. ParserWhole(store, parse)
    BY DEF DescriptionSound, ParserSound
  <2>2. Len(parse.tokens) \in Nat /\ parse.at \in Nat
    BY <2>1, LeftIs
  <2> DEFINE k == parse.at + n
  <2>3. k \in 0 .. Len(parse.tokens)
    BY <2>1, <2>2
  <2>4. parse' = [parse EXCEPT !.at = k]
    BY DEF Passes
  <2> HIDE DEF k
  <2>5. parse' = [status |-> parse.status, text |-> parse.text, tokens |-> parse.tokens, at |-> k,
                  global_ns |-> parse.global_ns, this_ns |-> parse.this_ns, before |-> parse.before,
                  stanza |-> parse.stanza, name |-> parse.name, items |-> parse.items]
    BY <2>1, <2>4 DEF ParserWhole
  <2> DEFINE p == parse'
  <2>6. p = [status |-> parse.status, text |-> parse.text, tokens |-> parse.tokens, at |-> k,
                  global_ns |-> parse.global_ns, this_ns |-> parse.this_ns, before |-> parse.before,
                  stanza |-> parse.stanza, name |-> parse.name, items |-> parse.items]
    BY <2>5
  <2> HIDE DEF p
  <2>7. ParserWhole(store, p)
    BY ONLY <2>1, <2>3, <2>6 DEF ParserWhole
  <2> QED BY <2>7 DEF p
<1> QED BY <1>1, <1>2 DEF Carries

LEMMA SeesIs ==
  ASSUME NEW type, Sees(type)
  PROVE  parse.at + 1 <= Len(parse.tokens)
BY DEF Sees, Has

LEMMA SkipsCarry ==
  ASSUME DescriptionSound, skip_semicolon \/ skip_separator
  PROVE  Carries
<1>1. /\ Working(parse) /\ UNCHANGED <<store, held>> /\ Passes(1)
      /\ \E type : Sees(type)
  BY DEF skip_semicolon, skip_separator, StanzaLoop, InStanza, Skips, Working
<1>2. parse.at + 1 <= Len(parse.tokens)
  BY <1>1, SeesIs
<1> DEFINE n == 1
<1>3. n \in Nat /\ Passes(n) /\ parse.at + n <= Len(parse.tokens)
  BY <1>1, <1>2
<1> HIDE DEF n
<1> QED BY <1>1, <1>3, PassesOn

LEMMA StopsCarry ==
  ASSUME DescriptionSound, Working(parse), UNCHANGED <<store, held>>,
         NEW status, status \notin {"header", "stanzas"}, Ends(status)
  PROVE  Carries
<1>1. Accounted' /\ Becomes(store, store')
  BY NothingChanges DEF DescriptionSound
<1>2. ParserSound(store', parse')
  <2> SUFFICES ASSUME ~store.crashed PROVE ParserSound(store, parse')
    BY DEF ParserSound
  <2>1. ParserWhole(store, parse)
    BY DEF DescriptionSound, ParserSound
  <2>2. parse' = [parse EXCEPT !.status = status]
    BY DEF Ends
  <2> QED BY <2>1, <2>2, EndsIs
<1> QED BY <1>1, <1>2 DEF Carries

LEMMA CrashesCarry ==
  ASSUME DescriptionSound, Crashes, UNCHANGED held
  PROVE  Carries
<1> DEFINE u == Crash(store)
<1>1. Sound(store) /\ Accounted
  BY AccountedIs DEF DescriptionSound
<1>2. Crashed(store, u) /\ Becomes(store, u)
  BY <1>1, CrashIs, CrashSound DEF Sound
<1>3. Returns(u)
  BY DEF Crashes
<1> HIDE DEF u
<1>4. Moves(store, u, NULL, 0)
  BY <1>2, CrashSettles, SettlesMoves
<1>5. Accounted' /\ store' = u
  BY <1>1, <1>2, <1>3, <1>4, CallCounts DEF Returns
<1> QED BY <1>2, <1>5 DEF Carries, ParserSound, Crashed

LEMMA BeginCarries ==
  ASSUME DescriptionSound, begin_stanza
  PROVE  Carries
<1>1. parse.status = "stanzas" /\ UNCHANGED <<store, held>> /\ Working(parse)
  BY DEF begin_stanza, StanzaLoop, Working
<1> DEFINE goes == /\ Left[1].type \in Stanzas
                   /\ Len(Left) > 2 /\ Left[3].type = "{"
                   /\ IF Left[1].type \in {"struct", "message"} THEN Left[2].type = "BAREWORD"
                      ELSE IsBareword(Left[2])
<1>2. CASE ~goes
  <2>1. Ends("refused")
    BY <1>2 DEF begin_stanza
  <2> QED BY <1>1, <2>1, StopsCarry
<1>3. CASE goes
  <2>1. Accounted' /\ Becomes(store, store')
    BY <1>1, NothingChanges DEF DescriptionSound
  <2>2. ParserSound(store', parse')
    <3> SUFFICES ASSUME ~store.crashed PROVE ParserWhole(store, parse')
      BY <1>1 DEF ParserSound
    <3>1. ParserWhole(store, parse)
      BY <1>1 DEF DescriptionSound, ParserSound
    <3>2. /\ GoodTokens(Left) /\ Len(Left) = Len(parse.tokens) - parse.at
          /\ Len(Left) \in Nat /\ parse.at \in Nat /\ Len(parse.tokens) \in Nat
      BY <3>1, LeftIs
    <3> DEFINE k == parse.at + 3
               kind == Left[1].type
               name == Left[2].text
               empty == <<>>
    <3>3. k \in 0 .. Len(parse.tokens) /\ 2 \in 1 .. Len(Left)
      <4>1. Len(Left) > 2
        BY <1>3
      <4> QED BY ONLY <3>2, <4>1
    <3>4. name \in Names
      <4>1. IsBareword(Left[2])
        BY <1>3 DEF IsBareword
      <4> QED BY <3>2, <3>3, <4>1 DEF GoodTokens, WordToken
    <3>5. ItemsSound(store, empty)
      <4>1. IsList(<<>>) /\ Len(<<>>) = 0
        BY EmptySeq, ListOfSeq
      <4> QED BY <4>1 DEF ItemsSound
    <3>6. parse' = [parse EXCEPT !.stanza = kind, !.name = name, !.items = empty, !.at = k]
      BY <1>3 DEF begin_stanza
    <3> HIDE DEF k, kind, name, empty, goes
    <3>7. parse' = [status |-> parse.status, text |-> parse.text, tokens |-> parse.tokens, at |-> k,
                    global_ns |-> parse.global_ns, this_ns |-> parse.this_ns,
                    before |-> parse.before, stanza |-> kind, name |-> name, items |-> empty]
      BY <3>1, <3>6 DEF ParserWhole
    <3> DEFINE p == parse'
    <3>8. p = [status |-> parse.status, text |-> parse.text, tokens |-> parse.tokens, at |-> k,
               global_ns |-> parse.global_ns, this_ns |-> parse.this_ns,
               before |-> parse.before, stanza |-> kind, name |-> name, items |-> empty]
      BY <3>7
    <3> HIDE DEF p
    <3>9. ParserWhole(store, p)
      BY ONLY <3>1, <3>3, <3>4, <3>5, <3>8 DEF ParserWhole
    <3> QED BY <3>9 DEF p
  <2> QED BY <2>1, <2>2 DEF Carries
<1> QED BY <1>2, <1>3

LEMMA EndsCarry ==
  ASSUME DescriptionSound, end_of_text \/ stanza_cut_off
  PROVE  Carries
<1>1. Working(parse) /\ UNCHANGED <<store, held>> /\ (Ends("ok") \/ Ends("refused"))
  BY DEF end_of_text, stanza_cut_off, StanzaLoop, InStanza, Working
<1> QED BY <1>1, StopsCarry

-----------------------------------------------------------------------------
(* What is read of one member, value, field or case                        *)

(* It uses tokens that are there, and has a format that is.                *)
Typed1(s, v) == v \in 1 .. FormatCount(s) \cup {NULL}
ItemRead(s, r, n) ==
  /\ Quiet(s, r.s) /\ r.used \in Nat
  /\ r.used # 0 => r.used <= n /\ Typed1(r.s, r.v.format)

LEMMA ItemReadIs ==
  ASSUME NEW s, NEW u, Quiet(s, u), NEW n
  PROVE  /\ ItemRead(s, Error(u), n)
         /\ \A used \in Nat : \A name, f, v :
              used <= n /\ Typed1(u, f) => ItemRead(s, Read(u, used, Item(name, f, v)), n)
BY DEF ItemRead, Error, Read, Item

LEMMA MemberIsRead ==
  ASSUME NEW s, NEW r, Quiet(s, r.s), r.used \in Nat, r.used # 0 => Typed1(r.s, r.v),
         NEW ts, Len(ts) \in Nat
  PROVE  /\ ItemRead(s, parse_struct_member(r, ts), Len(ts))
         /\ ItemRead(s, parse_union_case(r, ts), Len(ts))
<1> DEFINE n == r.used
           L == Len(ts)
<1>1. ItemRead(s, parse_struct_member(r, ts), L)
  <2>1. \/ parse_struct_member(r, ts) = Error(r.s)
        \/ /\ n > 0 /\ n + 2 <= L
           /\ parse_struct_member(r, ts) = Read(r.s, n + 2, Item(ts[n + 1].text, r.v, NULL))
    BY DEF parse_struct_member, Has
  <2> DEFINE k == n + 2
             name == ts[n + 1].text
  <2>2. \/ parse_struct_member(r, ts) = Error(r.s)
        \/ /\ n # 0 /\ k \in Nat /\ k <= L
           /\ parse_struct_member(r, ts) = Read(r.s, k, Item(name, r.v, NULL))
    BY <2>1
  <2> HIDE DEF k, name, L
  <2> QED BY <2>2, ItemReadIs
<1>2. ItemRead(s, parse_union_case(r, ts), L)
  <2> DEFINE valued == Has(ts, n + 2, "=")
             k == IF valued THEN n + 4 ELSE n + 2
             name == ts[n + 1].text
             v == IF valued THEN NumberValue[ts[n + 3].text] ELSE NULL
  <2>1. \/ parse_union_case(r, ts) = Error(r.s)
        \/ /\ n > 0 /\ k <= L
           /\ parse_union_case(r, ts) = Read(r.s, k, Item(name, r.v, v))
    BY DEF parse_union_case
  <2> HIDE DEF valued
  <2>2. k \in Nat /\ (n > 0 => n # 0)
    OBVIOUS
  <2> HIDE DEF k, name, v, L
  <2> QED BY <2>1, <2>2, ItemReadIs
<1> QED BY <1>1, <1>2

LEMMA ValueIsRead ==
  ASSUME NEW s, NEW u, Quiet(s, u), NEW ts, Len(ts) \in Nat
  PROVE  /\ ItemRead(s, EnumValue(u, ts), Len(ts))
         /\ ItemRead(s, PackedField(u, ts), Len(ts))
<1> DEFINE L == Len(ts)
<1>1. Typed1(u, NULL)
  BY DEF Typed1
<1>2. ItemRead(s, EnumValue(u, ts), L)
  <2> DEFINE valued == Has(ts, 2, "=")
             m == IF valued THEN 3 ELSE 1
             more == Has(ts, m + 1, ",")
             k == IF more THEN m + 1 ELSE m
             name == ts[1].text
             v == IF valued THEN NumberValue[ts[3].text] ELSE NULL
  <2>1. \/ EnumValue(u, ts) = Error(u)
        \/ /\ L > 1 /\ (valued => L > 2)
           /\ EnumValue(u, ts) = Read(u, k, Item(name, NULL, v))
    BY DEF EnumValue
  <2>2. L > 1 /\ (valued => L > 2) => k \in Nat /\ k <= L
    <3>1. more => m + 1 <= L
      BY DEF Has
    <3>2. L \in Nat
      OBVIOUS
    <3> HIDE DEF valued, more, L
    <3> QED BY ONLY <3>1, <3>2
  <2> HIDE DEF k, name, v, L
  <2> QED BY <1>1, <2>1, <2>2, ItemReadIs
<1>3. ItemRead(s, PackedField(u, ts), L)
  <2> DEFINE sized == Has(ts, 2, ":")
             m == IF sized THEN 3 ELSE 1
             more == Has(ts, m + 1, ";")
             k == IF more THEN m + 1 ELSE m
             name == ts[1].text
  <2>1. \/ PackedField(u, ts) = Error(u)
        \/ /\ L > 1 /\ (sized => L > 2)
           /\ PackedField(u, ts) = Read(u, k, Item(name, NULL, NULL))
    BY DEF PackedField
  <2>2. L > 1 /\ (sized => L > 2) => k \in Nat /\ k <= L
    <3>1. more => m + 1 <= L
      BY DEF Has
    <3>2. L \in Nat
      OBVIOUS
    <3> HIDE DEF sized, more, L
    <3> QED BY ONLY <3>1, <3>2
  <2> HIDE DEF k, name, L
  <2> QED BY <1>1, <2>1, <2>2, ItemReadIs
<1> QED BY <1>2, <1>3

LEMMA FormatIsTyped ==
  ASSUME Accounted, ~store.crashed, IsLive(store, parse.this_ns), IsLive(store, parse.global_ns),
         Len(Left) \in Nat, NEW kind, NEW junk, NEW r, r = format(kind, junk)
  PROVE  Quiet(store, r.s) /\ r.used \in Nat /\ (r.used # 0 => Typed1(r.s, r.v))
<1>1. Quiet(store, store)
  BY AccountedIs, QuietIs
<1>2. CASE r = Error(store)
  BY <1>1, <1>2 DEF Error, Read
<1>3. CASE r = Read(store, 1, NULL)
  BY <1>1, <1>3 DEF Read, Typed1
<1>4. CASE r = parse_format(store, Left, junk)
  <2> DEFINE ts == Left
  <2>1. Len(ts) \in Nat /\ r = parse_format(store, ts, junk)
    BY <1>4
  <2> HIDE DEF ts
  <2>2. FormatRead(store, r)
    BY <2>1, FormatIsRead
  <2> QED BY <2>2 DEF FormatRead, Typed1
<1> QED BY <1>2, <1>3, <1>4 DEF format

LEMMA ItemIsRead ==
  ASSUME Accounted, ~store.crashed, IsLive(store, parse.this_ns), IsLive(store, parse.global_ns),
         Len(Left) \in Nat, NEW kind, NEW junk
  PROVE  ItemRead(store, item(kind, format(kind, junk)), Len(Left))
<1> DEFINE ts == Left
           r == format(kind, junk)
           t == item(kind, r)
<1>1. Quiet(store, r.s) /\ r.used \in Nat /\ (r.used # 0 => Typed1(r.s, r.v))
  BY FormatIsTyped
<1>2. Quiet(store, store)
  BY AccountedIs, QuietIs
<1>3. \/ t = EnumValue(store, ts)
      \/ t = PackedField(store, ts)
      \/ t = parse_union_case(r, ts)
      \/ t = parse_struct_member(r, ts)
  BY DEF item
<1>4. Len(ts) \in Nat
  OBVIOUS
<1> HIDE DEF ts, r, t
<1>5. ItemRead(store, t, Len(ts))
  BY ONLY <1>1, <1>2, <1>3, <1>4, ValueIsRead, MemberIsRead
<1> QED BY <1>5 DEF ts, r, t

LEMMA AppendsSound ==
  ASSUME NEW s, NEW items, ItemsSound(s, items), NEW v, Typed1(s, v.format)
  PROVE  ItemsSound(s, Append(items, v))
<1> DEFINE a == Append(items, v)
           L == Len(items)
<1>1. /\ L \in Nat /\ IsList(a) /\ Len(a) = L + 1 /\ a[L + 1] = v
      /\ \A i \in 1 .. L : a[i] = items[i]
  BY ListIs DEF ItemsSound
<1>2. \A i \in 1 .. L : items[i].format \in 1 .. FormatCount(s) \cup {NULL}
  BY DEF ItemsSound
<1> HIDE DEF a, L
<1>3. \A i \in 1 .. Len(a) : i \in 1 .. L \/ i = L + 1
  BY <1>1
<1>4. ItemsSound(s, a)
  BY <1>1, <1>2, <1>3 DEF ItemsSound, Typed1
<1> QED BY <1>4 DEF a

LEMMA ReadCarries ==
  ASSUME DescriptionSound, NEW junk, read_item(junk)
  PROVE  Carries
<1> DEFINE f == format(parse.stanza, junk)
           r == item(parse.stanza, f)
           k == parse.at + r.used
           items == Append(parse.items, r.v)
<1>1. parse.status = "stanzas" /\ UNCHANGED held
  BY DEF read_item, InStanza
<1>2. Returns(r.s) /\ IF r.used = 0 THEN Ends("refused")
                      ELSE parse' = [parse EXCEPT !.items = items, !.at = k]
  BY DEF read_item
<1>3. ~store.crashed /\ store' = r.s /\ Accounted /\ Sound(store)
  BY <1>2, AccountedIs DEF Returns, DescriptionSound
<1>4. ParserWhole(store, parse)
  BY <1>1, <1>3 DEF DescriptionSound, ParserSound, Working
<1>5. IsLive(store, parse.this_ns) /\ IsLive(store, parse.global_ns)
  BY <1>1, <1>4 DEF ParserWhole
<1>6. /\ Len(Left) = Len(parse.tokens) - parse.at
      /\ Len(Left) \in Nat /\ parse.at \in Nat /\ Len(parse.tokens) \in Nat
  BY <1>4, LeftIs
<1>7. ItemRead(store, r, Len(Left))
  BY <1>3, <1>5, <1>6, ItemIsRead
<1> HIDE DEF f, r
<1>8. Becomes(store, r.s) /\ Settles(store, r.s, NULL, 0) /\ SpacesStay(store, r.s)
  BY <1>7 DEF ItemRead, Quiet
<1>9. Accounted'
  <2>1. Moves(store, r.s, NULL, 0)
    BY <1>8, SettlesMoves
  <2> QED BY <1>1, <1>2, <1>3, <1>8, <2>1, CallCounts
<1>10. ParserWhole(r.s, parse)
  BY <1>3, <1>4, <1>8, CarriedOn
<1>11. ParserSound(r.s, parse')
  <2>1. CASE r.used = 0
    <3> DEFINE status == "refused"
    <3>1. parse' = [parse EXCEPT !.status = status] /\ status \notin {"header", "stanzas"}
      BY <1>2, <2>1 DEF Ends
    <3> HIDE DEF status
    <3> QED BY <1>10, <3>1, EndsIs
  <2>2. CASE r.used # 0
    <3>1. k \in 0 .. Len(parse.tokens)
      BY <1>6, <1>7, <2>2 DEF ItemRead
    <3>2. ItemsSound(r.s, items)
      <4>1. Typed1(r.s, r.v.format) /\ ItemsSound(r.s, parse.items)
        BY <1>7, <1>10, <2>2 DEF ItemRead, ParserWhole
      <4> QED BY <4>1, AppendsSound
    <3>3. parse' = [parse EXCEPT !.items = items, !.at = k]
      BY <1>2, <2>2
    <3> HIDE DEF k, items
    <3> DEFINE p == parse'
    <3>4. p = [status |-> parse.status, text |-> parse.text, tokens |-> parse.tokens, at |-> k,
               global_ns |-> parse.global_ns, this_ns |-> parse.this_ns,
               before |-> parse.before, stanza |-> parse.stanza, name |-> parse.name,
               items |-> items]
      BY <1>10, <3>3 DEF ParserWhole
    <3> HIDE DEF p
    <3>5. ParserWhole(r.s, p)
      BY ONLY <1>10, <3>1, <3>2, <3>4 DEF ParserWhole
    <3> QED BY <3>5 DEF p, ParserSound
  <2> QED BY <2>1, <2>2
<1> QED BY <1>3, <1>8, <1>9, <1>11 DEF Carries

LEMMA StanzaCarries ==
  ASSUME DescriptionSound, end_stanza
  PROVE  Carries
<1> DEFINE u == MakeAndBind(store, parse.stanza, parse.name, parse.items)
           k == parse.at + 1
           empty == <<>>
<1>1. /\ parse.status = "stanzas" /\ parse.stanza # NULL /\ UNCHANGED held
      /\ Returns(u) /\ parse.at + 1 <= Len(parse.tokens)
      /\ parse' = [parse EXCEPT !.stanza = NULL, !.name = NULL, !.items = empty, !.at = k]
  BY SeesIs DEF end_stanza, InStanza
<1>2. ~store.crashed /\ store' = u /\ Accounted /\ Sound(store)
  BY <1>1, AccountedIs DEF Returns, DescriptionSound
<1>3. ParserWhole(store, parse)
  BY <1>1, <1>2 DEF DescriptionSound, ParserSound, Working
<1>4. IsLive(store, parse.this_ns) /\ parse.name \in Names /\ ItemsSound(store, parse.items)
  BY <1>1, <1>3 DEF ParserWhole
<1>5. Accounted' /\ Becomes(store, u) /\ SpacesStay(store, u)
  BY <1>1, <1>2, <1>4, StanzaCounts
<1>6. k \in 0 .. Len(parse.tokens)
  BY <1>1, <1>3, LeftIs
<1> HIDE DEF u
<1>7. ParserWhole(u, parse)
  BY <1>2, <1>3, <1>5, CarriedOn
<1>8. ItemsSound(u, empty)
  <2>1. IsList(<<>>) /\ Len(<<>>) = 0
    BY EmptySeq, ListOfSeq
  <2> QED BY <2>1 DEF ItemsSound
<1> HIDE DEF k, empty
<1>9. ParserWhole(u, parse')
  <2> DEFINE p == parse'
  <2>1. p = [status |-> parse.status, text |-> parse.text, tokens |-> parse.tokens, at |-> k,
             global_ns |-> parse.global_ns, this_ns |-> parse.this_ns,
             before |-> parse.before, stanza |-> NULL, name |-> NULL, items |-> empty]
    BY <1>1, <1>7 DEF ParserWhole
  <2> HIDE DEF p
  <2>2. ParserWhole(u, p)
    BY ONLY <1>6, <1>7, <1>8, <2>1 DEF ParserWhole
  <2> QED BY <2>2 DEF p
<1> QED BY <1>2, <1>5, <1>9 DEF Carries, ParserSound

-----------------------------------------------------------------------------
(* How a text begins                                                       *)

LEMMA RefKeepsLive ==
  ASSUME NEW s, Sound(s), NEW n, IsLive(s, n), NEW u, u = NamespaceRef(s, n)
  PROVE  IsLive(u, n)
<1>1. /\ LiveSpace(s.ns[n]) /\ Shape(s) /\ TreeSound(s, s.ns[n].by_name)
      /\ n \in 1 .. SpaceCount(s) /\ Alive(s.ns[n])
  BY ShapeIs DEF Sound, IsLive
<1> DEFINE c == s.ns[n].ref_count + 1
           o == [s.ns[n] EXCEPT !.ref_count = c]
<1>2. u = [s EXCEPT !.ns[n] = o]
  BY <1>1 DEF NamespaceRef
<1>3. c \in Nat \ {0}
  BY <1>1 DEF LiveSpace
<1>4. LiveSpace(o) /\ o.ref_count = c
  <2> HIDE DEF c
  <2> QED BY <1>1, <1>3 DEF LiveSpace
<1> HIDE DEF o, c
<1>5. SpaceSet(s, u, n, o)
  BY <1>1, <1>2, <1>4, SpaceSets
<1> QED BY <1>1, <1>3, <1>4, <1>5 DEF SpaceSet, IsLive, Alive

LEMMA TextCarries ==
  ASSUME DescriptionSound, NEW n \in Spaces, NEW text \in Texts, parse_data(n, text)
  PROVE  Carries
<1>0. PICK misread \in BOOLEAN :
        LET tokens == tokenize(text.lexemes, misread)
        IN parse' = [status |-> IF \E i \in DOMAIN tokens : tokens[i] = Unread THEN "refused"
                                ELSE IF tokens = <<>> THEN "ok" ELSE "header",
                     text |-> text, tokens |-> tokens, at |-> 0, global_ns |-> n,
                     this_ns |-> NULL, before |-> {}, stanza |-> NULL, name |-> NULL,
                     items |-> <<>>]
  BY DEF parse_data
<1> DEFINE r == NamespaceRef(store, n)
           e == Entry("SUBNAMESPACE", n)
           u == Leaked(r, e)
           tokens == tokenize(text.lexemes, misread)
           status == IF \E i \in DOMAIN tokens : tokens[i] = Unread THEN "refused"
                     ELSE IF tokens = <<>> THEN "ok" ELSE "header"
           first == 0
           none == {}
           empty == <<>>
<1>1. /\ Accounted /\ Sound(store) /\ IsLive(store, n) /\ n \in 1 .. SpaceCount(store)
  BY AccountedIs, PassedAre DEF DescriptionSound, IsLive
<1>2. /\ Returns(u) /\ UNCHANGED held
      /\ parse' = [status |-> status, text |-> text, tokens |-> tokens, at |-> first,
                   global_ns |-> n, this_ns |-> NULL, before |-> none, stanza |-> NULL,
                   name |-> NULL, items |-> empty]
  BY <1>0 DEF parse_data, Leaked
<1>3. GoodTokens(tokens)
  BY TokensAreGood
<1>4. Becomes(store, r) /\ Settles(store, r, e, 1) /\ IsLive(r, n)
  BY <1>1, NamespaceRefKeeps, NamespaceRefSettles, RefKeepsLive
<1>5. Refers(r, e)
  BY <1>4, EntryIs DEF IsLive
<1>6. status \in {"refused", "ok", "header"}
  BY DEF status
<1>7. first \in 0 .. Len(tokens)
  BY <1>3, ListIs DEF GoodTokens
<1>8. IsList(empty) /\ Len(empty) = 0
  BY EmptySeq, ListOfSeq
<1> HIDE DEF r, e, status, tokens, first, none, empty
<1>9. Accounted'
  <2>1. /\ r.leaks = store.leaks
        /\ ~r.crashed => \A x : Bal(r, x) = Bal(store, x) + More(x, e, 1)
    BY <1>4 DEF Settles
  <2> QED BY <1>1, <1>2, <1>4, <1>5, <2>1, LeakCounts
<1>10. Becomes(r, u) /\ u.ns = r.ns
  BY <1>4, LeakIs DEF Becomes
<1>11. Becomes(store, u) /\ store' = u /\ IsLive(u, n)
  <2>1. Becomes(store, u)
    BY <1>1, <1>4, <1>10, EvolvesIs DEF Becomes
  <2>2. IsLive(u, n)
    BY <1>4, <1>10 DEF IsLive, SpaceCount
  <2> QED BY <1>2, <2>1, <2>2 DEF Returns
<1> HIDE DEF u
<1>12. ParserSound(u, parse')
  <2> DEFINE p == parse'
  <2>1. p = [status |-> status, text |-> text, tokens |-> tokens, at |-> first,
             global_ns |-> n, this_ns |-> NULL, before |-> none, stanza |-> NULL,
             name |-> NULL, items |-> empty]
    BY <1>2
  <2> HIDE DEF p
  <2>2. ItemsSound(u, empty)
    BY <1>8 DEF ItemsSound
  <2>3. ParserWhole(u, p)
    BY ONLY <1>3, <1>6, <1>7, <1>11, <2>1, <2>2 DEF ParserWhole
  <2> QED BY <2>3 DEF p, ParserSound
<1> QED BY <1>9, <1>11, <1>12 DEF Carries

(* The dotted name that follows the first token, when it ends before the   *)
(* last: it has no more tokens than there are, and all of them are words.  *)
LEMMA NamespaceWords ==
  ASSUME NEW q, GoodTokens(q), Len(q) >= 2, q[2].type = "BAREWORD", NEW beyond,
         NEW ts, ts = Tail(q) \o <<beyond>>, NEW used, used = DottedName(ts, Len(ts) + 1),
         used # 0, used # Len(ts)
  PROVE  PathOf(ts, used) \in Seq(Names) /\ 1 + used \in 0 .. Len(q)
<1>1. IsList(q) /\ Len(q) \in Nat /\ q # <<>> /\ \A i \in 1 .. Len(q) : WordToken(q[i])
  <2>1. IsList(q) /\ Len(q) \in Nat
    BY ListIs DEF GoodTokens
  <2>2. q # <<>>
    <3>1. Len(<<>>) = 0
      OBVIOUS
    <3> QED BY <2>1, <3>1
  <2> QED BY <2>1, <2>2 DEF GoodTokens
<1> DEFINE l == Tail(q)
           b == <<beyond>>
           L == Len(q)
<1>2. IsList(l) /\ Len(l) = L - 1 /\ \A i \in 1 .. L - 1 : l[i] = q[i + 1]
  BY <1>1, ListTail
<1>3. IsList(b) /\ Len(b) = 1
  BY SpotsOne
<1>4. ts = l \o b
  OBVIOUS
<1> HIDE DEF l, b
<1>5. Len(ts) = Len(l) + Len(b) /\ \A i \in 1 .. Len(l) : ts[i] = l[i]
  BY <1>2, <1>3, <1>4, ListJoins
<1>6. L \in Nat /\ L >= 2
  BY <1>1
<1> DEFINE limit == L + 1
<1>7. Len(ts) = L /\ limit \in Nat /\ limit <= Len(ts) + 1 /\ used = DottedName(ts, limit)
  BY <1>2, <1>3, <1>5, <1>6
<1> HIDE DEF L, limit
<1>8. Wordy(ts, limit, 1, used)
  BY <1>6, <1>7, DottedNameIs
<1>9. used \in Nat /\ used > 0 /\ (used = 1 \/ used < limit)
  BY <1>7, <1>8, PathOfIs
<1>10. used \in 1 .. L - 1
  BY <1>6, <1>7, <1>9 DEF limit
<1>11. AllWords(ts, used)
  <2>1. ASSUME NEW j \in 1 .. used PROVE WordToken(ts[j])
    <3>1. j \in 1 .. L - 1 /\ j + 1 \in 1 .. L
      BY <1>6, <1>10
    <3>2. ts[j] = q[j + 1]
      BY <1>2, <1>5, <3>1
    <3> QED BY <1>1, <3>1, <3>2 DEF L
  <2>2. ts[1] = q[2]
    <3>1. 1 \in 1 .. L - 1 /\ 1 + 1 = 2
      BY <1>6
    <3> QED BY <1>2, <1>5, <3>1
  <2> QED BY <2>1, <2>2 DEF AllWords
<1>12. PathOf(ts, used) \in Seq(Names)
  BY <1>7, <1>8, <1>11, PathOfIs
<1> QED BY <1>6, <1>10, <1>12 DEF L

LEMMA NamespaceCarries ==
  ASSUME DescriptionSound, NEW beyond, parse_namespace(beyond)
  PROVE  Carries
<1> DEFINE ts == Tail(parse.tokens) \o <<beyond>>
           used == DottedName(ts, Len(ts) + 1)
           path == PathOf(ts, used)
           r == Forced(path)
           begins == Sees("namespace") /\ Has(parse.tokens, 2, "BAREWORD")
<1>1. /\ parse.status = "header" /\ UNCHANGED held /\ Working(parse)
      /\ IF ~begins \/ used = 0 THEN Ends("refused") /\ UNCHANGED store
         ELSE IF used = Len(ts) \/ r.v = NULL THEN Crashes
         ELSE /\ Returns(r.s)
              /\ IF ts[used + 1].type # ";" THEN Ends("refused")
                 ELSE parse' = [parse EXCEPT !.status = "stanzas", !.at = 1 + used,
                                  !.this_ns = r.v, !.before = NamesIn(r.s, r.v)]
  BY DEF parse_namespace, Working
<1>2. CASE ~begins \/ used = 0
  <2>1. UNCHANGED <<store, held>> /\ Ends("refused")
    BY <1>1, <1>2
  <2> QED BY <1>1, <2>1, StopsCarry
<1>3. CASE ~(~begins \/ used = 0) /\ (used = Len(ts) \/ r.v = NULL)
  <2>1. Crashes /\ UNCHANGED held
    BY <1>1, <1>3
  <2> QED BY <2>1, CrashesCarry
<1>4. CASE begins /\ used # 0 /\ used # Len(ts) /\ r.v # NULL
  <2>1. Returns(r.s) /\ IF ts[used + 1].type # ";" THEN Ends("refused")
                        ELSE parse' = [parse EXCEPT !.status = "stanzas", !.at = 1 + used,
                                         !.this_ns = r.v, !.before = NamesIn(r.s, r.v)]
    BY <1>1, <1>4
  <2>2. ~store.crashed /\ store' = r.s /\ Accounted /\ Sound(store)
    BY <2>1, AccountedIs DEF Returns, DescriptionSound
  <2>3. ParserWhole(store, parse)
    BY <1>1, <2>2 DEF DescriptionSound, ParserSound
  <2>4. path \in Seq(Names) /\ 1 + used \in 0 .. Len(parse.tokens)
    <3> DEFINE q == parse.tokens
    <3>1. GoodTokens(q) /\ Len(q) >= 2 /\ q[2].type = "BAREWORD"
      <4>1. 2 <= Len(q) /\ q[2].type = "BAREWORD"
        BY <1>4 DEF Has
      <4>2. Len(q) \in Nat /\ GoodTokens(q)
        BY <2>3, LeftIs DEF ParserWhole
      <4> QED BY ONLY <4>1, <4>2
    <3>2. ts = Tail(q) \o <<beyond>> /\ used # 0 /\ used # Len(ts)
      BY <1>4
    <3> HIDE DEF q, ts
    <3>3. used = DottedName(ts, Len(ts) + 1)
      OBVIOUS
    <3> HIDE DEF used
    <3>4. PathOf(ts, used) \in Seq(Names) /\ 1 + used \in 0 .. Len(q)
      BY ONLY <3>1, <3>2, <3>3, NamespaceWords
    <3> QED BY <3>4 DEF q
  <2>5. Arrives(store, r)
    <3> HIDE DEF path
    <3> QED BY <2>2, <2>3, <2>4, ForcedArrives DEF ParserWhole
  <2> DEFINE stays == ts[used + 1].type # ";"
             k == 1 + used
             before == NamesIn(r.s, r.v)
             status == "stanzas"
             stops == "refused"
  <2>6. \/ stays /\ parse' = [parse EXCEPT !.status = stops]
        \/ parse' = [parse EXCEPT !.status = status, !.at = k, !.this_ns = r.v, !.before = before]
    BY <2>1 DEF Ends
  <2>7. k \in 0 .. Len(parse.tokens) /\ r.v # NULL /\ stops \notin {"header", "stanzas"}
    BY <1>4, <2>4
  <2> HIDE DEF stays, k, before, status, stops, r, path, used, ts, begins
  <2>8. /\ Becomes(store, r.s) /\ Settles(store, r.s, NULL, 0) /\ SpacesStay(store, r.s)
        /\ IsLive(r.s, r.v)
    BY <2>5, <2>7 DEF Arrives, Quiet
  <2>9. Accounted'
    <3>1. Moves(store, r.s, NULL, 0)
      BY <2>8, SettlesMoves
    <3> QED BY <1>1, <2>1, <2>2, <2>8, <3>1, CallCounts
  <2>10. ParserWhole(r.s, parse)
    BY <2>2, <2>3, <2>8, CarriedOn
  <2>11. ParserSound(r.s, parse')
    <3>1. CASE parse' = [parse EXCEPT !.status = stops]
      BY <2>7, <2>10, <3>1, EndsIs
    <3>2. CASE parse' = [parse EXCEPT !.status = status, !.at = k, !.this_ns = r.v,
                                      !.before = before]
      <4> DEFINE p == parse'
      <4>1. p = [status |-> status, text |-> parse.text, tokens |-> parse.tokens, at |-> k,
                 global_ns |-> parse.global_ns, this_ns |-> r.v,
                 before |-> before, stanza |-> parse.stanza, name |-> parse.name,
                 items |-> parse.items]
        BY <2>10, <3>2 DEF ParserWhole
      <4> HIDE DEF p
      <4>2. ParserWhole(r.s, p)
        BY ONLY <2>7, <2>8, <2>10, <4>1 DEF ParserWhole
      <4> QED BY <4>2 DEF p, ParserSound
    <3> QED BY <2>6, <3>1, <3>2
  <2> QED BY <2>2, <2>8, <2>9, <2>11 DEF Carries
<1> QED BY <1>2, <1>3, <1>4

-----------------------------------------------------------------------------
(* A caller that has texts parsed                                          *)

LEMMA CallerCarries ==
  ASSUME DescriptionSound, ~Busy, CallerNext, UNCHANGED parse
  PROVE  Carries
<1>1. Accounted' /\ Becomes(store, store')
  <2>1. Accounted /\ StoreSound
    BY AccountedIs DEF DescriptionSound
  <2> QED BY <2>1, CallsCount, CallsKeep
<1>2. ParserSound(store', parse')
  BY DEF ParserSound, Busy, Working
<1> QED BY <1>1, <1>2 DEF Carries

LEMMA ParserCarries ==
  ASSUME DescriptionSound, ParserNext
  PROVE  Carries
<1>1. ASSUME NEW beyond \in Beyond, parse_namespace(beyond) PROVE Carries
  BY <1>1, NamespaceCarries
<1>2. ASSUME NEW junk \in BOOLEAN, read_item(junk) PROVE Carries
  BY <1>2, ReadCarries
<1>3. CASE skip_semicolon \/ skip_separator
  BY <1>3, SkipsCarry
<1>4. CASE end_of_text \/ stanza_cut_off
  BY <1>4, EndsCarry
<1>5. CASE begin_stanza
  BY <1>5, BeginCarries
<1>6. CASE end_stanza
  BY <1>6, StanzaCarries
<1> QED BY <1>1, <1>2, <1>3, <1>4, <1>5, <1>6 DEF ParserNext

LEMMA StepCarries ==
  ASSUME DescriptionSound, DescriptionNext
  PROVE  Carries /\ DescriptionSound'
<1>1. ASSUME NEW n \in Spaces, NEW text \in Texts, parse_data(n, text) PROVE Carries
  BY <1>1, TextCarries
<1>2. Carries
  BY <1>1, CallerCarries, ParserCarries DEF DescriptionNext
<1> QED BY <1>2 DEF Carries, DescriptionSound

LEMMA InitIsDescribed ==
  ASSUME InitDescriptions
  PROVE  DescriptionSound
<1>1. Accounted
  BY InitIsCounted DEF InitDescriptions
<1>2. parse.status = "idle"
  BY DEF InitDescriptions, Idle
<1> QED BY <1>1, <1>2 DEF DescriptionSound, ParserSound, Working

(* What is carried along: the counts, and what the parser has of them.     *)
LEMMA StaysDescribed == Descriptions => []DescriptionSound
<1>1. InitDescriptions => DescriptionSound
  BY InitIsDescribed
<1>2. DescriptionSound /\ [DescriptionNext]_<<store, held, parse>> => DescriptionSound'
  <2> SUFFICES ASSUME DescriptionSound, [DescriptionNext]_<<store, held, parse>>
               PROVE  DescriptionSound'
    OBVIOUS
  <2>1. CASE DescriptionNext
    BY <2>1, StepCarries
  <2>2. CASE UNCHANGED <<store, held, parse>>
    <3>1. Accounted'
      BY <2>2, NothingChanges DEF DescriptionSound
    <3>2. ParserSound(store', parse')
      BY <2>2 DEF DescriptionSound
    <3> QED BY <3>1, <3>2 DEF DescriptionSound
  <2> QED BY <2>1, <2>2
<1> QED BY <1>1, <1>2, PTL DEF Descriptions

(* Whatever texts are parsed between the calls, complete, cut off or not   *)
(* texts at all, and whatever the memory behind a text holds, the trees of *)
(* names stay searchable (bulp_namespace_parse_data).                      *)
THEOREM ParsingKeepsTrees == Descriptions => []TreesSearchable
<1>1. DescriptionSound => TreesSearchable
  BY SoundTreesSearch DEF DescriptionSound, Accounted
<1> QED BY <1>1, StaysDescribed, PTL

(* The counts stay exact too: what the parser makes for a member, a stanza *)
(* or a namespace is bound, given back, or counted with the references     *)
(* that the code loses (those of enums and imports), whether the text is   *)
(* accepted or refused (bulp-namespace-parser.c).                          *)
THEOREM ParsingKeepsCounts == Descriptions => []RefCountsExact
<1>1. DescriptionSound => RefCountsExact
  BY AccountedExact DEF DescriptionSound
<1> QED BY <1>1, StaysDescribed, PTL

(* Names lead where they should after every turn of the parser's loops.    *)
THEOREM ParsedNamesLead == Descriptions => [](~store.crashed => NamesLead)
<1>1. DescriptionSound => (~store.crashed => NamesLead)
  BY AccountedNamesLead DEF DescriptionSound
<1> QED BY <1>1, StaysDescribed, PTL

(* No turn of the parser takes a name from a table or gives it another     *)
(* meaning: a stanza whose name is in use leaves what was there, and a     *)
(* text that is refused takes nothing back.                                *)
THEOREM ParsingKeepsTables == Descriptions => ImplementsNameTables
<1>1. InitDescriptions => Abstract!Init
  BY InitMaps DEF InitDescriptions
<1>2. DescriptionSound /\ [DescriptionNext]_<<store, held, parse>>
        => [Abstract!Next]_[n \in NsIds |-> Table(n)]
  <2> SUFFICES ASSUME DescriptionSound, [DescriptionNext]_<<store, held, parse>>
               PROVE  [Abstract!Next]_[n \in NsIds |-> Table(n)]
    OBVIOUS
  <2>1. CASE DescriptionNext
    <3>1. StoreSound /\ Becomes(store, store') /\ StoreSound'
      BY <2>1, StepCarries DEF Carries, DescriptionSound, Accounted
    <3> QED BY <3>1, HeapMaps
  <2>2. CASE UNCHANGED <<store, held, parse>>
    BY <2>2 DEF Table
  <2> QED BY <2>1, <2>2
<1> QED BY <1>1, <1>2, StaysDescribed, PTL
    DEF Descriptions, ImplementsNameTables, Abstract!Spec
=============================================================================
