--------------------------- MODULE IntCodecsProofs ---------------------------
(***************************************************************************)
(* What the integer codecs promise for every value of a word, in memory    *)
(* that holds anything around it: what is packed is unpacked, from the     *)
(* number of bytes get_packed_size told, and refused while bytes of it are *)
(* missing.                                                                *)
(***************************************************************************)
EXTENDS IntCodecs, SequenceTheorems, TLAPS

(* The bytes s lie at p.                                                   *)
Holds(mem, p, s) == \A i \in 1..Len(s) : Peek(mem, p + i - 1) = s[i]

-----------------------------------------------------------------------------
(* Division                                                                *)

(* A number is its quotient and its remainder.                             *)
LEMMA DivMod ==
  ASSUME NEW a \in Nat, NEW g \in Nat, g > 0
  PROVE  /\ a \div g \in Nat
         /\ a % g \in 0..(g - 1)
         /\ a = (a % g) + g * (a \div g)
  OBVIOUS

(* Less than b groups of g leave a quotient less than b.                   *)
LEMMA DivBelow ==
  ASSUME NEW a \in Nat, NEW g \in Nat, g > 0, NEW b \in Nat, a < g * b
  PROVE  a \div g < b
<1> DEFINE q == a \div g
<1>1. q \in Nat /\ a >= g * q
  BY DivMod
<1> HIDE DEF q
<1>2. CASE q >= b
  <2>1. PICK c \in Nat : q = b + c
    <3>1. q - b \in Nat /\ q = b + (q - b)
      BY <1>1, <1>2
    <3> QED
      BY <3>1
  <2>2. g * q = g * b + g * c
    BY <2>1
  <2>3. g * c \in Nat /\ g * b \in Nat
    OBVIOUS
  <2> QED
    BY <1>1, <2>2, <2>3
<1> QED
  BY <1>1, <1>2 DEF q

(* The remainders of what is already less than g, and of that plus g.      *)
LEMMA ModOfSmall ==
  ASSUME NEW g \in Nat, NEW x \in Nat, x < g
  PROVE  x % g = x
  OBVIOUS

LEMMA ModOfSum ==
  ASSUME NEW g \in Nat, NEW x \in Nat, x < g
  PROVE  (g + x) % g = x
<1> DEFINE r == (g + x) % g
           q == (g + x) \div g
<1>1. r \in 0..(g - 1) /\ g + x = r + g * q /\ q \in Nat
  BY DivMod
<1> HIDE DEF r, q
<1>2. q = 1
  <2>1. CASE q = 0
    BY <1>1, <2>1
  <2>2. CASE q >= 2
    <3>1. PICK c \in Nat : q = 2 + c
      <4>1. q - 2 \in Nat /\ q = 2 + (q - 2)
        BY <1>1, <2>2
      <4> QED
        BY <4>1
    <3>2. g * q = g + g + g * c /\ g * c \in Nat
      BY <3>1
    <3> QED
      BY <1>1, <3>2
  <2> QED
    BY <1>1, <2>1, <2>2
<1> QED
  BY <1>1, <1>2 DEF r

-----------------------------------------------------------------------------
(* Groups                                                                  *)

(* A set of some of the first nine positions has a least one.              *)
LEMMA LeastPosition ==
  ASSUME NEW T \in SUBSET (1..9), T # {}
  PROVE  \E n \in T : \A i \in 1..(n - 1) : i \notin T
<1>1. CASE 1 \in T
  BY <1>1
<1>2. CASE 1 \notin T /\ 2 \in T
  BY <1>2
<1>3. CASE 1 \notin T /\ 2 \notin T /\ 3 \in T
  BY <1>3
<1>4. CASE 1 \notin T /\ 2 \notin T /\ 3 \notin T /\ 4 \in T
  BY <1>4
<1>5. CASE 1 \notin T /\ 2 \notin T /\ 3 \notin T /\ 4 \notin T /\ 5 \in T
  BY <1>5
<1>6. CASE 1 \notin T /\ 2 \notin T /\ 3 \notin T /\ 4 \notin T /\ 5 \notin T /\ 6 \in T
  BY <1>6
<1>7. CASE /\ 1 \notin T /\ 2 \notin T /\ 3 \notin T /\ 4 \notin T /\ 5 \notin T
           /\ 6 \notin T /\ 7 \in T
  BY <1>7
<1>8. CASE /\ 1 \notin T /\ 2 \notin T /\ 3 \notin T /\ 4 \notin T /\ 5 \notin T
           /\ 6 \notin T /\ 7 \notin T /\ 8 \in T
  BY <1>8
<1>9. CASE /\ 1 \notin T /\ 2 \notin T /\ 3 \notin T /\ 4 \notin T /\ 5 \notin T
           /\ 6 \notin T /\ 7 \notin T /\ 8 \notin T
  <2>1. PICK n \in T : n \in 1..9
    OBVIOUS
  <2>2. n = 9
    BY <1>9, <2>1
  <2>3. \A i \in 1..8 : i = 1 \/ i = 2 \/ i = 3 \/ i = 4 \/ i = 5 \/ i = 6 \/ i = 7 \/ i = 8
    OBVIOUS
  <2> QED
    BY <1>9, <2>2, <2>3
<1> QED
  BY <1>1, <1>2, <1>3, <1>4, <1>5, <1>6, <1>7, <1>8, <1>9

(* Each number shifted is the quotient of the one before.                  *)
LEMMA ShiftedSteps ==
  ASSUME NEW v \in Nat
  PROVE  /\ Shifted(v)[1] = v
         /\ \A i \in 1..9 : Shifted(v)[i] \in Nat
         /\ \A i \in 1..8 : Shifted(v)[i + 1] = Shifted(v)[i] \div Group
<1> DEFINE S(i) == Shifted(v)[i]
<1>1. /\ S(1) = v
      /\ S(2) = S(1) \div Group /\ S(3) = S(2) \div Group
      /\ S(4) = S(3) \div Group /\ S(5) = S(4) \div Group
      /\ S(6) = S(5) \div Group /\ S(7) = S(6) \div Group
      /\ S(8) = S(7) \div Group /\ S(9) = S(8) \div Group
  BY DEF Shifted
<1> HIDE DEF S
<1>2. Group \in Nat /\ Group > 0
  BY WidthAssumption
<1>3. \A a \in Nat : a \div Group \in Nat
  BY <1>2, DivMod
<1>4. S(1) \in Nat /\ S(2) \in Nat /\ S(3) \in Nat
  BY <1>1, <1>3
<1>5. S(4) \in Nat /\ S(5) \in Nat /\ S(6) \in Nat
  BY <1>1, <1>3, <1>4
<1>6. S(7) \in Nat /\ S(8) \in Nat /\ S(9) \in Nat
  BY <1>1, <1>3, <1>5
<1>7. \A i \in 1..9 : i = 1 \/ i = 2 \/ i = 3 \/ i = 4 \/ i = 5 \/ i = 6 \/ i = 7
                      \/ i = 8 \/ i = 9
  OBVIOUS
<1>8. \A i \in 1..9 : S(i) \in Nat
  BY <1>4, <1>5, <1>6, <1>7
<1>9. \A i \in 1..8 : S(i + 1) = S(i) \div Group
  BY <1>1, <1>7
<1> QED
  BY <1>1, <1>8, <1>9 DEF S

(* get_packed_size: up to the first group that is the last.                *)
LEMMA GroupCountIs ==
  ASSUME NEW max \in 1..9, NEW v \in Nat
  PROVE  /\ GroupCount(max, v) \in 1..max
         /\ GroupCount(max, v) = max \/ Shifted(v)[GroupCount(max, v)] < Group
         /\ \A i \in 1..(GroupCount(max, v) - 1) : Shifted(v)[i] >= Group
<1> DEFINE S(i) == Shifted(v)[i]
           T == {i \in 1..max : i = max \/ S(i) < Group}
<1>1. \A i \in 1..9 : S(i) \in Nat
  BY ShiftedSteps
<1> HIDE DEF S
<1>2. T \in SUBSET (1..9) /\ T # {}
  <2>1. max \in T
    OBVIOUS
  <2> QED
    BY <2>1
<1>3. PICK n \in T : \A i \in 1..(n - 1) : i \notin T
  BY <1>2, LeastPosition
<1>4. \A i \in 1..(n - 1) : S(i) >= Group
  <2> SUFFICES ASSUME NEW i \in 1..(n - 1) PROVE S(i) >= Group
    OBVIOUS
  <2>1. i \in 1..max /\ i # max /\ i \notin T
    BY <1>3
  <2>2. ~(S(i) < Group)
    BY <2>1
  <2>3. S(i) \in Nat /\ Group \in Nat
    BY <1>1, <2>1, WidthAssumption
  <2> QED
    BY <2>2, <2>3
<1>5. \E m \in 1..max : /\ m = max \/ Shifted(v)[m] < Group
                        /\ \A i \in 1..(m - 1) : Shifted(v)[i] >= Group
  BY <1>3, <1>4 DEF S
<1> QED
  BY <1>5 DEF GroupCount

(* The length of what is packed is what get_packed_size told.              *)
LEMMA PackGroupsIs ==
  ASSUME NEW max \in 1..9, NEW v \in Nat
  PROVE  /\ Len(PackGroups(max, v)) = GroupCount(max, v)
         /\ \A i \in 1..(GroupCount(max, v) - 1) :
              PackGroups(max, v)[i] = Group + (Shifted(v)[i] % Group)
         /\ PackGroups(max, v)[GroupCount(max, v)] =
              Shifted(v)[GroupCount(max, v)] % Byte
<1>1. GroupCount(max, v) \in 1..max
  BY GroupCountIs
<1> DEFINE n == GroupCount(max, v)
           s == [i \in 1..n |-> IF i = n THEN Shifted(v)[i] % Byte
                                ELSE Group + (Shifted(v)[i] % Group)]
<1>2. PackGroups(max, v) = s
  BY DEF PackGroups
<1> HIDE DEF n
<1>3. n \in Nat /\ n >= 1
  BY <1>1 DEF n
<1>4. Len(s) = n
  BY <1>3
<1>5. \A i \in 1..(n - 1) : s[i] = Group + (Shifted(v)[i] % Group)
  BY <1>3
<1>6. s[n] = Shifted(v)[n] % Byte
  BY <1>3
<1> QED
  BY <1>2, <1>4, <1>5, <1>6 DEF n

-----------------------------------------------------------------------------
(* Reading back                                                            *)

(* Where the bytes of v lie, as many of them are found, the last one is    *)
(* known, and joined they are v.                                           *)
LEMMA GroupsRead ==
  ASSUME NEW max \in 1..9, NEW v \in Nat, Shifted(v)[max] < Byte,
         NEW mem, NEW p \in Int, Holds(mem, p, PackGroups(max, v))
  PROVE  LET n == GroupCount(max, v)
         IN /\ GroupsAt(max, mem, p) = n
            /\ Peek(mem, p + n - 1) = Shifted(v)[n]
            /\ Joined(GroupsOf(max, n, mem, p)) = v
<1> DEFINE n == GroupCount(max, v)
           S(i) == Shifted(v)[i]
           b(i) == Peek(mem, p + i - 1)
           d == GroupsOf(max, n, mem, p)
<1>1. Group \in Nat /\ Group > 1 /\ Byte = Group + Group /\ Byte \in Nat
  BY WidthAssumption DEF Byte
<1>2. /\ n \in 1..max /\ n \in Nat /\ max \in Nat /\ max <= 9 /\ 1 <= n /\ n <= max
      /\ n = max \/ S(n) < Group
      /\ \A i \in 1..(n - 1) : S(i) >= Group
  BY GroupCountIs
<1>3. /\ S(1) = v
      /\ \A i \in 1..9 : S(i) \in Nat
      /\ \A i \in 1..8 : S(i + 1) = S(i) \div Group
  BY ShiftedSteps
<1>4. /\ Len(PackGroups(max, v)) = n
      /\ \A i \in 1..(n - 1) : PackGroups(max, v)[i] = Group + (S(i) % Group)
      /\ PackGroups(max, v)[n] = S(n) % Byte
  BY PackGroupsIs
<1>5. \A i \in 1..n : b(i) = PackGroups(max, v)[i]
  BY <1>4 DEF Holds
<1>6. S(max) < Byte
  OBVIOUS
<1>7. \A i \in 1..9 : d[i] = IF i > n THEN 0
                            ELSE IF i = max THEN b(i) ELSE b(i) % Group
  BY DEF GroupsOf
<1>8. GroupsAt(max, mem, p) = CHOOSE m \in 1..max :
        /\ m = max \/ b(m) < Group
        /\ \A i \in 1..(m - 1) : b(i) >= Group
  BY DEF GroupsAt
<1>9. Joined(d) =
        d[1] + Group * (d[2] + Group * (d[3] + Group * (d[4] + Group * (d[5] +
        Group * (d[6] + Group * (d[7] + Group * (d[8] + Group * d[9])))))))
  BY DEF Joined
<1> HIDE DEF n, S, b, d
<1>10. S(n) < Byte /\ S(n) \in Nat /\ b(n) = S(n)
  <2>1. S(n) \in Nat /\ n \in 1..9
    BY <1>2, <1>3
  <2>2. S(n) < Byte
    BY <1>1, <1>2, <1>6, <2>1
  <2>3. S(n) % Byte = S(n)
    BY <1>1, <2>1, <2>2, ModOfSmall
  <2> QED
    BY <1>2, <1>4, <1>5, <2>1, <2>2, <2>3
<1>11. \A i \in 1..(n - 1) : /\ b(i) \in Nat /\ b(i) >= Group
                             /\ b(i) % Group = S(i) % Group
  <2> SUFFICES ASSUME NEW i \in 1..(n - 1)
               PROVE  b(i) \in Nat /\ b(i) >= Group /\ b(i) % Group = S(i) % Group
    OBVIOUS
  <2>1. i \in 1..9 /\ i \in 1..n /\ S(i) \in Nat
    BY <1>2, <1>3
  <2>2. b(i) = Group + (S(i) % Group)
    BY <1>4, <1>5, <2>1
  <2>3. S(i) % Group \in 0..(Group - 1)
    BY <1>1, <2>1, DivMod
  <2> DEFINE r == S(i) % Group
  <2> HIDE DEF r
  <2>4. r \in Nat /\ r < Group /\ b(i) = Group + r
    BY <1>1, <2>2, <2>3 DEF r
  <2>5. (Group + r) % Group = r
    BY <1>1, <2>4, ModOfSum
  <2> QED
    BY <1>1, <2>4, <2>5 DEF r
<1>12. GroupsAt(max, mem, p) = n
  <2>1. n = max \/ b(n) < Group
    BY <1>2, <1>10
  <2>2. ASSUME NEW m \in 1..max, m = max \/ b(m) < Group,
               \A i \in 1..(m - 1) : b(i) >= Group
        PROVE  m = n
    <3>1. CASE m < n
      <4>1. m \in 1..(n - 1) /\ m # max
        BY <1>2, <3>1
      <4>2. b(m) \in Nat /\ b(m) >= Group /\ b(m) < Group
        BY <1>11, <2>2, <4>1
      <4> QED
        BY <1>1, <4>2
    <3>2. CASE m > n
      <4>1. n \in 1..(m - 1) /\ n # max
        BY <1>2, <3>2
      <4>2. b(n) >= Group /\ S(n) < Group
        BY <1>2, <2>2, <4>1
      <4> QED
        BY <1>1, <1>10, <4>2
    <3> QED
      BY <1>2, <3>1, <3>2
  <2>3. n \in 1..max /\ \A i \in 1..(n - 1) : b(i) >= Group
    BY <1>2, <1>11
  <2> DEFINE P(m) == /\ m = max \/ b(m) < Group
                     /\ \A i \in 1..(m - 1) : b(i) >= Group
  <2>4. P(n) /\ \A m \in 1..max : P(m) => m = n
    BY <2>1, <2>2, <2>3
  <2>5. GroupsAt(max, mem, p) = CHOOSE m \in 1..max : P(m)
    BY <1>8
  <2> HIDE DEF P
  <2> QED
    BY <2>3, <2>4, <2>5
<1>13. Joined(d) = v
  <2> DEFINE R(i) == IF i <= n THEN S(i) ELSE 0
  <2>1. \A i \in 1..9 : /\ i < n => d[i] = S(i) % Group
                        /\ i = n => d[i] = S(i)
                        /\ i > n => d[i] = 0
    <3> SUFFICES ASSUME NEW i \in 1..9
                 PROVE  /\ i < n => d[i] = S(i) % Group
                        /\ i = n => d[i] = S(i)
                        /\ i > n => d[i] = 0
      OBVIOUS
    <3>1. CASE i < n
      <4>1. i \in 1..(n - 1) /\ i # max /\ ~(i > n)
        BY <1>2, <3>1
      <4> QED
        BY <1>7, <1>11, <3>1, <4>1
    <3>2. CASE i = n
      <4>1. CASE i = max
        BY <1>7, <1>10, <3>2, <4>1
      <4>2. CASE i # max
        <5>1. S(n) < Group /\ S(n) % Group = S(n)
          BY <1>1, <1>2, <1>10, <3>2, <4>2, ModOfSmall
        <5> QED
          BY <1>7, <1>10, <3>2, <4>2, <5>1
      <4> QED
        BY <4>1, <4>2
    <3>3. CASE i > n
      BY <1>2, <1>7, <3>3
    <3> QED
      BY <1>2, <3>1, <3>2, <3>3
  <2>2. ASSUME NEW i \in 1..8, NEW rest, rest = R(i + 1)
        PROVE  d[i] + Group * rest = R(i)
    (* a step of Horner's rule, from the last group down *)
    <3> DEFINE a == S(i)
               x == d[i]
    <3>1. a \in Nat /\ S(i + 1) = a \div Group
      BY <1>3
    <3>2. /\ i < n => x = a % Group /\ rest = a \div Group
          /\ i = n => x = a /\ rest = 0
          /\ i > n => x = 0 /\ rest = 0
      BY <1>2, <2>1, <2>2, <3>1
    <3> HIDE DEF a, x
    <3>3. i \in Nat /\ n \in Nat /\ Group \in Nat /\ Group > 0
      BY <1>1, <1>2
    <3>4. x + Group * rest = IF i <= n THEN a ELSE 0
      <4>1. CASE i < n
        <5>1. a = (a % Group) + Group * (a \div Group)
          BY ONLY <3>1, <3>3, DivMod
        <5> QED
          BY ONLY <3>2, <3>3, <4>1, <5>1
      <4>2. CASE i >= n
        BY ONLY <3>1, <3>2, <3>3, <4>2
      <4> QED
        BY ONLY <3>3, <4>1, <4>2
    <3> QED
      BY <3>4 DEF a, x, R
  <2>3. d[9] = R(9)
    BY <1>2, <2>1
  <2> HIDE DEF R
  <2>4. d[8] + Group * d[9] = R(8)
    BY <2>2, <2>3
  <2>5. d[7] + Group * (d[8] + Group * d[9]) = R(7)
    BY <2>2, <2>4
  <2>6. d[6] + Group * (d[7] + Group * (d[8] + Group * d[9])) = R(6)
    BY <2>2, <2>5
  <2>7. d[5] + Group * (d[6] + Group * (d[7] + Group * (d[8] + Group * d[9]))) = R(5)
    BY <2>2, <2>6
  <2>8. d[4] + Group * (d[5] + Group * (d[6] + Group * (d[7] + Group * (d[8] +
        Group * d[9])))) = R(4)
    BY <2>2, <2>7
  <2>9. d[3] + Group * (d[4] + Group * (d[5] + Group * (d[6] + Group * (d[7] +
        Group * (d[8] + Group * d[9]))))) = R(3)
    BY <2>2, <2>8
  <2>10. d[2] + Group * (d[3] + Group * (d[4] + Group * (d[5] + Group * (d[6] +
         Group * (d[7] + Group * (d[8] + Group * d[9])))))) = R(2)
    BY <2>2, <2>9
  <2>11. Joined(d) = R(1)
    BY <1>9, <2>2, <2>10
  <2> QED
    BY <1>2, <1>3, <2>11 DEF R
<1> QED
  BY <1>10, <1>12, <1>13 DEF n, S, b, d

(* While bytes are missing, each there says that another follows.          *)
Memories == [bytes : Seq(0..(Byte - 1)), around : 0..(Byte - 1)]

LEMMA PeekIsByte ==
  ASSUME NEW mem \in Memories, NEW q \in Int
  PROVE  Peek(mem, q) \in 0..(Byte - 1)
<1>1. mem.bytes \in Seq(0..(Byte - 1)) /\ mem.around \in 0..(Byte - 1)
  BY DEF Memories
<1>2. CASE q + 1 \in 1..Len(mem.bytes)
  <2>1. mem.bytes[q + 1] \in 0..(Byte - 1)
    BY ONLY <1>1, <1>2, ElementOfSeq
  <2> QED
    BY <1>2, <2>1 DEF Peek
<1>3. CASE ~(q + 1 \in 1..Len(mem.bytes))
  BY <1>1, <1>3 DEF Peek
<1> QED
  BY <1>2, <1>3

LEMMA GroupsMissing ==
  ASSUME NEW max \in 1..9, NEW v \in Nat, NEW mem \in Memories, NEW p \in Int,
         NEW len \in 0..(GroupCount(max, v) - 1),
         \A i \in 1..len : Peek(mem, p + i - 1) = PackGroups(max, v)[i]
  PROVE  GroupsAt(max, mem, p) \in 1..max /\ GroupsAt(max, mem, p) > len
<1> DEFINE n == GroupCount(max, v)
           b(i) == Peek(mem, p + i - 1)
           T == {i \in 1..max : i = max \/ b(i) < Group}
<1>1. Group \in Nat /\ Group > 1 /\ Byte = Group + Group
  BY WidthAssumption DEF Byte
<1>2. n \in 1..max
  BY GroupCountIs
<1>3. \A i \in Int : b(i) \in Int
  BY <1>1, PeekIsByte
<1>4. \A i \in 1..len : b(i) >= Group
  <2> SUFFICES ASSUME NEW i \in 1..len PROVE b(i) >= Group
    OBVIOUS
  <2>1. i \in 1..(n - 1) /\ i \in 1..9
    BY <1>2
  <2>2. b(i) = Group + (Shifted(v)[i] % Group)
    BY <2>1, PackGroupsIs
  <2>3. Shifted(v)[i] \in Nat
    BY <2>1, ShiftedSteps
  <2>4. Shifted(v)[i] % Group \in 0..(Group - 1)
    BY <1>1, <2>3, DivMod
  <2> QED
    BY <1>1, <2>2, <2>4
<1>5. GroupsAt(max, mem, p) = CHOOSE m \in 1..max :
        /\ m = max \/ b(m) < Group
        /\ \A i \in 1..(m - 1) : b(i) >= Group
  BY DEF GroupsAt
<1> HIDE DEF n, b
<1>6. PICK m \in T : \A i \in 1..(m - 1) : i \notin T
  <2>1. T \in SUBSET (1..9) /\ max \in T
    OBVIOUS
  <2> QED
    BY <2>1, LeastPosition
<1>7. \A i \in 1..(m - 1) : b(i) >= Group
  <2> SUFFICES ASSUME NEW i \in 1..(m - 1) PROVE b(i) >= Group
    OBVIOUS
  <2>1. i \in 1..max /\ i \notin T /\ i # max
    BY <1>6
  <2>2. ~(b(i) < Group) /\ b(i) \in Int
    BY <1>3, <2>1
  <2> QED
    BY <1>1, <2>2
<1> DEFINE a == GroupsAt(max, mem, p)
<1>8. a \in 1..max /\ (a = max \/ b(a) < Group)
  <2>1. \E k \in 1..max : /\ k = max \/ b(k) < Group
                          /\ \A i \in 1..(k - 1) : b(i) >= Group
    BY <1>6, <1>7
  <2> QED
    BY <1>5, <2>1
<1> HIDE DEF a
<1>9. a > len
  <2>1. CASE a <= len
    <3>1. a \in 1..len /\ a # max
      BY <1>2, <1>8, <2>1 DEF n
    <3>2. b(a) >= Group /\ b(a) < Group /\ b(a) \in Int
      BY <1>3, <1>4, <1>8, <3>1
    <3> QED
      BY <1>1, <3>2
  <2> QED
    BY <1>2, <1>8, <2>1 DEF n
<1> QED
  BY <1>8, <1>9 DEF a

-----------------------------------------------------------------------------
(* ushort, uint and ulong                                                  *)

(* The last group of a word that fits is a group.                          *)
LEMMA LastGroups ==
  ASSUME NEW v \in Nat
  PROVE  /\ v < ShortWord => Shifted(v)[3] < Group
         /\ v < IntWord => Shifted(v)[5] < Group
         /\ v < LongWord => Shifted(v)[9] < Byte
<1> DEFINE S(i) == Shifted(v)[i]
           g2 == Group * Group
           g3 == Group * g2
           g4 == Group * g3
           b2 == Group * Byte
           b3 == Group * b2
           b4 == Group * b3
           b5 == Group * b4
           b6 == Group * b5
           b7 == Group * b6
           b8 == Group * b7
<1>1. Group \in Nat /\ Group > 0 /\ Byte \in Nat
  BY WidthAssumption DEF Byte
<1>2. /\ S(1) = v
      /\ \A i \in 1..9 : S(i) \in Nat
      /\ \A i \in 1..8 : S(i + 1) = S(i) \div Group
  BY ShiftedSteps
<1>3. g2 \in Nat /\ g3 \in Nat /\ g4 \in Nat
  BY <1>1
<1>4. b2 \in Nat /\ b3 \in Nat /\ b4 \in Nat /\ b5 \in Nat
  BY <1>1
<1>5. b6 \in Nat /\ b7 \in Nat /\ b8 \in Nat
  BY <1>1, <1>4
<1>6. ShortWord <= Group * g2 /\ IntWord <= Group * g4 /\ LongWord <= Group * b8
  BY WidthAssumption
<1>7. ShortWord \in Nat /\ IntWord \in Nat /\ LongWord \in Nat
  BY WidthAssumption
<1> HIDE DEF S, g2, g3, g4, b2, b3, b4, b5, b6, b7, b8
<1>8. \A i \in 1..8, w \in Nat : S(i) < Group * w => S(i + 1) < w
  BY <1>1, <1>2, DivBelow
<1>9. /\ g3 = Group * g2 /\ g4 = Group * g3 /\ g2 = Group * Group
      /\ b2 = Group * Byte /\ b3 = Group * b2 /\ b4 = Group * b3 /\ b5 = Group * b4
      /\ b6 = Group * b5 /\ b7 = Group * b6 /\ b8 = Group * b7
  BY DEF g2, g3, g4, b2, b3, b4, b5, b6, b7, b8
<1>10. ASSUME v < ShortWord PROVE S(3) < Group
  <2>1. S(1) < Group * g2
    <3> DEFINE x == Group * g2
    <3>1. x \in Nat /\ ShortWord <= x
      BY <1>1, <1>3, <1>6
    <3> HIDE DEF x
    <3>2. S(1) < x
      BY <1>2, <1>7, <1>10, <3>1
    <3> QED
      BY <3>2 DEF x
  <2>2. S(2) < g2
    BY <1>3, <1>8, <2>1
  <2> QED
    BY <1>1, <1>8, <1>9, <2>2
<1>11. ASSUME v < IntWord PROVE S(5) < Group
  <2>1. S(1) < Group * g4
    <3> DEFINE x == Group * g4
    <3>1. x \in Nat /\ IntWord <= x
      BY <1>1, <1>3, <1>6
    <3> HIDE DEF x
    <3>2. S(1) < x
      BY <1>2, <1>7, <1>11, <3>1
    <3> QED
      BY <3>2 DEF x
  <2>2. S(2) < g4
    BY <1>3, <1>8, <2>1
  <2>3. S(3) < g3
    BY <1>3, <1>8, <1>9, <2>2
  <2>4. S(4) < g2
    BY <1>3, <1>8, <1>9, <2>3
  <2> QED
    BY <1>1, <1>8, <1>9, <2>4
<1>12. ASSUME v < LongWord PROVE S(9) < Byte
  <2>1. S(1) < Group * b8
    <3> DEFINE x == Group * b8
    <3>1. x \in Nat /\ LongWord <= x
      BY <1>1, <1>5, <1>6
    <3> HIDE DEF x
    <3>2. S(1) < x
      BY <1>2, <1>7, <1>12, <3>1
    <3> QED
      BY <3>2 DEF x
  <2>2. S(2) < b8
    BY <1>5, <1>8, <2>1
  <2>3. S(3) < b7
    BY <1>5, <1>8, <1>9, <2>2
  <2>4. S(4) < b6
    BY <1>5, <1>8, <1>9, <2>3
  <2>5. S(5) < b5
    BY <1>4, <1>8, <1>9, <2>4
  <2>6. S(6) < b4
    BY <1>4, <1>8, <1>9, <2>5
  <2>7. S(7) < b3
    BY <1>4, <1>8, <1>9, <2>6
  <2>8. S(8) < b2
    BY <1>4, <1>8, <1>9, <2>7
  <2> QED
    BY <1>1, <1>8, <1>9, <2>8
<1> QED
  BY <1>10, <1>11, <1>12 DEF S

(* What a ushort and a uint have in common.                                *)
LEMMA ShortGroupsRead ==
  ASSUME NEW max \in 1..9, NEW word \in Nat, NEW v \in 0..(word - 1),
         Shifted(v)[max] < Group, NEW mem, NEW p \in Int,
         Holds(mem, p, PackGroups(max, v)),
         NEW len \in Nat, GroupCount(max, v) <= len
  PROVE  ShortGroups(max, word, mem, p, len) = Unpacked(GroupCount(max, v), v)
<1> DEFINE n == GroupCount(max, v)
           last == Peek(mem, p + n - 1)
           joined == Joined(GroupsOf(max, n, mem, p))
<1>1. Group \in Nat /\ Group > 1 /\ Byte = Group + Group
  BY WidthAssumption DEF Byte
<1>2. n \in 1..max /\ (n = max \/ Shifted(v)[n] < Group)
  BY GroupCountIs
<1>3. Shifted(v)[max] \in Nat /\ Shifted(v)[n] \in Nat
  <2>1. v \in Nat /\ max \in 1..9 /\ n \in 1..9
    BY <1>2
  <2>2. \A i \in 1..9 : Shifted(v)[i] \in Nat
    BY <2>1, ShiftedSteps
  <2> HIDE DEF n
  <2> QED
    BY <2>1, <2>2
<1>4. Shifted(v)[max] < Byte
  BY <1>1, <1>3
<1>5. GroupsAt(max, mem, p) = n /\ last = Shifted(v)[n] /\ joined = v
  BY <1>4, GroupsRead
<1>6. v % word = v
  BY ModOfSmall
<1> HIDE DEF n, last, joined
<1>7. ~(n > 1 /\ n > len) /\ ~(last >= Group)
  BY <1>1, <1>2, <1>3, <1>5 DEF n
<1> QED
  BY <1>5, <1>6, <1>7 DEF ShortGroups, n, last, joined

LEMMA ShortGroupsMissing ==
  ASSUME NEW max \in 1..9, NEW word \in Nat, NEW v \in Nat, NEW mem \in Memories,
         NEW p \in Int, NEW len \in 1..(GroupCount(max, v) - 1),
         \A i \in 1..len : Peek(mem, p + i - 1) = PackGroups(max, v)[i]
  PROVE  ShortGroups(max, word, mem, p, len) = Refused
<1> DEFINE a == GroupsAt(max, mem, p)
<1>1. GroupCount(max, v) \in 1..max
  BY GroupCountIs
<1>2. len \in 0..(GroupCount(max, v) - 1)
  OBVIOUS
<1>3. a \in 1..max /\ a > len
  BY <1>2, GroupsMissing
<1> HIDE DEF a
<1>4. a > 1 /\ a > len
  BY <1>1, <1>3
<1> QED
  BY <1>4 DEF ShortGroups, a

(* bulp_ushort_pack, bulp_ushort_unpack: every ushort comes back, from as  *)
(* many bytes as bulp_ushort_get_packed_size said; and is refused while    *)
(* some of them, but not all, are there, whatever lies behind them.        *)
THEOREM UshortRoundTrip ==
  ASSUME NEW v \in 0..(ShortWord - 1), NEW mem \in Memories, NEW p \in Int, NEW len \in Nat
  PROVE  /\ Len(UshortPack(v)) = UshortSize(v)
         /\ Holds(mem, p, UshortPack(v)) /\ UshortSize(v) <= len =>
              UshortUnpack(mem, p, len) = Unpacked(UshortSize(v), v)
         /\ Holds(mem, p, SubSeq(UshortPack(v), 1, len)) /\ len \in 1..(UshortSize(v) - 1) =>
              UshortUnpack(mem, p, len) = Refused
<1> USE DEF UshortPack, UshortSize, UshortUnpack
<1>1. ShortWord \in Nat /\ v \in Nat /\ v < ShortWord
  BY WidthAssumption
<1>2. Shifted(v)[3] < Group
  BY <1>1, LastGroups
<1>3. Len(PackGroups(3, v)) = GroupCount(3, v) /\ GroupCount(3, v) \in 1..3
  BY <1>1, PackGroupsIs, GroupCountIs
<1>4. ASSUME Holds(mem, p, UshortPack(v)), UshortSize(v) <= len
      PROVE  UshortUnpack(mem, p, len) = Unpacked(UshortSize(v), v)
  BY <1>1, <1>2, <1>4, ShortGroupsRead
<1>5. ASSUME Holds(mem, p, SubSeq(UshortPack(v), 1, len)), len \in 1..(UshortSize(v) - 1)
      PROVE  UshortUnpack(mem, p, len) = Refused
  <2>1. \A i \in 1..len : Peek(mem, p + i - 1) = PackGroups(3, v)[i]
    BY <1>3, <1>5 DEF Holds
  <2> QED
    BY <1>1, <1>5, <2>1, ShortGroupsMissing
<1> QED
  BY <1>3, <1>4, <1>5

(* bulp_uint_pack, bulp_uint_unpack: the same of every uint.               *)
THEOREM UintRoundTrip ==
  ASSUME NEW v \in 0..(IntWord - 1), NEW mem \in Memories, NEW p \in Int, NEW len \in Nat
  PROVE  /\ Len(UintPack(v)) = UintSize(v)
         /\ Holds(mem, p, UintPack(v)) /\ UintSize(v) <= len =>
              UintUnpack(mem, p, len) = Unpacked(UintSize(v), v)
         /\ Holds(mem, p, SubSeq(UintPack(v), 1, len)) /\ len \in 1..(UintSize(v) - 1) =>
              UintUnpack(mem, p, len) = Refused
<1> USE DEF UintPack, UintSize, UintUnpack
<1>1. IntWord \in Nat /\ v \in Nat /\ v < IntWord
  BY WidthAssumption
<1>2. Shifted(v)[5] < Group
  BY <1>1, LastGroups
<1>3. Len(PackGroups(5, v)) = GroupCount(5, v) /\ GroupCount(5, v) \in 1..5
  BY <1>1, PackGroupsIs, GroupCountIs
<1>4. ASSUME Holds(mem, p, UintPack(v)), UintSize(v) <= len
      PROVE  UintUnpack(mem, p, len) = Unpacked(UintSize(v), v)
  BY <1>1, <1>2, <1>4, ShortGroupsRead
<1>5. ASSUME Holds(mem, p, SubSeq(UintPack(v), 1, len)), len \in 1..(UintSize(v) - 1)
      PROVE  UintUnpack(mem, p, len) = Refused
  <2>1. \A i \in 1..len : Peek(mem, p + i - 1) = PackGroups(5, v)[i]
    BY <1>3, <1>5 DEF Holds
  <2> QED
    BY <1>1, <1>5, <2>1, ShortGroupsMissing
<1> QED
  BY <1>3, <1>4, <1>5

(* bulp_ulong_pack, bulp_ulong_unpack: the same of every ulong, which is   *)
(* refused when none of its bytes are there, too.                          *)
THEOREM UlongRoundTrip ==
  ASSUME NEW v \in 0..(LongWord - 1), NEW mem \in Memories, NEW p \in Int, NEW len \in Nat
  PROVE  /\ Len(UlongPack(v)) = UlongSize(v)
         /\ Holds(mem, p, UlongPack(v)) /\ UlongSize(v) <= len =>
              UlongUnpack(mem, p, len) = Unpacked(UlongSize(v), v)
         /\ Holds(mem, p, SubSeq(UlongPack(v), 1, len)) /\ len < UlongSize(v) =>
              UlongUnpack(mem, p, len) = Refused
<1> USE DEF UlongPack, UlongSize
<1>1. LongWord \in Nat /\ v \in Nat /\ v < LongWord
  BY WidthAssumption
<1>2. Shifted(v)[9] < Byte
  BY <1>1, LastGroups
<1>3. Len(PackGroups(9, v)) = GroupCount(9, v) /\ GroupCount(9, v) \in 1..9
  BY <1>1, PackGroupsIs, GroupCountIs
<1>4. ASSUME Holds(mem, p, UlongPack(v)), UlongSize(v) <= len
      PROVE  UlongUnpack(mem, p, len) = Unpacked(UlongSize(v), v)
  <2> DEFINE n == GroupCount(9, v)
  <2>1. GroupsAt(9, mem, p) = n /\ Joined(GroupsOf(9, n, mem, p)) = v
    BY <1>1, <1>2, <1>4, GroupsRead
  <2>2. v % LongWord = v
    BY <1>1, ModOfSmall
  <2>3. ~(n > len)
    BY <1>3, <1>4
  <2> HIDE DEF n
  <2> QED
    BY <2>1, <2>2, <2>3 DEF UlongUnpack, n
<1>5. ASSUME Holds(mem, p, SubSeq(UlongPack(v), 1, len)), len < UlongSize(v)
      PROVE  UlongUnpack(mem, p, len) = Refused
  <2>1. \A i \in 1..len : Peek(mem, p + i - 1) = PackGroups(9, v)[i]
    BY <1>3, <1>5 DEF Holds
  <2>2. len \in 0..(GroupCount(9, v) - 1)
    BY <1>3, <1>5
  <2>3. GroupsAt(9, mem, p) > len
    BY <1>1, <2>1, <2>2, GroupsMissing
  <2> QED
    BY <2>3 DEF UlongUnpack
<1> QED
  BY <1>3, <1>4, <1>5

-----------------------------------------------------------------------------
(* short, int and long                                                     *)

(* The signed numbers of a word of w values, half of them negative.        *)
SignedOf(w) == {v \in Int : -w <= 2 * v /\ 2 * v < w}

(* bulp_int_zigzag, bulp_int_unzigzag: each signed number, the least one   *)
(* included, is folded to a word and comes back from it.                   *)
THEOREM ZigzagInverse ==
  ASSUME NEW w \in Nat, w > 0, w % 2 = 0, NEW v \in SignedOf(w)
  PROVE  Zigzag(v, w) \in 0..(w - 1) /\ Unzigzag(Zigzag(v, w)) = v
<1>1. v \in Int /\ -w <= 2 * v /\ 2 * v < w
  BY DEF SignedOf
<1>2. CASE v < 0
  <2> DEFINE u == (-v) * 2 - 1
  <2>1. u \in 0..(w - 1)
    BY <1>1, <1>2
  <2>2. u % 2 = 1 /\ u \div 2 = -v - 1
    BY <1>1, <1>2
  <2>3. u % w = u
    BY <2>1, ModOfSmall
  <2> QED
    BY <1>1, <1>2, <2>1, <2>2, <2>3 DEF Zigzag, Unzigzag
<1>3. CASE v >= 0
  <2> DEFINE u == v * 2
  <2>1. u \in 0..(w - 1)
    BY <1>1, <1>3
  <2>2. u % 2 = 0 /\ u \div 2 = v
    BY <1>1, <1>3
  <2>3. u % w = u
    BY <2>1, ModOfSmall
  <2> QED
    BY <1>1, <1>3, <2>1, <2>2, <2>3 DEF Zigzag, Unzigzag
<1> QED
  BY <1>1, <1>2, <1>3

(* bulp_short_pack ... bulp_long_unpack: every signed number comes back    *)
(* from its bytes.                                                         *)
THEOREM SignedRoundTrip ==
  ASSUME ShortWord % 2 = 0, IntWord % 2 = 0, LongWord % 2 = 0,
         NEW mem \in Memories, NEW p \in Int, NEW len \in Nat
  PROVE  /\ \A v \in SignedOf(ShortWord) :
              Holds(mem, p, ShortPack(v)) /\ ShortSize(v) <= len =>
                ShortUnpack(mem, p, len) = Unpacked(ShortSize(v), v)
         /\ \A v \in SignedOf(IntWord) :
              Holds(mem, p, IntPack(v)) /\ IntSize(v) <= len =>
                IntUnpack(mem, p, len) = Unpacked(IntSize(v), v)
         /\ \A v \in SignedOf(LongWord) :
              Holds(mem, p, LongPack(v)) /\ LongSize(v) <= len =>
                LongUnpack(mem, p, len) = Unpacked(LongSize(v), v)
<1>1. /\ ShortWord \in Nat /\ ShortWord > 0 /\ IntWord \in Nat /\ IntWord > 0
      /\ LongWord \in Nat /\ LongWord > 0
  BY WidthAssumption
<1>2. ASSUME NEW n \in Nat, n > 0, NEW u, NEW v, Unzigzag(u) = v
      PROVE  Folded(Unpacked(n, u)) = Unpacked(n, v)
  BY <1>2 DEF Folded, Unpacked
<1>3. ASSUME NEW v \in SignedOf(ShortWord), Holds(mem, p, ShortPack(v)), ShortSize(v) <= len
      PROVE  ShortUnpack(mem, p, len) = Unpacked(ShortSize(v), v)
  <2> DEFINE u == Zigzag(v, ShortWord)
  <2>1. u \in 0..(ShortWord - 1) /\ Unzigzag(u) = v
    BY <1>1, ZigzagInverse
  <2> HIDE DEF u
  <2>2. Holds(mem, p, UshortPack(u)) /\ UshortSize(u) <= len /\ ShortSize(v) = UshortSize(u)
    BY <1>3 DEF ShortPack, ShortSize, u
  <2>3. UshortUnpack(mem, p, len) = Unpacked(UshortSize(u), u)
    BY <2>1, <2>2, UshortRoundTrip
  <2>4. UshortSize(u) \in Nat /\ UshortSize(u) > 0
    BY <1>1, <2>1, GroupCountIs DEF UshortSize
  <2> QED
    BY <1>2, <2>1, <2>2, <2>3, <2>4 DEF ShortUnpack
<1>4. ASSUME NEW v \in SignedOf(IntWord), Holds(mem, p, IntPack(v)), IntSize(v) <= len
      PROVE  IntUnpack(mem, p, len) = Unpacked(IntSize(v), v)
  <2> DEFINE u == Zigzag(v, IntWord)
  <2>1. u \in 0..(IntWord - 1) /\ Unzigzag(u) = v
    BY <1>1, ZigzagInverse
  <2> HIDE DEF u
  <2>2. Holds(mem, p, UintPack(u)) /\ UintSize(u) <= len /\ IntSize(v) = UintSize(u)
    BY <1>4 DEF IntPack, IntSize, u
  <2>3. UintUnpack(mem, p, len) = Unpacked(UintSize(u), u)
    BY <2>1, <2>2, UintRoundTrip
  <2>4. UintSize(u) \in Nat /\ UintSize(u) > 0
    BY <1>1, <2>1, GroupCountIs DEF UintSize
  <2> QED
    BY <1>2, <2>1, <2>2, <2>3, <2>4 DEF IntUnpack
<1>5. ASSUME NEW v \in SignedOf(LongWord), Holds(mem, p, LongPack(v)), LongSize(v) <= len
      PROVE  LongUnpack(mem, p, len) = Unpacked(LongSize(v), v)
  <2> DEFINE u == Zigzag(v, LongWord)
  <2>1. u \in 0..(LongWord - 1) /\ Unzigzag(u) = v
    BY <1>1, ZigzagInverse
  <2> HIDE DEF u
  <2>2. Holds(mem, p, UlongPack(u)) /\ UlongSize(u) <= len /\ LongSize(v) = UlongSize(u)
    BY <1>5 DEF LongPack, LongSize, u
  <2>3. UlongUnpack(mem, p, len) = Unpacked(UlongSize(u), u)
    BY <2>1, <2>2, UlongRoundTrip
  <2>4. UlongSize(u) \in Nat /\ UlongSize(u) > 0
    BY <1>1, <2>1, GroupCountIs DEF UlongSize
  <2> QED
    BY <1>2, <2>1, <2>2, <2>3, <2>4 DEF LongUnpack
<1> QED
  BY <1>3, <1>4, <1>5
=============================================================================
