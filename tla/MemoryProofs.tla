---------------------------- MODULE MemoryProofs ----------------------------
(***************************************************************************)
(* Proofs about BulpMemPool, for every chunk size, pointer size, buffer    *)
(* and sequence of requests; about BulpMemPoolFixed, for every size of its *)
(* pieces and slabs; and about the data builder, which uses its pools as   *)
(* the pool modules allow, so that what is proved of the pools holds in    *)
(* it, whose pieces stay what callers supplied, and whose count of bytes   *)
(* is that of what build writes.                                           *)
(***************************************************************************)
EXTENDS DataBuilder, SequenceFacts


(* The rest of the current chunk is free: it lies inside a block, beyond   *)
(* everything that was cut from that block; and in a pool that hands out   *)
(* aligned memory its end is aligned, so the alignment step cannot run     *)
(* over it.                                                                *)
RestIsFree ==
  pool.live =>
    /\ pool.chunk.block \in DOMAIN memory
    /\ pool.chunk.off + pool.chunk_left <= memory[pool.chunk.block]
    /\ pool.chunk.block # Buffer => pool.chunk.off >= PtrSize
    /\ \A a \in given :
         a.at.block = pool.chunk.block => a.at.off + a.size <= pool.chunk.off

EndIsAligned ==
  pool.aligned => (pool.chunk.off + pool.chunk_left) % PtrSize = 0

GivenWhileLive == ~pool.live => given = {}

PoolInv ==
  /\ PoolTypeOK /\ RestIsFree /\ EndIsAligned /\ GivenWhileLive
  /\ AllocationsInside /\ AllocationsApart /\ AllocationsAligned /\ ChunksOwned

-----------------------------------------------------------------------------
(* Lists of chunks.                                                        *)

(* A new chunk at the front of all_chunk_list.                             *)
LEMMA ConsOwns ==
  ASSUME NEW S, NEW s \in Seq(S), IsInjective(s), NEW b \in S, b \notin Range(s)
  PROVE  /\ <<b>> \o s \in Seq(S)
         /\ IsInjective(<<b>> \o s)
         /\ Range(<<b>> \o s) = Range(s) \cup {b}
<1> DEFINE t == <<b>> \o s
<1>1. t \in Seq(S) /\ Len(t) = Len(s) + 1 /\ t[1] = b
  OBVIOUS
<1>2. \A i \in 1..Len(s) : t[i + 1] = s[i]
  OBVIOUS
<1>3. \A i \in 1..Len(t) : i = 1 \/ (i - 1 \in 1..Len(s) /\ t[i] = s[i - 1])
  BY <1>1, <1>2
<1> HIDE DEF t
<1>4. DOMAIN t = 1..Len(t) /\ DOMAIN s = 1..Len(s)
  BY <1>1
<1>5. IsInjective(t)
  <2> SUFFICES ASSUME NEW i \in 1..Len(t), NEW j \in 1..Len(t), t[i] = t[j]
               PROVE  i = j
    BY <1>4 DEF IsInjective
  <2>1. \A k \in 1..Len(s) : s[k] # b
    BY <1>4 DEF Range
  <2>2. CASE i = 1 \/ j = 1
    BY <1>1, <1>3, <2>1, <2>2
  <2>3. CASE i # 1 /\ j # 1
    <3>1. i - 1 \in 1..Len(s) /\ j - 1 \in 1..Len(s) /\ s[i - 1] = s[j - 1]
      BY <1>3, <2>3
    <3>2. i - 1 = j - 1
      BY <3>1, <1>4 DEF IsInjective
    <3> QED BY <3>2
  <2> QED BY <2>2, <2>3
<1>6. Range(t) \subseteq Range(s) \cup {b}
  BY <1>1, <1>3, <1>4 DEF Range
<1>7. \A i \in 1..Len(s) : i + 1 \in 1..Len(t) /\ s[i] = t[i + 1]
  BY <1>1, <1>2
<1>8. Range(s) \cup {b} \subseteq Range(t)
  BY <1>1, <1>7, <1>4 DEF Range
<1> QED BY <1>1, <1>5, <1>6, <1>8 DEF t

(* A large chunk in second place.                                          *)
LEMMA SecondOwns ==
  ASSUME NEW S, NEW s \in Seq(S), IsInjective(s), NEW b \in S, b \notin Range(s)
  PROVE  /\ Second(s, b) \in Seq(S)
         /\ IsInjective(Second(s, b))
         /\ Range(Second(s, b)) = Range(s) \cup {b}
<1>1. CASE s = <<>>
  BY <1>1 DEF Second, IsInjective, Range
<1>2. CASE s # <<>>
  <2> DEFINE t == Second(s, b)
  <2>1. t = <<Head(s), b>> \o Tail(s) /\ Len(s) > 0
    BY <1>2 DEF Second
  <2>2. t \in Seq(S) /\ Len(t) = Len(s) + 1 /\ t[1] = s[1] /\ t[2] = b
    BY <2>1
  <2>3. \A i \in 2..Len(s) : t[i + 1] = s[i]
    BY <2>1
  <2>4. \A i \in 1..Len(t) :
          i = 1 \/ i = 2 \/ (i - 1 \in 2..Len(s) /\ t[i] = s[i - 1])
    BY <2>2, <2>3
  <2>5. DOMAIN t = 1..Len(t) /\ DOMAIN s = 1..Len(s)
    BY <2>2
  <2>6. 1 \in 1..Len(s) /\ 1 \in 1..Len(t) /\ 2 \in 1..Len(t)
    BY <2>1, <2>2
  <2> HIDE DEF t
  <2>7. IsInjective(t)
    <3> SUFFICES ASSUME NEW i \in 1..Len(t), NEW j \in 1..Len(t), t[i] = t[j]
                 PROVE  i = j
      BY <2>5 DEF IsInjective
    <3> DEFINE old(k) == IF k = 1 THEN 1 ELSE k - 1
    <3>1. \A k \in 1..Len(t) : k # 2 => old(k) \in 1..Len(s) /\ t[k] = s[old(k)]
      BY <2>2, <2>4, <2>6
    <3>2. \A k \in 1..Len(s) : s[k] # b
      BY <2>5 DEF Range
    <3>3. CASE i = 2 \/ j = 2
      BY <2>2, <3>1, <3>2, <3>3
    <3>4. CASE i # 2 /\ j # 2
      <4>1. old(i) = old(j)
        <5>1. old(i) \in 1..Len(s) /\ old(j) \in 1..Len(s) /\ s[old(i)] = s[old(j)]
          BY <3>1, <3>4
        <5> HIDE DEF old
        <5> QED BY <5>1, <2>5 DEF IsInjective
      <4> QED BY <4>1, <3>4
    <3> QED BY <3>3, <3>4
  <2>8. Range(t) \subseteq Range(s) \cup {b}
    BY <2>2, <2>4, <2>5, <2>6 DEF Range
  <2>9. \A i \in 1..Len(s) : s[i] \in Range(t)
    <3> SUFFICES ASSUME NEW i \in 1..Len(s) PROVE s[i] \in Range(t)
      OBVIOUS
    <3>1. CASE i = 1
      BY <3>1, <2>2, <2>5, <2>6 DEF Range
    <3>2. CASE i # 1
      <4>1. i \in 2..Len(s) /\ i + 1 \in 1..Len(t)
        BY <3>2, <2>2
      <4> QED BY <4>1, <2>3, <2>5 DEF Range
    <3> QED BY <3>1, <3>2
  <2>10. Range(t) = Range(s) \cup {b}
    BY <2>2, <2>5, <2>6, <2>8, <2>9 DEF Range
  <2> QED BY <2>2, <2>7, <2>10 DEF t
<1> QED BY <1>1, <1>2
-----------------------------------------------------------------------------
(* Alignment.                                                              *)

LEMMA Quotient ==
  ASSUME NEW n \in Nat, NEW P \in Nat \ {0}
  PROVE  /\ n % P \in 0..(P - 1)
         /\ n \div P \in Nat
         /\ n = P * (n \div P) + (n % P)
  OBVIOUS

LEMMA MultipleIsAligned ==
  ASSUME NEW P \in Nat \ {0}, NEW k \in Nat
  PROVE  (P * k) % P = 0
<1>1. P * k \in Nat
  OBVIOUS
<1> DEFINE r == (P * k) % P
           d == (P * k) \div P
<1>2. r \in 0..(P - 1) /\ d \in Nat /\ P * k = P * d + r
  BY <1>1, Quotient
<1> HIDE DEF r, d
<1>3. r = P * (k - d)
  BY <1>2
<1>4. CASE k - d >= 1
  BY <1>2, <1>3, <1>4
<1>5. CASE k - d <= 0
  BY <1>2, <1>3, <1>5
<1>6. r = 0
  BY <1>2, <1>3, <1>4, <1>5
<1> QED BY <1>6 DEF r

(* The bytes to the next multiple of P fit when the chunk ends on one.     *)
LEMMA AlignmentFits ==
  ASSUME NEW P \in Nat \ {0}, NEW off \in Nat, NEW left \in Nat,
         (off + left) % P = 0, off % P # 0
  PROVE  /\ P - (off % P) \in 1..left
         /\ (off + (P - (off % P))) % P = 0
<1> DEFINE m == off % P
           q == off \div P
           k == (off + left) \div P
<1>0. /\ off % P \in 0..(P - 1) /\ off \div P \in Nat
      /\ off = P * (off \div P) + (off % P)
  BY Quotient
<1>1. m \in 1..(P - 1) /\ q \in Nat /\ off = P * q + m
  <2>1. m \in 0..(P - 1) /\ m # 0 /\ q \in Nat /\ off = P * q + m
    BY <1>0
  <2> HIDE DEF m, q
  <2> QED BY <2>1
<1>2. k \in Nat /\ off + left = P * k
  BY Quotient
<1> HIDE DEF m, q, k
<1>3. left = P * (k - q) - m
  BY <1>1, <1>2
<1>4. k - q >= 1
  BY <1>1, <1>2, <1>3
<1>5. P * (k - q) >= P
  BY <1>1, <1>2, <1>4
<1>6. P - m \in 1..left
  BY <1>1, <1>2, <1>3, <1>5
<1>7. off + (P - m) = P * (q + 1)
  BY <1>1
<1>8. (off + (P - m)) % P = 0
  BY <1>1, <1>7, MultipleIsAligned
<1> QED BY <1>6, <1>8 DEF m
-----------------------------------------------------------------------------
(* Allocation.                                                             *)

(* What an allocation may start from: the pool as it is, or aligned.       *)
Usable(p, aligned) ==
  /\ p \in [all_chunk_list : Seq(Blocks), chunk : Address, live : BOOLEAN,
            chunk_left : 0..(UIntSize - 1), aligned : BOOLEAN]
  /\ p.all_chunk_list = pool.all_chunk_list
  /\ p.live = pool.live /\ p.aligned = pool.aligned
  /\ p.chunk.block = pool.chunk.block
  /\ p.chunk.off >= pool.chunk.off
  /\ p.chunk.off + p.chunk_left = pool.chunk.off + pool.chunk_left
  /\ aligned => p.chunk.off % PtrSize = 0

LEMMA PoolIsUsable ==
  ASSUME PoolInv
  PROVE  Usable(pool, FALSE)
BY DEF Usable, PoolInv, PoolTypeOK, Address

LEMMA AlignIsUsable ==
  ASSUME PoolInv, pool.live, pool.aligned
  PROVE  Usable(Align(pool), TRUE)
<1> DEFINE off == pool.chunk.off
           left == pool.chunk_left
           gap == PtrSize - (off % PtrSize)
<1>1. PtrSize \in Nat \ {0} /\ UIntSize \in Nat
  BY PoolAssumption, HeapAssumption
<1>2. off \in Nat /\ left \in 0..(UIntSize - 1) /\ (off + left) % PtrSize = 0
  BY DEF PoolInv, PoolTypeOK, Address, EndIsAligned
<1>3. CASE off % PtrSize = 0
  <2>1. Align(pool) = pool
    BY <1>3 DEF Align
  <2>2. Usable(pool, FALSE)
    BY PoolIsUsable
  <2> QED BY <1>3, <2>1, <2>2 DEF Usable
<1>4. CASE off % PtrSize # 0
  <2>1. gap \in 1..left /\ (off + gap) % PtrSize = 0
    <3>1. gap = PtrSize - (off % PtrSize)
      OBVIOUS
    <3> HIDE DEF gap, left, off
    <3>2. left \in Nat
      BY <1>1, <1>2
    <3> QED BY <1>1, <1>2, <1>4, <3>1, <3>2, AlignmentFits
  <2>2. (left - gap) % UIntSize = left - gap
    <3> HIDE DEF gap, left, off
    <3> QED BY <1>1, <1>2, <2>1
  <2>3. Align(pool) = [pool EXCEPT !.chunk.off = off + gap, !.chunk_left = left - gap]
    BY <1>4, <2>2 DEF Align
  <2>4. /\ pool \in [all_chunk_list : Seq(Blocks), chunk : Address, live : BOOLEAN,
                     chunk_left : 0..(UIntSize - 1), aligned : BOOLEAN]
        /\ pool.chunk \in [block : Blocks \cup {Buffer}, off : Nat]
    BY DEF PoolInv, PoolTypeOK, Address
  <2>5. off = pool.chunk.off /\ left = pool.chunk_left
    OBVIOUS
  <2>6. off + gap \in Nat /\ left - gap \in 0..(UIntSize - 1)
        /\ (off + gap) + (left - gap) = off + left /\ off + gap >= off
    <3> HIDE DEF gap, left, off
    <3> QED BY <1>1, <1>2, <2>1
  <2> DEFINE p == Align(pool)
  <2> HIDE DEF gap, left, off
  <2>7. /\ p.all_chunk_list = pool.all_chunk_list
        /\ p.live = pool.live /\ p.aligned = pool.aligned
        /\ p.chunk = [block |-> pool.chunk.block, off |-> off + gap]
        /\ p.chunk_left = left - gap
        /\ DOMAIN p = DOMAIN pool
    BY <2>3, <2>4
  <2>8. p \in [all_chunk_list : Seq(Blocks), chunk : Address, live : BOOLEAN,
              chunk_left : 0..(UIntSize - 1), aligned : BOOLEAN]
    BY <2>3, <2>4, <2>6 DEF Address
  <2> QED BY <2>1, <2>5, <2>6, <2>7, <2>8 DEF Usable
<1> QED BY <1>3, <1>4

(* Cutting from the current chunk.                                         *)
LEMMA BumpKeeps ==
  ASSUME PoolInv, pool.live, NEW p, NEW size \in Nat, NEW aligned \in BOOLEAN,
         Usable(p, aligned), Bump(p, size), Hand(p, size, aligned)
  PROVE  PoolInv'
<1> DEFINE b == p.chunk.block
           off == p.chunk.off
           left == p.chunk_left
           new == [at |-> p.chunk, size |-> size, aligned |-> aligned]
<1>1. /\ off \in Nat /\ left \in Nat /\ left \in 0..(UIntSize - 1)
      /\ b \in Blocks \cup {Buffer}
      /\ p.chunk \in Address /\ p.all_chunk_list \in Seq(Blocks)
      /\ b = pool.chunk.block /\ off >= pool.chunk.off
      /\ off + left = pool.chunk.off + pool.chunk_left
      /\ p.live = TRUE /\ p.aligned = pool.aligned /\ p.all_chunk_list = pool.all_chunk_list
      /\ aligned => off % PtrSize = 0
  BY PoolAssumption, HeapAssumption DEF Usable, Address, PoolInv, PoolTypeOK
<1>2. size <= left /\ UNCHANGED memory /\ given' \subseteq given \cup {new}
  BY DEF Bump, Hand, Place
<1>3. /\ pool' \in [all_chunk_list : Seq(Blocks), chunk : Address, live : BOOLEAN,
                    chunk_left : 0..(UIntSize - 1), aligned : BOOLEAN]
      /\ pool'.chunk = [block |-> b, off |-> off + size]
      /\ pool'.chunk_left = left - size
      /\ pool'.live = TRUE /\ pool'.aligned = pool.aligned
      /\ pool'.all_chunk_list = pool.all_chunk_list
  <2>1. pool' = [p EXCEPT !.chunk.off = @ + size, !.chunk_left = @ - size]
    BY DEF Bump
  <2>2. /\ p \in [all_chunk_list : Seq(Blocks), chunk : Address, live : BOOLEAN,
                  chunk_left : 0..(UIntSize - 1), aligned : BOOLEAN]
        /\ p.chunk \in [block : Blocks \cup {Buffer}, off : Nat]
    BY DEF Usable, Address
  <2>3. off + size \in Nat /\ left - size \in 0..(UIntSize - 1)
    <3> HIDE DEF left, off
    <3> QED BY <1>1, <1>2, PoolAssumption, HeapAssumption
  <2> QED BY <1>1, <2>1, <2>2, <2>3 DEF Address
<1>4. /\ new \in [at : Address, size : Nat, aligned : BOOLEAN]
      /\ new.at.block = b /\ new.at.off = off /\ new.size = size
      /\ new.aligned = aligned
  BY <1>1
<1>5. PoolTypeOK'
  BY <1>2, <1>3, <1>4 DEF PoolInv, PoolTypeOK
<1>6. /\ b \in DOMAIN memory /\ memory[b] \in Nat /\ off + left <= memory[b]
      /\ b # Buffer => off >= PtrSize
      /\ \A a \in given : a.at.block = b => a.at.off + a.size <= off
      /\ \A a \in given : a.at.off \in Nat /\ a.size \in Nat
  <2>1. \A a \in given : a.at.off \in Nat /\ a.size \in Nat
    BY DEF PoolInv, PoolTypeOK, Address
  <2>2. pool.chunk.off \in Nat /\ PtrSize \in Nat
    BY PoolAssumption, HeapAssumption DEF PoolInv, PoolTypeOK, Address
  <2>3. b \in DOMAIN memory /\ memory[b] \in Nat /\ off + left <= memory[b]
    BY <1>1 DEF PoolInv, PoolTypeOK, RestIsFree
  <2>4. /\ b # Buffer => pool.chunk.off >= PtrSize
        /\ \A a \in given : a.at.block = b => a.at.off + a.size <= pool.chunk.off
    BY <1>1 DEF PoolInv, RestIsFree
  <2> HIDE DEF b, off, left, new
  <2> QED BY <1>1, <2>1, <2>2, <2>3, <2>4
<1> HIDE DEF b, off, left, new
<1>7. RestIsFree'
  <2> SUFFICES /\ b \in DOMAIN memory /\ (off + size) + (left - size) <= memory[b]
               /\ b # Buffer => off + size >= PtrSize
               /\ \A a \in given \cup {new} :
                    a.at.block = b => a.at.off + a.size <= off + size
    BY <1>2, <1>3 DEF RestIsFree
  <2>1. b # Buffer => off + size >= PtrSize
    BY <1>1, <1>6, PoolAssumption, HeapAssumption
  <2> QED BY <1>1, <1>4, <1>6, <2>1
<1>8. EndIsAligned'
  <2>1. (off + size) + (left - size) = pool.chunk.off + pool.chunk_left
    BY <1>1
  <2> QED BY <1>3, <2>1 DEF PoolInv, EndIsAligned
<1>9. GivenWhileLive'
  BY <1>3 DEF GivenWhileLive
<1>10. AllocationsInside'
  <2>1. off + size <= memory[b]
    BY <1>1, <1>2, <1>6
  <2> QED BY <1>2, <1>4, <1>6, <2>1 DEF PoolInv, AllocationsInside
<1>11. AllocationsApart'
  <2> SUFFICES ASSUME NEW a \in given, a.at.block = b
               PROVE  Bytes(a) \cap Bytes(new) = {}
    BY <1>2, <1>4 DEF PoolInv, AllocationsApart
  <2>1. a.at.off + a.size <= off /\ a.at.off \in Nat /\ a.size \in Nat
    BY <1>6
  <2> QED BY <1>1, <1>4, <2>1 DEF Bytes
<1>12. AllocationsAligned'
  BY <1>1, <1>2, <1>4 DEF PoolInv, AllocationsAligned
<1>13. ChunksOwned'
  BY <1>2, <1>3 DEF PoolInv, ChunksOwned
<1> QED BY <1>5, <1>7, <1>8, <1>9, <1>10, <1>11, <1>12, <1>13 DEF PoolInv

(* A chunk more.                                                           *)
LEMMA MustAllocKeeps ==
  ASSUME PoolInv, pool.live, NEW p, NEW size \in Nat, NEW aligned \in BOOLEAN,
         Usable(p, aligned), must_alloc(p, size), Hand(p, size, aligned)
  PROVE  PoolInv'
<1> DEFINE b == NewBlock
           n == Malloced(size)
           new == [at |-> [block |-> b, off |-> PtrSize], size |-> size, aligned |-> aligned]
           T == [all_chunk_list : Seq(Blocks), chunk : Address, live : BOOLEAN,
                 chunk_left : 0..(UIntSize - 1), aligned : BOOLEAN]
<1>1. /\ PtrSize \in Nat \ {0} /\ ChunkSize \in Nat /\ ChunkSize % PtrSize = 0
      /\ UIntSize \in Nat /\ ChunkSize < UIntSize /\ Buffer \notin Blocks
  BY PoolAssumption, HeapAssumption
<1>2. b \in Blocks /\ b \notin DOMAIN memory
  BY DEF must_alloc, NewBlock
<1>3. /\ p \in T /\ p.chunk \in Address
      /\ p.chunk.off \in Nat /\ p.chunk_left \in Nat
      /\ p.all_chunk_list = pool.all_chunk_list /\ p.live = TRUE
      /\ p.aligned = pool.aligned /\ p.chunk.block = pool.chunk.block
      /\ p.chunk.off >= pool.chunk.off
      /\ p.chunk.off + p.chunk_left = pool.chunk.off + pool.chunk_left
  BY <1>1 DEF Usable, Address
<1>4. ~(p.chunk_left >= size)
  BY <1>3 DEF must_alloc
<1>5. given' \subseteq given \cup {new}
  BY <1>4 DEF Hand, Place
<1>6. /\ memory' = WithBlock(memory, b, n)
      /\ n \in Nat /\ PtrSize + size <= n
  BY <1>1 DEF must_alloc, Malloced
<1>7. /\ DOMAIN memory' = DOMAIN memory \cup {b} /\ memory'[b] = n
      /\ \A c \in DOMAIN memory : memory'[c] = memory[c]
  BY <1>2, <1>6 DEF WithBlock
<1>8. /\ new \in [at : Address, size : Nat, aligned : BOOLEAN]
      /\ new.at.block = b /\ new.at.off = PtrSize /\ new.size = size
      /\ new.aligned = aligned
  BY <1>1, <1>2 DEF Address
<1>9. /\ pool.all_chunk_list \in Seq(Blocks) /\ IsInjective(pool.all_chunk_list)
      /\ Range(pool.all_chunk_list) = DOMAIN memory \ {Buffer}
      /\ b \notin Range(pool.all_chunk_list)
  BY <1>2 DEF PoolInv, PoolTypeOK, ChunksOwned
<1>10. \A a \in given :
         /\ a.at.block \in DOMAIN memory /\ a.at.block # b
         /\ a.at.off \in Nat /\ a.size \in Nat
  BY <1>2 DEF PoolInv, PoolTypeOK, Address, AllocationsInside
<1>11. PtrSize % PtrSize = 0
  <2>1. PtrSize * 1 = PtrSize
    BY <1>1
  <2> QED BY <1>1, <2>1, MultipleIsAligned
<1>12. /\ (DOMAIN memory)' \subseteq Blocks \cup {Buffer} /\ Buffer \in (DOMAIN memory)'
       /\ \A c \in (DOMAIN memory)' : memory'[c] \in Nat
       /\ given' \subseteq [at : Address, size : Nat, aligned : BOOLEAN]
  BY <1>2, <1>5, <1>6, <1>7, <1>8 DEF PoolInv, PoolTypeOK
<1>13. AllocationsInside'
  <2>1. \A a \in given :
          /\ a.at.off + a.size <= memory'[a.at.block]
          /\ a.at.block # Buffer => a.at.off >= PtrSize
    BY <1>7, <1>10 DEF PoolInv, AllocationsInside
  <2> HIDE DEF new, b, n
  <2> QED BY <1>1, <1>5, <1>6, <1>7, <1>8, <1>10, <2>1 DEF AllocationsInside
<1>14. AllocationsApart'
  <2> HIDE DEF new, b, n
  <2> QED BY <1>5, <1>8, <1>10 DEF PoolInv, AllocationsApart
<1>15. AllocationsAligned'
  <2> HIDE DEF new, b, n
  <2> QED BY <1>5, <1>8, <1>11 DEF PoolInv, AllocationsAligned
<1>16. CASE size < ChunkSize
  <2>1. pool' = [p EXCEPT !.all_chunk_list = <<b>> \o @,
                          !.chunk = [block |-> b, off |-> PtrSize + size],
                          !.chunk_left = ChunkSize - size]
    BY <1>1, <1>16 DEF must_alloc
  <2>3. /\ <<b>> \o pool.all_chunk_list \in Seq(Blocks)
        /\ IsInjective(<<b>> \o pool.all_chunk_list)
        /\ Range(<<b>> \o pool.all_chunk_list) = Range(pool.all_chunk_list) \cup {b}
    BY <1>2, <1>9, ConsOwns
  <2>4. [block |-> b, off |-> PtrSize + size] \in Address
        /\ ChunkSize - size \in 0..(UIntSize - 1)
    BY <1>1, <1>2, <1>16 DEF Address
  <2>5. /\ pool' \in T /\ pool'.all_chunk_list = <<b>> \o pool.all_chunk_list
        /\ pool'.chunk = [block |-> b, off |-> PtrSize + size]
        /\ pool'.chunk_left = ChunkSize - size
        /\ pool'.live = TRUE /\ pool'.aligned = pool.aligned
    <3> HIDE DEF b, n, new
    <3> QED BY <1>3, <2>1, <2>3, <2>4
  <2>6. PoolTypeOK'
    BY <1>12, <2>5 DEF PoolTypeOK
  <2> HIDE DEF T, b, new
  <2>7. RestIsFree'
    <3>1. (PtrSize + size) + (ChunkSize - size) = n
      BY <1>1, <1>16 DEF Malloced
    <3> HIDE DEF n
    <3>2. \A a \in given' : a.at.block = b => a.at.off + a.size <= PtrSize + size
      BY <1>1, <1>5, <1>8, <1>10
    <3>3. PtrSize + size >= PtrSize
      BY <1>1
    <3>4. /\ pool'.chunk.block = b /\ pool'.chunk.off = PtrSize + size
          /\ pool'.chunk_left = ChunkSize - size
      BY <2>5
    <3>5. b \in (DOMAIN memory)' /\ memory'[b] = n /\ n <= n
      BY <1>6, <1>7
    <3> QED BY ONLY <3>1, <3>2, <3>3, <3>4, <3>5 DEF RestIsFree
  <2>8. EndIsAligned'
    <3>1. (PtrSize + size) + (ChunkSize - size) = ChunkSize + PtrSize
      BY <1>1
    <3>2. (ChunkSize + PtrSize) % PtrSize = 0
      <4> DEFINE q == ChunkSize \div PtrSize
      <4>1. q \in Nat /\ ChunkSize = PtrSize * q
        BY <1>1, Quotient
      <4> HIDE DEF q
      <4>2. ChunkSize + PtrSize = PtrSize * (q + 1)
        BY <1>1, <4>1
      <4> QED BY <1>1, <4>1, <4>2, MultipleIsAligned
    <3> QED BY <2>5, <3>1, <3>2 DEF EndIsAligned
  <2>9. GivenWhileLive'
    BY <2>5 DEF GivenWhileLive
  <2>10. ChunksOwned'
    BY <1>1, <1>2, <1>7, <1>9, <2>3, <2>5 DEF ChunksOwned
  <2> QED BY <1>13, <1>14, <1>15, <2>6, <2>7, <2>8, <2>9, <2>10 DEF PoolInv
<1>17. CASE ~(size < ChunkSize)
  <2>1. pool' = [p EXCEPT !.all_chunk_list = Second(@, b)]
    BY <1>1, <1>17 DEF must_alloc
  <2>3. /\ Second(pool.all_chunk_list, b) \in Seq(Blocks)
        /\ IsInjective(Second(pool.all_chunk_list, b))
        /\ Range(Second(pool.all_chunk_list, b)) = Range(pool.all_chunk_list) \cup {b}
    BY <1>2, <1>9, SecondOwns
  <2>5. /\ pool' \in T /\ pool'.all_chunk_list = Second(pool.all_chunk_list, b)
        /\ pool'.chunk = p.chunk /\ pool'.chunk_left = p.chunk_left
        /\ pool'.live = TRUE /\ pool'.aligned = pool.aligned
    <3> HIDE DEF b, n, new
    <3> QED BY <1>3, <2>1, <2>3
  <2>6. PoolTypeOK'
    BY <1>12, <2>5 DEF PoolTypeOK
  <2> HIDE DEF T, b, new, n
  <2>7. RestIsFree'
    <3>1. /\ p.chunk.block \in DOMAIN memory /\ p.chunk.block # b
          /\ p.chunk.off + p.chunk_left <= memory[p.chunk.block]
          /\ \A a \in given :
               a.at.block = p.chunk.block => a.at.off + a.size <= pool.chunk.off
          /\ p.chunk.block # Buffer => pool.chunk.off >= PtrSize
      BY <1>2, <1>3 DEF PoolInv, RestIsFree
    <3>2. pool.chunk.off \in Nat
      BY DEF PoolInv, PoolTypeOK, Address
    <3>3. \A a \in given' :
            a.at.block = p.chunk.block => a.at.off + a.size <= p.chunk.off
      BY <1>3, <1>5, <1>8, <1>10, <3>1, <3>2
    <3>4. p.chunk.block # Buffer => p.chunk.off >= PtrSize
      BY <1>1, <1>3, <3>1, <3>2
    <3> QED BY <1>7, <2>5, <3>1, <3>3, <3>4 DEF RestIsFree
  <2>8. EndIsAligned'
    BY <1>3, <2>5 DEF PoolInv, EndIsAligned
  <2>9. GivenWhileLive'
    BY <2>5 DEF GivenWhileLive
  <2>10. ChunksOwned'
    BY <1>1, <1>2, <1>7, <1>9, <2>3, <2>5 DEF ChunksOwned
  <2> QED BY <1>13, <1>14, <1>15, <2>6, <2>7, <2>8, <2>9, <2>10 DEF PoolInv
<1> QED BY <1>16, <1>17

LEMMA CutKeeps ==
  ASSUME PoolInv, NEW p, NEW size \in Nat, NEW aligned \in BOOLEAN,
         Usable(p, aligned), Cut(p, size, aligned)
  PROVE  PoolInv'
BY BumpKeeps, MustAllocKeeps DEF Cut

-----------------------------------------------------------------------------
(* The whole specification.                                                *)

LEMMA EmptyPoolFields ==
  ASSUME NEW n \in BufferSizes \cup {0}
  PROVE  /\ EmptyPool(n) \in [all_chunk_list : Seq(Blocks), chunk : Address, live : BOOLEAN,
                          chunk_left : 0..(UIntSize - 1), aligned : BOOLEAN]
         /\ EmptyPool(n).chunk = [block |-> Buffer, off |-> 0]
         /\ EmptyPool(n).chunk_left = n /\ n \in Nat
         /\ EmptyPool(n).all_chunk_list = <<>> /\ EmptyPool(n).live
         /\ EmptyPool(n).aligned => n = 0
         /\ 0 % PtrSize = 0
<1>1. n \in 0..(UIntSize - 1) /\ n \in Nat
  BY PoolAssumption, HeapAssumption
<1>2. 0 % PtrSize = 0
  <2>1. PtrSize * 0 = 0
    BY PoolAssumption, HeapAssumption
  <2> QED BY <2>1, PoolAssumption, HeapAssumption, MultipleIsAligned
<1>3. (n = 0) \in BOOLEAN
  OBVIOUS
<1>4. [block |-> Buffer, off |-> 0] \in Address
  BY DEF Address
<1>5. <<>> \in Seq(Blocks)
  OBVIOUS
<1> DEFINE z == n = 0
<1>6. EmptyPool(n) = [all_chunk_list |-> <<>>, chunk |-> [block |-> Buffer, off |-> 0],
                  chunk_left |-> n, live |-> TRUE, aligned |-> z]
  BY DEF EmptyPool, NULL
<1>7. z \in BOOLEAN /\ (z => n = 0)
  BY <1>3
<1> HIDE DEF z
<1>8. EmptyPool(n) \in [all_chunk_list : Seq(Blocks), chunk : Address, live : BOOLEAN,
                   chunk_left : 0..(UIntSize - 1), aligned : BOOLEAN]
  BY <1>1, <1>4, <1>5, <1>6, <1>7
<1>9. /\ EmptyPool(n).chunk = [block |-> Buffer, off |-> 0]
      /\ EmptyPool(n).chunk_left = n /\ EmptyPool(n).all_chunk_list = <<>>
      /\ EmptyPool(n).live
  BY <1>6
<1>10. EmptyPool(n).aligned => n = 0
  BY <1>6, <1>7
<1> QED BY <1>1, <1>2, <1>8, <1>9, <1>10

LEMMA FreshIsInv ==
  ASSUME NEW n \in BufferSizes \cup {0},
         DOMAIN memory = {Buffer}, memory[Buffer] = n, pool = EmptyPool(n), given = {}
  PROVE  PoolInv
<1>1. /\ pool \in [all_chunk_list : Seq(Blocks), chunk : Address, live : BOOLEAN,
                   chunk_left : 0..(UIntSize - 1), aligned : BOOLEAN]
      /\ pool.chunk.block = Buffer /\ pool.chunk.off = 0
      /\ pool.chunk_left = n /\ n \in Nat
      /\ pool.all_chunk_list = <<>> /\ pool.live
      /\ pool.aligned => n = 0
      /\ 0 % PtrSize = 0
  BY EmptyPoolFields
<1>2. Range(<<>>) = {} /\ IsInjective(<<>>)
  BY DEF Range, IsInjective
<1>3. PoolTypeOK
  BY <1>1 DEF PoolTypeOK
<1>4. RestIsFree
  BY <1>1 DEF RestIsFree
<1>5. EndIsAligned
  <2>1. pool.aligned => 0 + n = 0
    BY <1>1
  <2> QED BY <1>1, <2>1 DEF EndIsAligned
<1>6. AllocationsInside /\ AllocationsApart /\ AllocationsAligned /\ GivenWhileLive
  BY DEF AllocationsInside, AllocationsApart, AllocationsAligned, GivenWhileLive
<1>7. ChunksOwned
  BY <1>1, <1>2 DEF ChunksOwned
<1> QED BY <1>3, <1>4, <1>5, <1>6, <1>7 DEF PoolInv

LEMMA InitIsPoolInv == PoolInit => PoolInv
<1> SUFFICES ASSUME NEW n \in BufferSizes \cup {0}, InitBuf(n) PROVE PoolInv
  BY DEF PoolInit
<1>1. memory = [b \in {Buffer} |-> n] /\ pool = EmptyPool(n) /\ given = {}
  BY DEF InitBuf
<1>2. DOMAIN memory = {Buffer} /\ memory[Buffer] = n
  BY <1>1
<1> QED BY <1>1, <1>2, FreshIsInv

LEMMA PoolInitKeeps ==
  ASSUME PoolInv, NEW n \in BufferSizes \cup {0}, pool_init(n)
  PROVE  PoolInv'
<1>1. memory' = WithBlock(memory, Buffer, n) /\ pool' = EmptyPool(n) /\ given' = {}
      /\ DOMAIN memory = {Buffer}
  BY DEF pool_init, PoolInv, ChunksOwned
<1>2. DOMAIN memory' = {Buffer} /\ memory'[Buffer] = n
  BY <1>1 DEF WithBlock
<1>3. /\ pool' \in [all_chunk_list : Seq(Blocks), chunk : Address, live : BOOLEAN,
                    chunk_left : 0..(UIntSize - 1), aligned : BOOLEAN]
      /\ pool'.chunk.block = Buffer /\ pool'.chunk.off = 0
      /\ pool'.chunk_left = n /\ n \in Nat
      /\ pool'.all_chunk_list = <<>> /\ pool'.live
      /\ pool'.aligned => n = 0
      /\ 0 % PtrSize = 0
  BY <1>1, EmptyPoolFields
<1>4. Range(<<>>) = {} /\ IsInjective(<<>>)
  BY DEF Range, IsInjective
<1>5. PoolTypeOK'
  BY <1>1, <1>2, <1>3 DEF PoolTypeOK
<1>6. RestIsFree'
  BY <1>1, <1>2, <1>3 DEF RestIsFree
<1>7. EndIsAligned'
  <2>1. pool'.aligned => 0 + n = 0
    BY <1>3
  <2> QED BY <1>3, <2>1 DEF EndIsAligned
<1>8. AllocationsInside' /\ AllocationsApart' /\ AllocationsAligned' /\ GivenWhileLive'
  BY <1>1 DEF AllocationsInside, AllocationsApart, AllocationsAligned, GivenWhileLive
<1>9. ChunksOwned'
  BY <1>2, <1>3, <1>4 DEF ChunksOwned
<1> QED BY <1>5, <1>6, <1>7, <1>8, <1>9 DEF PoolInv

LEMMA PoolClearKeeps ==
  ASSUME PoolInv, pool_clear
  PROVE  PoolInv'
<1>1. /\ pool.live /\ pool' = [pool EXCEPT !.live = FALSE] /\ given' = {}
      /\ memory' = [b \in DOMAIN memory \ Range(pool.all_chunk_list) |-> memory[b]]
  BY DEF pool_clear
<1>2. Range(pool.all_chunk_list) = DOMAIN memory \ {Buffer} /\ Buffer \in DOMAIN memory
  BY <1>1 DEF PoolInv, ChunksOwned, PoolTypeOK
<1>3. DOMAIN memory' = {Buffer} /\ memory'[Buffer] = memory[Buffer]
  BY <1>1, <1>2
<1>4. /\ pool \in [all_chunk_list : Seq(Blocks), chunk : Address, live : BOOLEAN,
                   chunk_left : 0..(UIntSize - 1), aligned : BOOLEAN]
      /\ memory[Buffer] \in Nat
  BY <1>2 DEF PoolInv, PoolTypeOK
<1>5. /\ pool' \in [all_chunk_list : Seq(Blocks), chunk : Address, live : BOOLEAN,
                    chunk_left : 0..(UIntSize - 1), aligned : BOOLEAN]
      /\ pool'.live = FALSE /\ pool'.all_chunk_list = pool.all_chunk_list
      /\ pool'.chunk = pool.chunk /\ pool'.chunk_left = pool.chunk_left
      /\ pool'.aligned = pool.aligned
  BY <1>1, <1>4
<1> QED BY <1>1, <1>3, <1>4, <1>5
        DEF PoolInv, PoolTypeOK, RestIsFree, EndIsAligned, GivenWhileLive,
            AllocationsInside, AllocationsApart, AllocationsAligned, ChunksOwned

LEMMA NextKeepsPoolInv == PoolInv /\ [PoolNext]_poolVars => PoolInv'
<1> SUFFICES ASSUME PoolInv, [PoolNext]_poolVars PROVE PoolInv'
  OBVIOUS
<1>1. ASSUME NEW n \in BufferSizes \cup {0}, pool_init(n) PROVE PoolInv'
  BY <1>1, PoolInitKeeps
<1>2. ASSUME NEW size \in Sizes, alloc_unaligned(size) PROVE PoolInv'
  BY <1>2, PoolIsUsable, CutKeeps, PoolAssumption, HeapAssumption DEF alloc_unaligned
<1>3. ASSUME NEW size \in Sizes, alloc(size) PROVE PoolInv'
  <2>1. pool.live /\ pool.aligned /\ Cut(Align(pool), size, TRUE) /\ size \in Nat
    BY <1>3, PoolAssumption, HeapAssumption DEF alloc, Cut
  <2> QED BY <2>1, AlignIsUsable, CutKeeps
<1>4. ASSUME pool_clear PROVE PoolInv'
  BY <1>4, PoolClearKeeps
<1>5. ASSUME UNCHANGED poolVars PROVE PoolInv'
  BY <1>5 DEF poolVars, PoolInv, PoolTypeOK, RestIsFree, EndIsAligned, GivenWhileLive,
              AllocationsInside, AllocationsApart, AllocationsAligned, ChunksOwned
<1> QED BY <1>1, <1>2, <1>3, <1>4, <1>5 DEF PoolNext

(* The pool's invariant: what is handed out, the rest of the current chunk *)
(* and the list of chunks, after any sequence of calls.                    *)
THEOREM PoolInductive == PoolSpec => []PoolInv
BY InitIsPoolInv, NextKeepsPoolInv, PTL DEF PoolSpec

(* Whatever is asked of a BulpMemPool, the memory it hands out lies inside *)
(* live blocks and off their links (bulp_mem_pool_alloc, must_alloc).      *)
THEOREM PoolStaysInside == PoolSpec => []AllocationsInside
<1>1. PoolInv => AllocationsInside
  BY DEF PoolInv
<1> QED BY <1>1, PoolInductive, PTL

(* No byte of a BulpMemPool is handed out twice.                           *)
THEOREM PoolSharesNothing == PoolSpec => []AllocationsApart
<1>1. PoolInv => AllocationsApart
  BY DEF PoolInv
<1> QED BY <1>1, PoolInductive, PTL

(* bulp_mem_pool_alloc hands out aligned memory, also when odd sizes were  *)
(* cut in between and the last chunk is nearly full.                       *)
THEOREM PoolAligns == PoolSpec => []AllocationsAligned
<1>1. PoolInv => AllocationsAligned
  BY DEF PoolInv
<1> QED BY <1>1, PoolInductive, PTL

(* clear frees every chunk the pool ever took, once.                       *)
THEOREM PoolOwnsItsChunks == PoolSpec => []ChunksOwned
<1>1. PoolInv => ChunksOwned
  BY DEF PoolInv
<1> QED BY <1>1, PoolInductive, PTL

-----------------------------------------------------------------------------
(* MemPoolFixed, for every piece size, caller's memory and sequence of      *)
(* requests.                                                               *)
Held == Taken \cup Range(fixed.free_list)

(* The pieces_left pieces from chunk on are inside a block and beyond all  *)
(* pieces cut from it so far.                                              *)
SlabRestIsFree ==
  fixed.live =>
    /\ fixed.chunk.block \in DOMAIN slabs
    /\ fixed.chunk.off + fixed.pieces_left * fixed.piece_size <= slabs[fixed.chunk.block]
    /\ fixed.chunk.block # Buffer => fixed.chunk.off >= PtrSize
    /\ \A p \in Held :
         p.block = fixed.chunk.block => p.off + fixed.piece_size <= fixed.chunk.off

PieceFitsLink == fixed.piece_size >= PtrSize

EmptyOnceCleared == ~fixed.live => Taken = {} /\ fixed.slab_list = <<>>

(* Every piece that is held is held once.                                  *)
OnceEach == \A p \in Taken : out[p] = 1

FixedInv ==
  /\ FixedTypeOK /\ SlabRestIsFree /\ PieceFitsLink /\ EmptyOnceCleared
  /\ PieceHeldOnce /\ PiecesApart /\ SlabsOwned

FixedPools == [slab_list : Seq(Blocks), chunk : Address, pieces_left : Nat,
           piece_size : Nat, free_list : Seq(Address), live : BOOLEAN]

-----------------------------------------------------------------------------
(* Lists.                                                                  *)

LEMMA Pushed ==
  ASSUME NEW S, NEW s \in Seq(S), IsInjective(s), NEW b \in S, b \notin Range(s)
  PROVE  /\ <<b>> \o s \in Seq(S)
         /\ IsInjective(<<b>> \o s)
         /\ Range(<<b>> \o s) = Range(s) \cup {b}
<1> DEFINE t == <<b>> \o s
<1>1. t \in Seq(S) /\ Len(t) = Len(s) + 1 /\ t[1] = b
  OBVIOUS
<1>2. \A i \in 1..Len(s) : t[i + 1] = s[i]
  OBVIOUS
<1>3. \A i \in 1..Len(t) : i = 1 \/ (i - 1 \in 1..Len(s) /\ t[i] = s[i - 1])
  BY <1>1, <1>2
<1> HIDE DEF t
<1>4. DOMAIN t = 1..Len(t) /\ DOMAIN s = 1..Len(s)
  BY <1>1
<1>5. IsInjective(t)
  <2> SUFFICES ASSUME NEW i \in 1..Len(t), NEW j \in 1..Len(t), t[i] = t[j]
               PROVE  i = j
    BY <1>4 DEF IsInjective
  <2>1. \A k \in 1..Len(s) : s[k] # b
    BY <1>4 DEF Range
  <2>2. CASE i = 1 \/ j = 1
    BY <1>1, <1>3, <2>1, <2>2
  <2>3. CASE i # 1 /\ j # 1
    <3>1. i - 1 \in 1..Len(s) /\ j - 1 \in 1..Len(s) /\ s[i - 1] = s[j - 1]
      BY <1>3, <2>3
    <3>2. i - 1 = j - 1
      BY <3>1, <1>4 DEF IsInjective
    <3> QED BY <3>2
  <2> QED BY <2>2, <2>3
<1>6. Range(t) \subseteq Range(s) \cup {b}
  BY <1>1, <1>3, <1>4 DEF Range
<1>7. \A i \in 1..Len(s) : i + 1 \in 1..Len(t) /\ s[i] = t[i + 1]
  BY <1>1, <1>2
<1>8. Range(s) \cup {b} \subseteq Range(t)
  BY <1>1, <1>7, <1>4 DEF Range
<1> QED BY <1>1, <1>5, <1>6, <1>8 DEF t

LEMMA Popped ==
  ASSUME NEW S, NEW s \in Seq(S), IsInjective(s), s # <<>>
  PROVE  /\ Tail(s) \in Seq(S) /\ Head(s) \in S
         /\ IsInjective(Tail(s))
         /\ Head(s) \in Range(s)
         /\ Range(Tail(s)) = Range(s) \ {Head(s)}
<1> DEFINE t == Tail(s)
           h == Head(s)
<1>1. Len(s) \in Nat /\ Len(s) > 0 /\ DOMAIN s = 1..Len(s)
  OBVIOUS
<1>2. t \in Seq(S) /\ Len(t) = Len(s) - 1 /\ h = s[1] /\ h \in S
  BY <1>1
<1>3. \A i \in 1..Len(t) : t[i] = s[i + 1]
  BY <1>1
<1> HIDE DEF t, h
<1>4. DOMAIN t = 1..Len(t)
  BY <1>2
<1>5. \A i \in 1..Len(t) : i + 1 \in 1..Len(s) /\ t[i] = s[i + 1]
  BY <1>1, <1>2, <1>3
<1>6. IsInjective(t)
  <2> SUFFICES ASSUME NEW i \in 1..Len(t), NEW j \in 1..Len(t), t[i] = t[j]
               PROVE  i = j
    BY <1>4 DEF IsInjective
  <2>1. i + 1 = j + 1
    BY <1>1, <1>5 DEF IsInjective
  <2> QED BY <2>1
<1>7. h \in Range(s)
  BY <1>1, <1>2 DEF Range
<1>8. \A i \in 1..Len(t) : t[i] # h
  <2> SUFFICES ASSUME NEW i \in 1..Len(t), t[i] = h PROVE FALSE
    OBVIOUS
  <2>1. s[i + 1] = s[1] /\ i + 1 \in 1..Len(s) /\ 1 \in 1..Len(s)
    BY <1>1, <1>2, <1>5
  <2>2. i + 1 = 1
    BY <2>1, <1>1 DEF IsInjective
  <2> QED BY <2>2
<1>9. Range(t) \subseteq Range(s) \ {h}
  BY <1>1, <1>4, <1>5, <1>8 DEF Range
<1>10. \A i \in 1..Len(s) : s[i] # h => i - 1 \in 1..Len(t) /\ t[i - 1] = s[i]
  <2> SUFFICES ASSUME NEW i \in 1..Len(s), s[i] # h
               PROVE  i - 1 \in 1..Len(t) /\ t[i - 1] = s[i]
    OBVIOUS
  <2>1. i # 1 /\ i - 1 \in 1..Len(t) /\ (i - 1) + 1 = i
    BY <1>1, <1>2
  <2> QED BY <2>1, <1>5
<1>11. Range(s) \ {h} \subseteq Range(t)
  BY <1>1, <1>4, <1>10 DEF Range
<1> QED BY <1>2, <1>6, <1>7, <1>9, <1>11 DEF t, h

LEMMA NoneListed == Range(<<>>) = {} /\ IsInjective(<<>>)
BY DEF Range, IsInjective

LEMMA NoneTaken == DOMAIN EmptyBag = {}
BY DEF EmptyBag, SetToBag

-----------------------------------------------------------------------------
(* The invariant follows from its parts at a fresh pool.                   *)
LEMMA StartIs ==
  ASSUME NEW p \in EmptyFixedPools
  PROVE  /\ p \in FixedPools /\ p.slab_list = <<>> /\ p.free_list = <<>> /\ p.live
         /\ p.chunk = [block |-> Buffer, off |-> 0]
         /\ p.pieces_left \in Nat /\ p.piece_size \in Nat /\ p.piece_size >= PtrSize
         /\ p.pieces_left * p.piece_size \in Nat
<1>1. PICK size \in Nat, n \in Nat : p = EmptyFixed(size, n) /\ size >= PtrSize
  <2>1. ASSUME NEW s \in PieceSizes
        PROVE  Rounded(s) \in Nat /\ Rounded(s) >= PtrSize
    <3> DEFINE up == ((s + PtrSize - 1) \div PtrSize) * PtrSize
    <3>1. s + PtrSize - 1 \in Nat /\ PtrSize \in Nat \ {0}
      BY FixedAssumption, HeapAssumption
    <3>2. (s + PtrSize - 1) \div PtrSize \in Nat
      BY <3>1
    <3>3. up \in Nat
      BY <3>1, <3>2
    <3>4. Rounded(s) = IF up < PtrSize THEN PtrSize ELSE up
      BY DEF Rounded
    <3> HIDE DEF up
    <3> QED BY <3>1, <3>3, <3>4
  <2>2. CASE \E s \in PieceSizes : p = EmptyFixed(Rounded(s), 0)
    BY <2>1, <2>2
  <2>3. CASE \E s \in {x \in PieceSizes : x >= PtrSize}, n \in BufferCounts : p = EmptyFixed(s, n)
    BY <2>3, FixedAssumption, HeapAssumption
  <2> QED BY <2>2, <2>3 DEF EmptyFixedPools
<1>2. [block |-> Buffer, off |-> 0] \in Address
  BY DEF Address
<1>3. n * size \in Nat
  OBVIOUS
<1> QED BY <1>1, <1>2, <1>3 DEF EmptyFixed, NULL, FixedPools

LEMMA InitIsFixedInv ==
  ASSUME FixedInit
  PROVE  FixedInv
<1>1. /\ fixed \in FixedPools /\ fixed.slab_list = <<>> /\ fixed.free_list = <<>>
      /\ fixed.live /\ fixed.chunk = [block |-> Buffer, off |-> 0]
      /\ fixed.pieces_left * fixed.piece_size \in Nat
      /\ fixed.piece_size >= PtrSize /\ Taken = {}
  BY StartIs, NoneTaken DEF FixedInit, fixed_init, Taken
<1>2. /\ DOMAIN slabs = {Buffer}
      /\ slabs[Buffer] = fixed.pieces_left * fixed.piece_size
  BY StartIs DEF FixedInit
<1>3. Held = {}
  BY <1>1, NoneListed DEF Held
<1>4. FixedTypeOK
  BY <1>1, <1>2 DEF FixedTypeOK, FixedPools
<1> DEFINE rest == fixed.pieces_left * fixed.piece_size
<1>5. rest \in Nat /\ 0 + rest <= slabs[Buffer]
  <2>1. rest = slabs[Buffer] /\ rest \in Nat
    BY <1>1, <1>2
  <2> HIDE DEF rest
  <2> QED BY <2>1
<1>6. fixed.chunk.block = Buffer /\ fixed.chunk.off = 0
  BY <1>1
<1> HIDE DEF rest
<1>7. SlabRestIsFree
  <2>1. /\ Buffer \in DOMAIN slabs /\ 0 + fixed.pieces_left * fixed.piece_size <= slabs[Buffer]
    BY <1>2, <1>5 DEF rest
  <2> QED BY <1>3, <1>6, <2>1 DEF SlabRestIsFree
<1>8. PieceFitsLink /\ EmptyOnceCleared
  BY <1>1 DEF PieceFitsLink, EmptyOnceCleared
<1>9. PieceHeldOnce /\ PiecesApart /\ SlabsOwned
  BY <1>1, <1>2, NoneListed DEF PieceHeldOnce, PiecesApart, SlabsOwned
<1> QED BY <1>4, <1>7, <1>8, <1>9 DEF FixedInv

LEMMA FixedInitKeeps ==
  ASSUME FixedInv, NEW p \in EmptyFixedPools, fixed_init(p)
  PROVE  FixedInv'
<1>1. /\ fixed' \in FixedPools /\ fixed'.slab_list = <<>> /\ fixed'.free_list = <<>>
      /\ fixed'.live /\ fixed'.chunk = [block |-> Buffer, off |-> 0]
      /\ fixed'.pieces_left * fixed'.piece_size \in Nat
      /\ fixed'.piece_size >= PtrSize /\ Taken' = {}
  BY StartIs, NoneTaken DEF FixedInit, fixed_init, Taken
<1>2. /\ DOMAIN slabs' = {Buffer}
      /\ slabs'[Buffer] = fixed'.pieces_left * fixed'.piece_size
  <2>1. DOMAIN slabs = {Buffer}
    BY NoneListed DEF fixed_init, FixedInv, EmptyOnceCleared, SlabsOwned, FixedTypeOK
  <2>2. slabs' = WithBlock(slabs, Buffer, p.pieces_left * p.piece_size) /\ fixed' = p
    BY DEF fixed_init
  <2> QED BY <2>1, <2>2 DEF WithBlock
<1>3. Held' = {}
  BY <1>1, NoneListed DEF Held
<1>4. FixedTypeOK'
  BY <1>1, <1>2 DEF FixedTypeOK, FixedPools
<1> DEFINE rest == fixed'.pieces_left * fixed'.piece_size
<1>5. rest \in Nat /\ 0 + rest <= slabs'[Buffer]
  <2>1. rest = slabs'[Buffer] /\ rest \in Nat
    BY <1>1, <1>2
  <2> HIDE DEF rest
  <2> QED BY <2>1
<1>6. fixed'.chunk.block = Buffer /\ fixed'.chunk.off = 0
  BY <1>1
<1> HIDE DEF rest
<1>7. SlabRestIsFree'
  <2>1. /\ Buffer \in DOMAIN slabs' /\ 0 + fixed'.pieces_left * fixed'.piece_size <= slabs'[Buffer]
    BY <1>2, <1>5 DEF rest
  <2> QED BY <1>3, <1>6, <2>1 DEF SlabRestIsFree
<1>8. PieceFitsLink' /\ EmptyOnceCleared'
  BY <1>1 DEF PieceFitsLink, EmptyOnceCleared
<1>9. PieceHeldOnce' /\ PiecesApart' /\ SlabsOwned'
  BY <1>1, <1>2, NoneListed DEF PieceHeldOnce, PiecesApart, SlabsOwned
<1> QED BY <1>4, <1>7, <1>8, <1>9 DEF FixedInv

-----------------------------------------------------------------------------
(* The steps.                                                              *)

LEMMA FixedFields ==
  ASSUME FixedInv
  PROVE  /\ PtrSize \in Nat \ {0} /\ PiecesPerSlab \in Nat \ {0} /\ Buffer \notin Blocks
         /\ fixed \in FixedPools /\ fixed.piece_size \in Nat /\ fixed.piece_size >= PtrSize
         /\ fixed.pieces_left \in Nat
         /\ fixed.chunk \in Address /\ fixed.chunk.off \in Nat
         /\ fixed.free_list \in Seq(Address) /\ fixed.slab_list \in Seq(Blocks)
         /\ Taken \subseteq Address /\ Held \subseteq Address
         /\ \A p \in Held : p.off \in Nat /\ p.block \in Blocks \cup {Buffer}
<1>1. Range(fixed.free_list) \subseteq Address
  BY DEF FixedInv, FixedTypeOK, Range
<1> QED BY <1>1, FixedAssumption, HeapAssumption
        DEF FixedInv, FixedTypeOK, PieceFitsLink, FixedPools, Address, Held

(* One piece more and one piece less, when none is held twice.             *)
LEMMA OneMore ==
  ASSUME OnceEach, NEW at, at \notin Taken, out' = out (+) SetToBag({at})
  PROVE  Taken' = Taken \cup {at} /\ OnceEach'
<1>1. DOMAIN SetToBag({at}) = {at} /\ SetToBag({at})[at] = 1
  BY DEF SetToBag
<1>2. DOMAIN (out (+) SetToBag({at})) = Taken \cup {at}
  BY <1>1 DEF (+), Taken
<1>3. \A p \in Taken \cup {at} :
        (out (+) SetToBag({at}))[p] =
          (IF p \in Taken THEN out[p] ELSE 0) + (IF p \in {at} THEN SetToBag({at})[p] ELSE 0)
  BY <1>1 DEF (+), Taken
<1>4. \A p \in Taken \cup {at} : (out (+) SetToBag({at}))[p] = 1
  BY <1>1, <1>3 DEF OnceEach
<1>5. Taken' = DOMAIN out'
  BY DEF Taken
<1> QED BY <1>2, <1>4, <1>5 DEF OnceEach

LEMMA OneLess ==
  ASSUME OnceEach, NEW at \in Taken, out' = out (-) SetToBag({at})
  PROVE  Taken' = Taken \ {at} /\ OnceEach'
<1> DEFINE less == [p \in Taken |-> IF p \in {at} THEN out[p] - SetToBag({at})[p] ELSE out[p]]
<1>1. DOMAIN SetToBag({at}) = {at} /\ SetToBag({at})[at] = 1
  BY DEF SetToBag
<1>2. out (-) SetToBag({at}) = [p \in {q \in Taken : less[q] > 0} |-> less[p]]
  BY <1>1 DEF (-), Taken
<1>3. less[at] = 0 /\ \A p \in Taken \ {at} : less[p] = 1
  BY <1>1 DEF OnceEach
<1> HIDE DEF less
<1>4. {q \in Taken : less[q] > 0} = Taken \ {at}
  BY <1>3
<1>5. Taken' = DOMAIN out' /\ out' = [p \in Taken \ {at} |-> less[p]]
  BY <1>2, <1>4 DEF Taken
<1> QED BY <1>3, <1>5 DEF OnceEach

(* The piece fixed_alloc returns is nobody's.                              *)
LEMMA NextPieceIsNew ==
  ASSUME FixedInv, fixed.live, Reuse \/ Carve \/ Grow
  PROVE  NextPiece \in Address /\ NextPiece \notin Taken
<1>1. CASE Reuse
  <2>1. /\ fixed.free_list # <<>> /\ NextPiece = Head(fixed.free_list)
        /\ IsInjective(fixed.free_list) /\ Range(fixed.free_list) \cap Taken = {}
    BY <1>1 DEF Reuse, NextPiece, FixedInv, PieceHeldOnce
  <2>2. Head(fixed.free_list) \in Address /\ Head(fixed.free_list) \in Range(fixed.free_list)
    BY <2>1, Popped, FixedFields
  <2> QED BY <2>1, <2>2
<1>2. CASE Carve
  <2>1. NextPiece = fixed.chunk
    BY <1>2 DEF Carve, NextPiece
  <2>2. \A p \in Taken : p.block = fixed.chunk.block =>
          p.off + fixed.piece_size <= fixed.chunk.off
    BY DEF FixedInv, SlabRestIsFree, Held
  <2>3. /\ fixed.chunk \in Address /\ fixed.chunk.off \in Nat
        /\ fixed.piece_size \in Nat /\ fixed.piece_size > 0
    BY FixedFields
  <2> QED BY <2>1, <2>2, <2>3
<1>3. CASE Grow
  <2>1. NextPiece = [block |-> NewSlab, off |-> PtrSize]
    BY <1>3 DEF Grow, NextPiece
  <2>2. NewSlab \in Blocks /\ NewSlab \notin DOMAIN slabs
    BY <1>3 DEF Grow, NewSlab
  <2>3. \A p \in Taken : p.block \in DOMAIN slabs
    BY DEF FixedInv, PiecesApart
  <2> QED BY <2>1, <2>2, <2>3, HeapAssumption DEF Address
<1> QED BY <1>1, <1>2, <1>3

(* A piece that was freed is handed out again.                             *)
LEMMA ReuseKeeps ==
  ASSUME FixedInv, fixed.live, Reuse, Taken' = Taken \cup {NextPiece}, OnceEach'
  PROVE  FixedInv'
<1> DEFINE h == Head(fixed.free_list)
<1>1. /\ fixed' = [fixed EXCEPT !.free_list = Tail(@)] /\ UNCHANGED slabs
      /\ fixed.free_list # <<>> /\ Taken' = Taken \cup {h}
  BY DEF Reuse, NextPiece
<1>2. /\ Tail(fixed.free_list) \in Seq(Address) /\ h \in Address
      /\ IsInjective(Tail(fixed.free_list)) /\ h \in Range(fixed.free_list)
      /\ Range(Tail(fixed.free_list)) = Range(fixed.free_list) \ {h}
  BY <1>1, Popped, FixedFields DEF FixedInv, PieceHeldOnce
<1>3. /\ fixed' \in FixedPools /\ fixed'.free_list = Tail(fixed.free_list)
      /\ fixed'.slab_list = fixed.slab_list /\ fixed'.chunk = fixed.chunk
      /\ fixed'.pieces_left = fixed.pieces_left /\ fixed'.piece_size = fixed.piece_size
      /\ fixed'.live = fixed.live
  BY <1>1, <1>2, FixedFields DEF FixedPools
<1> HIDE DEF h
<1>4. Held' = Held
  BY <1>1, <1>2, <1>3 DEF Held
<1>5. FixedTypeOK'
  <2>1. Taken' \subseteq Address
    BY <1>1, <1>2, FixedFields
  <2>2. (\A p \in Taken : out[p] \in Nat \ {0})'
    BY <1>1 DEF OnceEach
  <2> QED BY <1>1, <1>2, <1>3, <2>1, <2>2, FixedFields DEF FixedInv, FixedTypeOK, FixedPools
<1>6. SlabRestIsFree'
  BY <1>1, <1>3, <1>4 DEF FixedInv, SlabRestIsFree
<1>7. PieceFitsLink' /\ EmptyOnceCleared'
  BY <1>1, <1>3 DEF FixedInv, PieceFitsLink, EmptyOnceCleared
<1>8. PieceHeldOnce'
  BY <1>1, <1>2, <1>3 DEF FixedInv, PieceHeldOnce, OnceEach
<1>9. PiecesApart'
  BY <1>1, <1>3, <1>4 DEF FixedInv, PiecesApart, Held
<1>10. SlabsOwned'
  BY <1>1, <1>3 DEF FixedInv, SlabsOwned
<1> QED BY <1>5, <1>6, <1>7, <1>8, <1>9, <1>10 DEF FixedInv

(* A piece goes back to the free list.                                     *)
LEMMA FreeKeeps ==
  ASSUME FixedInv, NEW p \in Taken, fixed_free(p)
  PROVE  FixedInv'
<1>1. /\ fixed' = [fixed EXCEPT !.free_list = <<p>> \o @] /\ UNCHANGED slabs
      /\ Taken' = Taken \ {p} /\ fixed.live /\ OnceEach'
  <2>1. OnceEach /\ out' = out (-) SetToBag({p})
    BY DEF fixed_free, FixedInv, PieceHeldOnce, OnceEach
  <2>2. Taken' = Taken \ {p} /\ OnceEach'
    BY <2>1, OneLess
  <2> QED BY <2>2 DEF fixed_free
<1>2. /\ <<p>> \o fixed.free_list \in Seq(Address)
      /\ IsInjective(<<p>> \o fixed.free_list)
      /\ Range(<<p>> \o fixed.free_list) = Range(fixed.free_list) \cup {p}
  <2>1. p \in Address /\ p \notin Range(fixed.free_list) /\ IsInjective(fixed.free_list)
    BY <1>1, FixedFields DEF FixedInv, PieceHeldOnce
  <2> QED BY <2>1, Pushed, FixedFields
<1>3. /\ fixed' \in FixedPools /\ fixed'.free_list = <<p>> \o fixed.free_list
      /\ fixed'.slab_list = fixed.slab_list /\ fixed'.chunk = fixed.chunk
      /\ fixed'.pieces_left = fixed.pieces_left /\ fixed'.piece_size = fixed.piece_size
      /\ fixed'.live = fixed.live
  BY <1>1, <1>2, FixedFields DEF FixedPools
<1>4. Held' = Held
  BY <1>1, <1>2, <1>3 DEF Held
<1>5. FixedTypeOK'
  <2>1. Taken' \subseteq Address
    BY <1>1, <1>2, FixedFields
  <2>2. (\A a \in Taken : out[a] \in Nat \ {0})'
    BY <1>1 DEF OnceEach
  <2> QED BY <1>1, <1>2, <1>3, <2>1, <2>2, FixedFields DEF FixedInv, FixedTypeOK, FixedPools
<1>6. SlabRestIsFree'
  BY <1>1, <1>3, <1>4 DEF FixedInv, SlabRestIsFree
<1>7. PieceFitsLink' /\ EmptyOnceCleared'
  BY <1>1, <1>3 DEF FixedInv, PieceFitsLink, EmptyOnceCleared
<1>8. PieceHeldOnce'
  BY <1>1, <1>2, <1>3 DEF FixedInv, PieceHeldOnce, OnceEach
<1>9. PiecesApart'
  BY <1>1, <1>3, <1>4 DEF FixedInv, PiecesApart, Held
<1>10. SlabsOwned'
  BY <1>1, <1>3 DEF FixedInv, SlabsOwned
<1> QED BY <1>5, <1>6, <1>7, <1>8, <1>9, <1>10 DEF FixedInv

(* What a piece cut at `at' needs: then all that does not concern the rest *)
(* of the slab is preserved.                                               *)
LEMMA NewPiece ==
  ASSUME FixedInv, fixed.live, NEW at \in Address, Taken' = Taken \cup {at}, OnceEach',
         fixed'.free_list = fixed.free_list, fixed'.piece_size = fixed.piece_size,
         fixed'.live = fixed.live,
         DOMAIN slabs \subseteq (DOMAIN slabs)', at.block \in (DOMAIN slabs)',
         \A b \in DOMAIN slabs : slabs'[b] = slabs[b],
         at.off + fixed.piece_size <= slabs'[at.block],
         at.block # Buffer => at.off >= PtrSize,
         \A p \in Held : p.block = at.block => p.off + fixed.piece_size <= at.off
  PROVE  /\ Held' = Held \cup {at} /\ PieceHeldOnce' /\ PiecesApart'
         /\ PieceFitsLink' /\ EmptyOnceCleared'
<1>1. at.off \in Nat
  BY DEF Address
<1>2. Held' = Held \cup {at}
  BY DEF Held
<1>3. at \notin Held
  <2> SUFFICES ASSUME at \in Held PROVE FALSE
    OBVIOUS
  <2>1. at.off + fixed.piece_size <= at.off
    OBVIOUS
  <2> QED BY <1>1, <2>1, FixedFields
<1>4. PieceHeldOnce'
  BY <1>3 DEF FixedInv, PieceHeldOnce, OnceEach, Held
<1>5. PiecesApart'
  <2>1. \A p \in Held : p.block \in DOMAIN slabs
    BY DEF FixedInv, PiecesApart, Held
  <2>2. \A p \in Held : p.off + fixed.piece_size <= slabs[p.block]
    BY DEF FixedInv, PiecesApart, Held
  <2>3. \A p \in Held : p.block # Buffer => p.off >= PtrSize
    BY DEF FixedInv, PiecesApart, Held
  <2>5. \A p, q \in Held : p # q /\ p.block = q.block =>
          p.off + fixed.piece_size <= q.off \/ q.off + fixed.piece_size <= p.off
    BY DEF FixedInv, PiecesApart, Held
  <2>6. \A p \in Held \cup {at} :
          /\ p.block \in DOMAIN slabs'
          /\ p.off + fixed.piece_size <= slabs'[p.block]
          /\ p.block # Buffer => p.off >= PtrSize
    BY <2>1, <2>2, <2>3
  <2>7. \A p, q \in Held \cup {at} : p # q /\ p.block = q.block =>
          p.off + fixed.piece_size <= q.off \/ q.off + fixed.piece_size <= p.off
    BY <2>5
  <2>4. Taken' \cup Range(fixed'.free_list) = Held \cup {at}
    BY DEF Held
  <2> QED BY <2>4, <2>6, <2>7 DEF PiecesApart
<1>6. PieceFitsLink' /\ EmptyOnceCleared'
  BY DEF FixedInv, PieceFitsLink, EmptyOnceCleared
<1> QED BY <1>2, <1>4, <1>5, <1>6

(* A piece cut from the current slab.                                      *)
LEMMA CarveKeeps ==
  ASSUME FixedInv, fixed.live, Carve, Taken' = Taken \cup {NextPiece}, OnceEach'
  PROVE  FixedInv'
<1> DEFINE at == fixed.chunk
           size == fixed.piece_size
           n == fixed.pieces_left
<1>1. /\ fixed' = [fixed EXCEPT !.chunk.off = @ + size, !.pieces_left = @ - 1]
      /\ UNCHANGED slabs /\ n # 0 /\ Taken' = Taken \cup {at}
  BY DEF Carve, NextPiece
<1>2. /\ at \in Address /\ at.off \in Nat /\ size \in Nat /\ n \in Nat
      /\ at.block \in Blocks \cup {Buffer}
      /\ at = [block |-> at.block, off |-> at.off]
  BY FixedFields DEF Address
<1>3. /\ fixed' \in FixedPools /\ fixed'.free_list = fixed.free_list
      /\ fixed'.slab_list = fixed.slab_list
      /\ fixed'.chunk = [block |-> at.block, off |-> at.off + size]
      /\ fixed'.pieces_left = n - 1 /\ fixed'.piece_size = size
      /\ fixed'.live = fixed.live
  <2>1. at.off + size \in Nat /\ n - 1 \in Nat
    BY <1>1, <1>2
  <2>2. fixed \in FixedPools
    BY FixedFields
  <2> QED BY <1>1, <1>2, <2>1, <2>2 DEF FixedPools, Address
<1>4. /\ at.block \in DOMAIN slabs /\ slabs[at.block] \in Nat
      /\ at.off + n * size <= slabs[at.block]
      /\ at.block # Buffer => at.off >= PtrSize
      /\ \A p \in Held : p.block = at.block => p.off + size <= at.off
  BY DEF FixedInv, SlabRestIsFree, FixedTypeOK
<1> HIDE DEF at, size, n
<1>5. n * size = size + (n - 1) * size /\ (n - 1) * size \in Nat
  BY <1>1, <1>2
<1>6. at.off + size <= slabs[at.block]
      /\ (at.off + size) + (n - 1) * size <= slabs[at.block]
  BY <1>2, <1>4, <1>5
<1>7. /\ Held' = Held \cup {at} /\ PieceHeldOnce' /\ PiecesApart'
      /\ PieceFitsLink' /\ EmptyOnceCleared'
  BY <1>1, <1>2, <1>3, <1>4, <1>6, NewPiece DEF size
<1>8. FixedTypeOK'
  <2>1. (DOMAIN slabs \subseteq Blocks \cup {Buffer} /\ Buffer \in DOMAIN slabs
        /\ \A b \in DOMAIN slabs : slabs[b] \in Nat)'
    BY <1>1 DEF FixedInv, FixedTypeOK
  <2>2. Taken' \subseteq Address
    BY <1>1, <1>2, FixedFields
  <2>3. (\A p \in Taken : out[p] \in Nat \ {0})'
    BY DEF OnceEach
  <2> QED BY <1>3, <2>1, <2>2, <2>3 DEF FixedTypeOK, FixedPools
<1>9. SlabRestIsFree'
  <2>1. fixed'.chunk.block = at.block /\ fixed'.chunk.off = at.off + size
    BY <1>3
  <2>2. \A p \in Held \cup {at} : p.block = at.block => p.off + size <= at.off + size
    <3>1. \A p \in Held : p.off \in Nat
      BY FixedFields
    <3> QED BY <1>2, <1>4, <3>1
  <2>3. at.block # Buffer => at.off + size >= PtrSize
    BY <1>2, <1>4, FixedFields
  <2> QED BY <1>1, <1>3, <1>4, <1>6, <1>7, <2>1, <2>2, <2>3 DEF SlabRestIsFree
<1>10. SlabsOwned'
  BY <1>1, <1>3 DEF FixedInv, SlabsOwned
<1> QED BY <1>7, <1>8, <1>9, <1>10 DEF FixedInv

(* A slab more.                                                            *)
LEMMA GrowKeeps ==
  ASSUME FixedInv, fixed.live, Grow, Taken' = Taken \cup {NextPiece}, OnceEach'
  PROVE  FixedInv'
<1> DEFINE b == NewSlab
           size == fixed.piece_size
           at == [block |-> b, off |-> PtrSize]
           n == PiecesPerSlab
<1>1. /\ fixed' = [fixed EXCEPT !.slab_list = <<b>> \o @,
                                !.chunk = [block |-> b, off |-> PtrSize + size],
                                !.pieces_left = n - 1]
      /\ slabs' = WithBlock(slabs, b, n * size + PtrSize) /\ Taken' = Taken \cup {at}
  BY DEF Grow, NextPiece
<1>2. b \in Blocks /\ b \notin DOMAIN slabs
  BY DEF Grow, NewSlab
<1>3. /\ size \in Nat /\ n \in Nat \ {0} /\ PtrSize \in Nat \ {0} /\ b # Buffer
      /\ at \in Address /\ at.block = b /\ at.off = PtrSize
      /\ [block |-> b, off |-> PtrSize + size] \in Address
  BY <1>2, FixedFields DEF Address
<1>4. /\ <<b>> \o fixed.slab_list \in Seq(Blocks)
      /\ IsInjective(<<b>> \o fixed.slab_list)
      /\ Range(<<b>> \o fixed.slab_list) = (DOMAIN slabs \ {Buffer}) \cup {b}
  <2>1. /\ fixed.slab_list \in Seq(Blocks) /\ IsInjective(fixed.slab_list)
        /\ Range(fixed.slab_list) = DOMAIN slabs \ {Buffer}
    BY FixedFields DEF FixedInv, SlabsOwned
  <2> QED BY <1>2, <2>1, Pushed
<1>5. n * size = size + (n - 1) * size /\ (n - 1) * size \in Nat /\ n - 1 \in Nat
      /\ n * size \in Nat
  <2> HIDE DEF size, n
  <2>1. n - 1 \in Nat
    BY <1>3
  <2> QED BY <1>3, <2>1
<1>6. /\ fixed' \in FixedPools /\ fixed'.free_list = fixed.free_list
      /\ fixed'.slab_list = <<b>> \o fixed.slab_list
      /\ fixed'.chunk = [block |-> b, off |-> PtrSize + size]
      /\ fixed'.pieces_left = n - 1 /\ fixed'.piece_size = size
      /\ fixed'.live = fixed.live
  <2>1. fixed \in FixedPools
    BY FixedFields
  <2> HIDE DEF b, n, at
  <2> QED BY <1>1, <1>3, <1>4, <1>5, <2>1 DEF FixedPools
<1> HIDE DEF b, size, at, n
<1>7. /\ DOMAIN slabs' = DOMAIN slabs \cup {b} /\ slabs'[b] = n * size + PtrSize
      /\ \A c \in DOMAIN slabs : slabs'[c] = slabs[c]
  BY <1>1, <1>2 DEF WithBlock
<1>8. \A p \in Held : p.block # b
  BY <1>2 DEF FixedInv, PiecesApart, Held
<1>9. PtrSize + size <= slabs'[b] /\ (PtrSize + size) + (n - 1) * size <= slabs'[b]
  BY <1>3, <1>5, <1>7
<1>10. /\ Held' = Held \cup {at} /\ PieceHeldOnce' /\ PiecesApart'
       /\ PieceFitsLink' /\ EmptyOnceCleared'
  <2>1. PtrSize >= PtrSize
    BY <1>3
  <2> QED BY <1>1, <1>3, <1>6, <1>7, <1>8, <1>9, <2>1, NewPiece DEF size
<1>11. FixedTypeOK'
  <2>1. (DOMAIN slabs \subseteq Blocks \cup {Buffer} /\ Buffer \in DOMAIN slabs
        /\ \A c \in DOMAIN slabs : slabs[c] \in Nat)'
    <3>1. n * size + PtrSize \in Nat
      BY <1>3, <1>5
    <3> QED BY <1>2, <1>7, <3>1 DEF FixedInv, FixedTypeOK
  <2>2. Taken' \subseteq Address
    BY <1>1, <1>3, FixedFields
  <2>3. (\A p \in Taken : out[p] \in Nat \ {0})'
    BY DEF OnceEach
  <2> QED BY <1>6, <2>1, <2>2, <2>3 DEF FixedTypeOK, FixedPools
<1>12. SlabRestIsFree'
  <2>1. fixed'.chunk.block = b /\ fixed'.chunk.off = PtrSize + size
    BY <1>6
  <2>2. \A p \in Held \cup {at} : p.block = b => p.off + size <= PtrSize + size
    BY <1>3, <1>8
  <2>3. PtrSize + size >= PtrSize
    BY <1>3
  <2> QED BY <1>6, <1>7, <1>9, <1>10, <2>1, <2>2, <2>3 DEF SlabRestIsFree
<1>13. SlabsOwned'
  BY <1>3, <1>4, <1>6, <1>7 DEF SlabsOwned
<1> QED BY <1>10, <1>11, <1>12, <1>13 DEF FixedInv

LEMMA FixedClearKeeps ==
  ASSUME FixedInv, fixed_clear
  PROVE  FixedInv'
<1>1. /\ fixed' = [fixed EXCEPT !.slab_list = <<>>, !.live = FALSE] /\ Taken' = {}
      /\ slabs' = [b \in DOMAIN slabs \ Range(fixed.slab_list) |-> slabs[b]]
  BY NoneTaken DEF fixed_clear, Taken
<1>2. /\ fixed' \in FixedPools /\ fixed'.slab_list = <<>> /\ fixed'.live = FALSE
      /\ fixed'.free_list = fixed.free_list /\ fixed'.piece_size = fixed.piece_size
  <2>1. fixed \in FixedPools /\ <<>> \in Seq(Blocks)
    BY FixedFields
  <2>2. fixed' \in FixedPools
    BY <1>1, <2>1 DEF FixedPools
  <2>3. /\ fixed'.slab_list = <<>> /\ fixed'.live = FALSE
        /\ fixed'.free_list = fixed.free_list /\ fixed'.piece_size = fixed.piece_size
    BY <1>1, <2>1 DEF FixedPools
  <2> QED BY <2>2, <2>3
<1>3. DOMAIN slabs' = {Buffer} /\ slabs'[Buffer] \in Nat
  <2>1. /\ Range(fixed.slab_list) = DOMAIN slabs \ {Buffer}
        /\ Buffer \in DOMAIN slabs /\ slabs[Buffer] \in Nat
    BY DEF FixedInv, SlabsOwned, FixedTypeOK
  <2>2. DOMAIN slabs \ Range(fixed.slab_list) = {Buffer}
    BY <2>1
  <2> QED BY <1>1, <2>1, <2>2
<1> QED BY <1>1, <1>2, <1>3, NoneListed
        DEF FixedInv, FixedTypeOK, FixedPools, SlabRestIsFree, PieceFitsLink, EmptyOnceCleared,
            PieceHeldOnce, PiecesApart, SlabsOwned

LEMMA NextKeepsFixedInv == FixedInv /\ [FixedNext]_fixedVars => FixedInv'
<1> SUFFICES ASSUME FixedInv, [FixedNext]_fixedVars PROVE FixedInv'
  OBVIOUS
<1>1. ASSUME NEW p \in EmptyFixedPools, fixed_init(p) PROVE FixedInv'
  BY <1>1, FixedInitKeeps
<1>2. ASSUME fixed_alloc PROVE FixedInv'
  <2>1. fixed.live /\ (Reuse \/ Carve \/ Grow) /\ out' = out (+) SetToBag({NextPiece}) /\ OnceEach
    BY <1>2 DEF fixed_alloc, FixedInv, PieceHeldOnce, OnceEach
  <2>2. Taken' = Taken \cup {NextPiece} /\ OnceEach'
    BY <2>1, NextPieceIsNew, OneMore
  <2> QED BY <2>1, <2>2, ReuseKeeps, CarveKeeps, GrowKeeps
<1>3. ASSUME NEW p \in Taken, fixed_free(p) PROVE FixedInv'
  BY <1>3, FreeKeeps
<1>4. ASSUME fixed_clear PROVE FixedInv'
  BY <1>4, FixedClearKeeps
<1>5. ASSUME UNCHANGED fixedVars PROVE FixedInv'
  BY <1>5 DEF fixedVars, FixedInv, FixedTypeOK, SlabRestIsFree, PieceFitsLink,
              EmptyOnceCleared, PieceHeldOnce, PiecesApart, SlabsOwned, Held, Taken
<1> QED BY <1>1, <1>2, <1>3, <1>4, <1>5 DEF FixedNext

(* The invariant of the pool of equal pieces, after any sequence of calls. *)
THEOREM FixedInductive == FixedSpec => []FixedInv
BY InitIsFixedInv, NextKeepsFixedInv, PTL DEF FixedSpec

(* No piece is handed out again while a caller holds it: the bag of pieces *)
(* held has each of them once, whatever is allocated and freed.            *)
THEOREM NoPieceTwice == FixedSpec => []PieceHeldOnce
<1>1. FixedInv => PieceHeldOnce
  BY DEF FixedInv
<1> QED BY <1>1, FixedInductive, PTL

(* Pieces stay inside live slabs, off the links, and apart.                *)
THEOREM PiecesStayApart == FixedSpec => []PiecesApart
<1>1. FixedInv => PiecesApart
  BY DEF FixedInv
<1> QED BY <1>1, FixedInductive, PTL

(* fixed_clear frees every slab, once.                                     *)
THEOREM PoolOwnsItsSlabs == FixedSpec => []SlabsOwned
<1>1. FixedInv => SlabsOwned
  BY DEF FixedInv
<1> QED BY <1>1, FixedInductive, PTL

-----------------------------------------------------------------------------
(* Every step of the builder is a step of both its pools, or leaves them.  *)
LEMMA StepsArePoolSteps == [Next]_vars => [PoolNext]_poolVars /\ [FixedNext]_fixedVars
<1> USE DEF Enqueue, memdup
<1>1. ASSUME NEW len \in Lengths, append_nocopy(len)
      PROVE  UNCHANGED poolVars /\ FixedNext
  BY <1>1 DEF append_nocopy, FixedNext
<1>2. ASSUME NEW len \in Sizes, append(len) PROVE PoolNext /\ FixedNext
  BY <1>2 DEF append, PoolNext, FixedNext
<1>3. ASSUME append_placeholder PROVE UNCHANGED poolVars /\ FixedNext
  BY <1>3 DEF append_placeholder, FixedNext
<1>4. ASSUME NEW i, NEW len \in Sizes, update_placeholder(i, len)
      PROVE  PoolNext /\ UNCHANGED fixedVars
  BY <1>4 DEF update_placeholder, PoolNext
<1>5. ASSUME clear PROVE PoolNext /\ FixedNext
  BY <1>5 DEF clear, PoolNext, FixedNext
<1>6. ASSUME NEW n \in BufferSizes \cup {0}, NEW k \in BufferCounts, init_buf(n, k)
      PROVE  PoolNext /\ FixedNext
  BY <1>6, BuilderAssumption DEF init_buf, PoolNext, FixedNext, EmptyFixedPools
<1>7. ASSUME UNCHANGED vars PROVE UNCHANGED poolVars /\ UNCHANGED fixedVars
  BY <1>7 DEF vars
<1>8. Lengths \subseteq Sizes /\ 1 \in Lengths
  BY BuilderAssumption
<1> QED BY <1>1, <1>2, <1>3, <1>4, <1>5, <1>6, <1>7, <1>8 DEF Next, append_byte

LEMMA InitsAreInits == Init => PoolInit /\ FixedInit
BY BuilderAssumption DEF Init, FixedInit, EmptyFixedPools

(* What the builder does to str_buf is what a BulpMemPool allows, and the  *)
(* same for piece_buf.                                                     *)
THEOREM UsesItsPools == Spec => PoolSpec /\ FixedSpec
<1>1. [Next]_vars => [PoolNext]_poolVars
  BY StepsArePoolSteps
<1>2. [Next]_vars => [FixedNext]_fixedVars
  BY StepsArePoolSteps
<1> QED BY InitsAreInits, <1>1, <1>2, PTL DEF Spec, PoolSpec, FixedSpec

(* So str_buf hands out no byte twice and stays inside its chunks, and     *)
(* piece_buf hands out no piece twice, also while a data builder uses them.*)
THEOREM BuilderMemoryIsSound ==
  Spec => [](AllocationsInside /\ AllocationsApart /\ PieceHeldOnce /\ PiecesApart)
BY UsesItsPools, PoolStaysInside, PoolSharesNothing, NoPieceTwice, PiecesStayApart, PTL

-----------------------------------------------------------------------------
(* What callers told the builder.                                          *)

(* The bytes a piece points at, when m is the memory of str_buf.           *)
LoadIn(p, m) ==
  [i \in 1..p.len |->
     LET a == [p.data EXCEPT !.off = @ + i - 1]
     IN IF a.block = Caller THEN a.off
        ELSE IF a \in DOMAIN m THEN m[a] ELSE Garbage]

(* A piece's bytes are the caller's, or none, or one of str_buf's          *)
(* allocations g.                                                          *)
Backed(p, g) ==
  /\ p.len \in Nat
  /\ p.data \in [block : Blocks \cup {Buffer, Caller}, off : Nat]
  /\ \/ p.data.block = Caller
     \/ p.len = 0
     \/ \E a \in g : a.at = p.data /\ a.size = p.len

Tells(p, t, m, g) ==
  IF t = Open THEN p.len = PLACEHOLDER_SIZE ELSE Backed(p, g) /\ LoadIn(p, m) = t

QueueTells ==
  /\ queue \in Seq(Address) /\ told \in Seq(Seq(Int)) /\ Len(told) = Len(queue)
  /\ IsInjective(queue) /\ Range(queue) \subseteq Taken
  /\ Range(queue) \subseteq DOMAIN piece
  /\ \A i \in 1..Len(queue) : Tells(piece[queue[i]], told[i], bytes, given)

BuilderInv ==
  /\ pool.live = fixed.live
  /\ sent \in Nat
  /\ pool.live => QueueTells

(* The bytes alloc_unaligned returns are nobody's.                         *)
LEMMA PlaceIsNew ==
  ASSUME PoolInv, pool.live, NEW len \in Nat, alloc_unaligned(len)
  PROVE  /\ Place(pool, len) \in Address
         /\ given \subseteq given'
         /\ len > 0 => \E a \in given' : a.at = Place(pool, len) /\ a.size = len
         /\ \A a \in given : a.at.block = Place(pool, len).block =>
              a.at.off + a.size <= Place(pool, len).off
<1>1. /\ pool.chunk \in Address /\ pool.chunk_left \in Nat
      /\ given \subseteq [at : Address, size : Nat, aligned : BOOLEAN]
  BY PoolAssumption DEF PoolInv, PoolTypeOK
<1> DEFINE new == [at |-> Place(pool, len), size |-> len, aligned |-> FALSE]
<1>2. given' = given \cup {a \in {new} : a.size > 0}
  BY DEF alloc_unaligned, Cut, Hand
<1>3. len > 0 => \E a \in given' : a.at = Place(pool, len) /\ a.size = len
  <2> SUFFICES ASSUME len > 0 PROVE new \in given'
    OBVIOUS
  <2> QED BY <1>2
<1>4. CASE pool.chunk_left >= len
  <2>1. Place(pool, len) = pool.chunk
    BY <1>4 DEF Place
  <2> QED BY <1>1, <1>2, <1>3, <2>1 DEF PoolInv, RestIsFree
<1>5. CASE ~(pool.chunk_left >= len)
  <2>1. Place(pool, len) = [block |-> NewBlock, off |-> PtrSize]
    BY <1>5 DEF Place
  <2>2. NewBlock \in Blocks /\ NewBlock \notin DOMAIN memory
    BY <1>5 DEF alloc_unaligned, Cut, Bump, must_alloc, NewBlock
  <2>3. \A a \in given : a.at.block \in DOMAIN memory
    BY DEF PoolInv, AllocationsInside
  <2> QED BY <1>2, <1>3, <2>1, <2>2, <2>3, HeapAssumption DEF Address
<1> QED BY <1>4, <1>5

(* memdup leaves alone what the pieces already point at.                   *)
LEMMA MemdupKeeps ==
  ASSUME PoolInv, pool.live, NEW len \in Nat, memdup(len), sent \in Nat,
         NEW p, NEW t, Tells(p, t, bytes, given)
  PROVE  Tells(p, t, bytes', given')
<1> SUFFICES ASSUME t # Open PROVE Backed(p, given') /\ LoadIn(p, bytes') = LoadIn(p, bytes)
  BY DEF Tells
<1>1. Backed(p, given)
  BY DEF Tells
<1> DEFINE d == Place(pool, len)
           s == Supplied(len)
           to == {[d EXCEPT !.off = @ + i - 1] : i \in 1..Len(s)}
           at(i) == [p.data EXCEPT !.off = @ + i - 1]
<1>2. /\ d \in Address /\ given \subseteq given'
      /\ \A a \in given : a.at.block = d.block => a.at.off + a.size <= d.off
  BY PlaceIsNew DEF memdup
<1>3. Backed(p, given')
  BY <1>1, <1>2 DEF Backed
<1>4. bytes' = [c \in DOMAIN bytes \cup to |->
                 IF c \in to THEN s[c.off - d.off + 1] ELSE bytes[c]]
  BY DEF memdup, Copied
<1>5. \A c \in to : c.block = d.block /\ c.off >= d.off
  BY <1>2 DEF Address, Supplied
<1>6. \A i \in 1..p.len : at(i).block = p.data.block /\ at(i).off = p.data.off + i - 1
  BY <1>1 DEF Backed
<1>7. \A i \in 1..p.len : at(i).block # Caller => at(i) \notin to
  <2> SUFFICES ASSUME NEW i \in 1..p.len, at(i).block # Caller, at(i) \in to PROVE FALSE
    OBVIOUS
  <2>1. PICK a \in given : a.at = p.data /\ a.size = p.len
    BY <1>1, <1>6 DEF Backed
  <2>2. at(i).block = d.block /\ at(i).off >= d.off
    BY <1>5
  <2>3. p.data.off + p.len <= d.off
    BY <1>2, <1>6, <2>1, <2>2
  <2>4. p.len \in Nat /\ p.data.off \in Nat /\ d.off \in Nat
    BY <1>1, <1>2 DEF Backed, Address
  <2>5. p.data.off + i - 1 >= d.off
    BY <1>6, <2>2
  <2> HIDE DEF d, to, at, s
  <2> QED BY <2>3, <2>4, <2>5
<1>8. \A c : c \notin to =>
        /\ c \in DOMAIN bytes' <=> c \in DOMAIN bytes
        /\ c \in DOMAIN bytes => bytes'[c] = bytes[c]
  <2> HIDE DEF to
  <2> QED BY <1>4
<1> DEFINE val(i, m) == IF at(i).block = Caller THEN at(i).off
                        ELSE IF at(i) \in DOMAIN m THEN m[at(i)] ELSE Garbage
<1>9. \A i \in 1..p.len : val(i, bytes') = val(i, bytes)
  <2> SUFFICES ASSUME NEW i \in 1..p.len PROVE val(i, bytes') = val(i, bytes)
    OBVIOUS
  <2>1. PICK c : c = at(i)
    OBVIOUS
  <2>2. c.block # Caller => c \notin to
    BY <1>7, <2>1
  <2> HIDE DEF to
  <2>3. c.block # Caller =>
          /\ c \in DOMAIN bytes' <=> c \in DOMAIN bytes
          /\ c \in DOMAIN bytes => bytes'[c] = bytes[c]
    BY <1>8, <2>2
  <2>4. /\ val(i, bytes') = IF c.block = Caller THEN c.off
                            ELSE IF c \in DOMAIN bytes' THEN bytes'[c] ELSE Garbage
        /\ val(i, bytes) = IF c.block = Caller THEN c.off
                           ELSE IF c \in DOMAIN bytes THEN bytes[c] ELSE Garbage
    BY <2>1
  <2> HIDE DEF val, at
  <2> QED BY <2>3, <2>4
<1>10. /\ LoadIn(p, bytes') = [i \in 1..p.len |-> val(i, bytes')]
       /\ LoadIn(p, bytes) = [i \in 1..p.len |-> val(i, bytes)]
  BY DEF LoadIn
<1> HIDE DEF val
<1> QED BY <1>3, <1>9, <1>10

(* What is supplied is not taken for a placeholder.                        *)
LEMMA SuppliedIsNotOpen ==
  ASSUME sent \in Nat, NEW len \in Nat
  PROVE  Supplied(len) # Open /\ Supplied(len) \in Seq(Int) /\ Len(Supplied(len)) = len
<1>1. Supplied(len) \in Seq(Int) /\ Len(Supplied(len)) = len
  BY DEF Supplied
<1>2. len = 1 => Supplied(len)[1] = sent + 1
  BY DEF Supplied
<1>3. Len(Open) = 1 /\ Open[1] = -1
  BY DEF Open
<1>4. Supplied(len) # Open
  <2> SUFFICES ASSUME Supplied(len) = Open PROVE FALSE
    OBVIOUS
  <2>1. len = 1 /\ Supplied(len)[1] = -1
    BY <1>1, <1>3
  <2>2. sent + 1 = -1
    BY <1>2, <2>1
  <2> QED BY <2>2
<1> QED BY <1>1, <1>4

(* memdup's own copy is what was supplied.                                 *)
LEMMA MemdupTells ==
  ASSUME PoolInv, pool.live, NEW len \in Nat, memdup(len), sent \in Nat
  PROVE  Tells([len |-> len, data |-> Place(pool, len)], Supplied(len), bytes', given')
<1> DEFINE d == Place(pool, len)
           s == Supplied(len)
           p == [len |-> len, data |-> d]
           to == {[d EXCEPT !.off = @ + i - 1] : i \in 1..Len(s)}
           at(i) == [d EXCEPT !.off = @ + i - 1]
<1>1. /\ d \in Address
      /\ len > 0 => \E a \in given' : a.at = d /\ a.size = len
  BY PlaceIsNew DEF memdup
<1>2. s # Open /\ s \in Seq(Int) /\ Len(s) = len
  BY SuppliedIsNotOpen
<1>3. Backed(p, given')
  BY <1>1 DEF Backed, Address
<1>4. bytes' = [c \in DOMAIN bytes \cup to |->
                 IF c \in to THEN s[c.off - d.off + 1] ELSE bytes[c]]
  BY DEF memdup, Copied
<1>5. \A i \in 1..len : at(i).block # Caller /\ at(i).off = d.off + i - 1 /\ at(i) \in to
  BY <1>1, <1>2, BuilderAssumption DEF Address
<1>6. \A i \in 1..len : at(i) \in DOMAIN bytes' /\ bytes'[at(i)] = s[i]
  <2> SUFFICES ASSUME NEW i \in 1..len PROVE at(i) \in DOMAIN bytes' /\ bytes'[at(i)] = s[i]
    OBVIOUS
  <2>1. at(i).off - d.off + 1 = i
    <3>1. d.off \in Nat
      BY <1>1 DEF Address
    <3> HIDE DEF at, d
    <3> QED BY <1>5, <3>1
  <2> HIDE DEF at, d, to, s
  <2> QED BY <1>4, <1>5, <2>1
<1>7. LoadIn(p, bytes') =
        [i \in 1..len |-> IF at(i).block = Caller THEN at(i).off
                          ELSE IF at(i) \in DOMAIN bytes' THEN bytes'[at(i)] ELSE Garbage]
  BY DEF LoadIn
<1>8. s = [i \in 1..len |-> s[i]]
  BY DEF Supplied
<1>9. LoadIn(p, bytes') = s
  <2> HIDE DEF at, d, p, s
  <2> QED BY <1>5, <1>6, <1>7, <1>8
<1> QED BY <1>2, <1>3, <1>9 DEF Tells

-----------------------------------------------------------------------------
(* The operations.                                                         *)

(* A piece that tells the truth, added at the end.                         *)
LEMMA EnqueueTells ==
  ASSUME FixedInv, QueueTells, NEW p, NEW t \in Seq(Int),
         Enqueue(p), told' = Append(told, t), Tells(p, t, bytes', given'),
         \A i \in 1..Len(queue) : Tells(piece[queue[i]], told[i], bytes', given')
  PROVE  QueueTells'
<1> DEFINE n == NextPiece
           S == Seq(Int)
           k == Len(queue)
<1>1. /\ n \in Address /\ n \notin Taken /\ Taken' = Taken \cup {n}
      /\ queue' = Append(queue, n)
      /\ piece' = [a \in DOMAIN piece \cup {n} |-> IF a = n THEN p ELSE piece[a]]
  <2>1. fixed.live /\ (Reuse \/ Carve \/ Grow) /\ out' = out (+) SetToBag({n}) /\ OnceEach
    BY DEF Enqueue, fixed_alloc, FixedInv, PieceHeldOnce, OnceEach
  <2>2. n \in Address /\ n \notin Taken /\ Taken' = Taken \cup {n}
    BY <2>1, NextPieceIsNew, OneMore
  <2> QED BY <2>2 DEF Enqueue
<1>2. /\ queue \in Seq(Address) /\ told \in Seq(S) /\ Len(told) = k /\ k \in Nat
      /\ IsInjective(queue) /\ Range(queue) \subseteq Taken
      /\ Range(queue) \subseteq DOMAIN piece /\ t \in S
  BY DEF QueueTells
<1>3. DOMAIN queue = 1..k
  BY <1>2
<1>4. \A i \in 1..k : queue[i] \in Range(queue) /\ queue[i] # n
  BY <1>1, <1>2, <1>3 DEF Range
<1> HIDE DEF n, S
<1>5. /\ queue' \in Seq(Address) /\ Len(queue') = k + 1 /\ queue'[k + 1] = n
      /\ DOMAIN queue' = 1..(k + 1)
      /\ \A i \in 1..k : queue'[i] = queue[i]
  BY <1>1, <1>2
<1>6. /\ told' \in Seq(S) /\ Len(told') = k + 1 /\ told'[k + 1] = t
      /\ \A i \in 1..k : told'[i] = told[i]
  BY <1>2
<1> HIDE DEF k
<1>7. \A i \in 1..(k + 1) : i = k + 1 \/ i \in 1..k
  BY <1>2
<1>8. IsInjective(queue')
  <2> SUFFICES ASSUME NEW i \in 1..(k + 1), NEW j \in 1..(k + 1), queue'[i] = queue'[j]
               PROVE  i = j
    BY <1>5 DEF IsInjective
  <2>1. CASE i \in 1..k /\ j \in 1..k
    BY <1>2, <1>3, <1>5, <2>1 DEF IsInjective
  <2>2. CASE i = k + 1 \/ j = k + 1
    BY <1>4, <1>5, <1>7, <2>2
  <2> QED BY <1>7, <2>1, <2>2
<1>9. Range(queue') \subseteq Range(queue) \cup {n}
  BY <1>4, <1>5, <1>7 DEF Range
<1>10. \A i \in 1..(k + 1) : Tells(piece'[queue'[i]], told'[i], bytes', given')
  <2> SUFFICES ASSUME NEW i \in 1..(k + 1)
               PROVE  Tells(piece'[queue'[i]], told'[i], bytes', given')
    OBVIOUS
  <2>1. CASE i = k + 1
    <3>1. piece'[queue'[i]] = p /\ told'[i] = t
      BY <1>1, <1>5, <1>6, <2>1
    <3> QED BY <3>1
  <2>2. CASE i \in 1..k
    <3>1. piece'[queue'[i]] = piece[queue[i]] /\ told'[i] = told[i]
      BY <1>1, <1>2, <1>4, <1>5, <1>6, <2>2
    <3>2. Tells(piece[queue[i]], told[i], bytes', given')
      BY <2>2 DEF k
    <3> QED BY <3>1, <3>2
  <2> QED BY <1>7, <2>1, <2>2
<1>11. Range(queue') \subseteq Taken' /\ Range(queue') \subseteq DOMAIN piece'
  BY <1>1, <1>2, <1>9
<1> QED BY <1>5, <1>6, <1>8, <1>10, <1>11 DEF QueueTells, S

LEMMA AllocKeepsLive ==
  /\ \A len : PoolTypeOK /\ alloc_unaligned(len) => pool.live /\ pool'.live = pool.live
  /\ FixedTypeOK /\ fixed_alloc => fixed.live /\ fixed'.live = fixed.live
<1>1. ASSUME NEW len, PoolTypeOK, alloc_unaligned(len)
      PROVE  pool.live /\ pool'.live = pool.live
  BY <1>1 DEF alloc_unaligned, Cut, Bump, must_alloc, PoolTypeOK
<1>2. ASSUME FixedTypeOK, fixed_alloc PROVE fixed.live /\ fixed'.live = fixed.live
  BY <1>2 DEF fixed_alloc, Reuse, Carve, Grow, FixedTypeOK
<1> QED BY <1>1, <1>2

LEMMA NocopyTells ==
  ASSUME BuilderInv, PoolInv, FixedInv, NEW len \in Nat, append_nocopy(len)
  PROVE  BuilderInv'
<1> DEFINE p == [len |-> len, data |-> [block |-> Caller, off |-> sent + 1]]
           t == Supplied(len)
<1>1. /\ Enqueue(p) /\ told' = Append(told, t) /\ sent' = sent + len
      /\ UNCHANGED <<memory, pool, given, bytes>> /\ sent \in Nat
  BY DEF append_nocopy, Supply, poolVars, BuilderInv
<1>2. t # Open /\ t \in Seq(Int)
  BY <1>1, SuppliedIsNotOpen
<1>3. fixed.live /\ fixed'.live = fixed.live /\ pool.live = fixed.live /\ QueueTells
  BY <1>1, AllocKeepsLive DEF Enqueue, FixedInv, BuilderInv
<1>4. Tells(p, t, bytes', given')
  <2>1. LoadIn(p, bytes') = t
    <3>1. LoadIn(p, bytes') = [i \in 1..len |-> sent + 1 + i - 1]
      BY DEF LoadIn
    <3>2. \A i \in 1..len : sent + 1 + i - 1 = sent + i
      BY <1>1
    <3> QED BY <3>1, <3>2 DEF Supplied
  <2>2. Backed(p, given')
    BY <1>1 DEF Backed
  <2> QED BY <1>2, <2>1, <2>2 DEF Tells
<1>5. \A i \in 1..Len(queue) : Tells(piece[queue[i]], told[i], bytes', given')
  BY <1>1, <1>3 DEF QueueTells
<1> HIDE DEF p, t
<1>6. QueueTells'
  BY <1>1, <1>2, <1>3, <1>4, <1>5, EnqueueTells
<1>7. sent' \in Nat /\ pool'.live = fixed'.live
  BY <1>1, <1>3
<1> QED BY <1>6, <1>7 DEF BuilderInv

LEMMA AppendTells ==
  ASSUME BuilderInv, PoolInv, FixedInv, NEW len \in Nat, append(len)
  PROVE  BuilderInv'
<1> DEFINE p == [len |-> len, data |-> Place(pool, len)]
           t == Supplied(len)
<1>1. /\ Enqueue(p) /\ memdup(len) /\ told' = Append(told, t) /\ sent' = sent + len
      /\ sent \in Nat
  BY DEF append, Supply, BuilderInv
<1>2. t # Open /\ t \in Seq(Int)
  BY <1>1, SuppliedIsNotOpen
<1>3. /\ pool.live /\ pool.live = fixed.live /\ QueueTells
      /\ pool'.live = pool.live /\ fixed'.live = fixed.live
  BY <1>1, AllocKeepsLive DEF Enqueue, memdup, PoolInv, FixedInv, BuilderInv
<1>4. fixed.live
  BY <1>3
<1>5. Tells(p, t, bytes', given')
  BY <1>1, <1>3, MemdupTells
<1>6. \A i \in 1..Len(queue) : Tells(piece[queue[i]], told[i], bytes', given')
  BY <1>1, <1>3, MemdupKeeps DEF QueueTells
<1> HIDE DEF p, t
<1>7. QueueTells'
  BY <1>1, <1>2, <1>3, <1>5, <1>6, EnqueueTells
<1> QED BY <1>1, <1>3, <1>7 DEF BuilderInv

LEMMA PlaceholderTells ==
  ASSUME BuilderInv, PoolInv, FixedInv, append_placeholder
  PROVE  BuilderInv'
<1> DEFINE p == [len |-> PLACEHOLDER_SIZE, data |-> NULL]
<1>1. /\ Enqueue(p) /\ told' = Append(told, Open)
      /\ UNCHANGED <<memory, pool, given, bytes, sent>>
  BY DEF append_placeholder, poolVars
<1>2. /\ pool.live = fixed.live /\ fixed.live /\ fixed'.live = fixed.live
      /\ QueueTells /\ sent \in Nat
  BY <1>1, AllocKeepsLive DEF Enqueue, FixedInv, BuilderInv
<1>3. Open \in Seq(Int) /\ Tells(p, Open, bytes', given')
  BY DEF Open, Tells
<1>4. \A i \in 1..Len(queue) : Tells(piece[queue[i]], told[i], bytes', given')
  BY <1>1, <1>2 DEF QueueTells
<1> HIDE DEF p
<1>5. QueueTells'
  BY <1>1, <1>2, <1>3, <1>4, EnqueueTells
<1> QED BY <1>1, <1>2, <1>5 DEF BuilderInv

LEMMA UpdateTells ==
  ASSUME BuilderInv, PoolInv, FixedInv, NEW i \in DOMAIN queue, NEW len \in Nat,
         update_placeholder(i, len)
  PROVE  BuilderInv'
<1> DEFINE p == [len |-> len, data |-> Place(pool, len)]
           t == Supplied(len)
           S == Seq(Int)
           k == Len(queue)
<1>1. /\ pool.live /\ memdup(len) /\ sent' = sent + len
      /\ piece' = [piece EXCEPT ![queue[i]] = p] /\ told' = [told EXCEPT ![i] = t]
      /\ UNCHANGED <<slabs, fixed, Taken, queue>>
  BY DEF update_placeholder, Supply, fixedVars, Taken
<1>2. /\ pool.live = fixed.live /\ pool'.live = pool.live /\ QueueTells /\ sent \in Nat
  BY <1>1, AllocKeepsLive DEF memdup, PoolInv, BuilderInv
<1>3. /\ queue \in Seq(Address) /\ told \in Seq(S) /\ Len(told) = k /\ k \in Nat
      /\ IsInjective(queue) /\ Range(queue) \subseteq Taken
      /\ Range(queue) \subseteq DOMAIN piece
      /\ DOMAIN queue = 1..k
  BY <1>2 DEF QueueTells
<1>3a. t \in S
  BY <1>2, SuppliedIsNotOpen
<1>4. Tells(p, t, bytes', given')
  BY <1>1, <1>2, MemdupTells
<1>5. \A j \in 1..k : Tells(piece[queue[j]], told[j], bytes', given')
  BY <1>1, <1>2, MemdupKeeps DEF QueueTells
<1> HIDE DEF p, t, S, k
<1>6. told' \in Seq(S) /\ Len(told') = k /\ told'[i] = t
      /\ \A j \in 1..k : j # i => told'[j] = told[j]
  BY <1>1, <1>3, <1>3a
<1>7. /\ \A j \in 1..k : queue[j] \in DOMAIN piece
      /\ \A j \in 1..k : j # i => queue[j] # queue[i]
  BY <1>3 DEF Range, IsInjective
<1>8. /\ DOMAIN piece' = DOMAIN piece /\ piece'[queue[i]] = p
      /\ \A j \in 1..k : j # i => piece'[queue[j]] = piece[queue[j]]
  BY <1>1, <1>3, <1>7
<1>9. \A j \in 1..k : Tells(piece'[queue[j]], told'[j], bytes', given')
  <2> SUFFICES ASSUME NEW j \in 1..k
               PROVE  Tells(piece'[queue[j]], told'[j], bytes', given')
    OBVIOUS
  <2>1. CASE j = i
    BY <1>4, <1>6, <1>8, <2>1
  <2>2. CASE j # i
    <3>1. piece'[queue[j]] = piece[queue[j]] /\ told'[j] = told[j]
      BY <1>6, <1>8, <2>2
    <3> QED BY <1>5, <3>1
  <2> QED BY <2>1, <2>2
<1>10. QueueTells'
  BY <1>1, <1>3, <1>6, <1>8, <1>9 DEF QueueTells, S, k
<1>11. sent' \in Nat
  BY <1>1, <1>2
<1> QED BY <1>1, <1>2, <1>10, <1>11 DEF BuilderInv

LEMMA ClearTells ==
  ASSUME BuilderInv, PoolInv, FixedInv, clear
  PROVE  BuilderInv'
<1>1. pool'.live = FALSE
  BY DEF clear, pool_clear, PoolInv, PoolTypeOK
<1>2. fixed'.live = FALSE
  BY DEF clear, fixed_clear, FixedInv, FixedTypeOK
<1>3. sent' \in Nat
  BY DEF clear, BuilderInv
<1> QED BY <1>1, <1>2, <1>3 DEF BuilderInv

LEMMA EmptyTells ==
  ASSUME queue = <<>>, told = <<>>
  PROVE  QueueTells
BY DEF QueueTells, IsInjective, Range

LEMMA InitTells == Init => BuilderInv
<1> SUFFICES ASSUME Init PROVE BuilderInv
  OBVIOUS
<1>1. pool.live = TRUE /\ fixed.live = TRUE
  BY DEF Init, PoolInit, InitBuf, EmptyPool, EmptyFixed
<1>2. QueueTells /\ sent \in Nat
  BY EmptyTells DEF Init
<1> QED BY <1>1, <1>2 DEF BuilderInv

LEMMA InitBufTells ==
  ASSUME NEW n, NEW k, init_buf(n, k)
  PROVE  BuilderInv'
<1>1. pool'.live = TRUE /\ fixed'.live = TRUE
  BY DEF init_buf, pool_init, fixed_init, EmptyPool, EmptyFixed
<1>2. queue' = <<>> /\ told' = <<>> /\ sent' = 0
  BY DEF init_buf
<1>3. QueueTells'
  BY <1>2 DEF QueueTells, IsInjective, Range
<1> QED BY <1>1, <1>2, <1>3 DEF BuilderInv

LEMMA NextTells == PoolInv /\ FixedInv /\ BuilderInv /\ [Next]_vars => BuilderInv'
<1> SUFFICES ASSUME PoolInv, FixedInv, BuilderInv, [Next]_vars PROVE BuilderInv'
  OBVIOUS
<1>1. Lengths \subseteq Nat /\ 1 \in Nat
  BY BuilderAssumption, PoolAssumption
<1>2. ASSUME NEW len \in Lengths, append_nocopy(len) PROVE BuilderInv'
  BY <1>1, <1>2, NocopyTells
<1>3. ASSUME NEW len \in Lengths, append(len) PROVE BuilderInv'
  BY <1>1, <1>3, AppendTells
<1>4. ASSUME append_byte PROVE BuilderInv'
  BY <1>1, <1>4, AppendTells DEF append_byte
<1>5. ASSUME append_placeholder PROVE BuilderInv'
  BY <1>5, PlaceholderTells
<1>6. ASSUME NEW i \in DOMAIN queue, NEW len \in Lengths, update_placeholder(i, len)
      PROVE  BuilderInv'
  BY <1>1, <1>6, UpdateTells
<1>7. ASSUME clear PROVE BuilderInv'
  BY <1>7, ClearTells
<1>8. ASSUME NEW n, NEW k, init_buf(n, k) PROVE BuilderInv'
  BY <1>8, InitBufTells
<1>9. ASSUME UNCHANGED vars PROVE BuilderInv'
  BY <1>9 DEF vars, poolVars, fixedVars, builder, BuilderInv, QueueTells, Tells, Backed, LoadIn, Taken
<1> QED BY <1>2, <1>3, <1>4, <1>5, <1>6, <1>7, <1>8, <1>9 DEF Next

(* The builder's queue, its pieces and their bytes agree with what callers *)
(* supplied, after any sequence of calls.                                  *)
THEOREM BuilderInductive == Spec => []BuilderInv
<1>1. Spec => []PoolInv /\ []FixedInv
  BY UsesItsPools, PoolInductive, FixedInductive, PTL
<1> QED BY <1>1, InitTells, NextTells, PTL DEF Spec

(* The bytes of every piece of a BulpDataBuilder stay what its caller      *)
(* supplied, whatever is appended or filled in afterwards, until clear.    *)
THEOREM NothingIsOverwritten == Spec => []PiecesAreTold
<1>1. BuilderInv => PiecesAreTold
  <2> SUFFICES ASSUME BuilderInv, pool.live, NEW i \in DOMAIN queue, told[i] # Open
               PROVE  Load(piece[queue[i]]) = told[i]
    BY DEF PiecesAreTold, BuilderInv, QueueTells, Tells
  <2>1. i \in 1..Len(queue) /\ Tells(piece[queue[i]], told[i], bytes, given)
    BY DEF BuilderInv, QueueTells
  <2> QED BY <2>1 DEF Tells, LoadIn, Load
<1> QED BY <1>1, BuilderInductive, PTL

-----------------------------------------------------------------------------
(* What get_size tells.                                                    *)

(* The bytes supplied, piece by piece; a placeholder has none yet.         *)
Filling(t) == [i \in 1..Len(t) |-> IF t[i] = Open THEN <<>> ELSE t[i]]
Joined(t) == FlattenSeq(Filling(t))

(* cur_len counts the bytes supplied, and no piece is as long as what      *)
(* marks a placeholder: a second update of one is stopped.                 *)
SizeInv ==
  /\ told \in Seq(Seq(Int)) /\ cur_len \in Nat
  /\ \A i \in 1..Len(told) : told[i] = Open \/ Len(told[i]) < PLACEHOLDER_SIZE
  /\ Len(Joined(told)) = cur_len

LEMMA FillingTyped ==
  ASSUME NEW t \in Seq(Seq(Int))
  PROVE  /\ Filling(t) \in Seq(Seq(Int)) /\ Len(Filling(t)) = Len(t)
         /\ Joined(t) \in Seq(Int)
<1>1. Len(t) \in Nat /\ \A i \in 1..Len(t) : t[i] \in Seq(Int)
  BY LenProperties, ElementOfSeq
<1>2. <<>> \in Seq(Int)
  OBVIOUS
<1>3. Filling(t) \in [1..Len(t) -> Seq(Int)]
  BY <1>1, <1>2 DEF Filling
<1>4. Filling(t) \in Seq(Seq(Int)) /\ Len(Filling(t)) = Len(t)
  BY <1>1, <1>3, FunctionIsSeq
<1> QED BY <1>4, FlattenType DEF Joined

LEMMA NothingJoined == <<>> \in Seq(Seq(Int)) /\ Len(<<>>) = 0 /\ Len(Joined(<<>>)) = 0
<1>1. <<>> \in Seq(Seq(Int)) /\ Len(<<>>) = 0
  OBVIOUS
<1>2. Filling(<<>>) = <<>>
  BY DEF Filling
<1>3. FlattenSeq(<<>>) = <<>>
  BY FlattenFew
<1> QED BY <1>1, <1>2, <1>3 DEF Joined

LEMMA JoinedAppend ==
  ASSUME NEW t \in Seq(Seq(Int)), NEW x \in Seq(Int)
  PROVE  /\ x = Open => Len(Joined(Append(t, x))) = Len(Joined(t))
         /\ x # Open => Len(Joined(Append(t, x))) = Len(Joined(t)) + Len(x)
<1> DEFINE S == Seq(Int)
           z == IF x = Open THEN <<>> ELSE x
           n == Len(t)
           f == Filling(t)
           g == Filling(Append(t, x))
<1>1. /\ z \in S /\ t \in Seq(S) /\ x \in S /\ n \in Nat
      /\ x = Open => z = <<>>
      /\ x # Open => z = x
  BY LenProperties
<1>2. f \in Seq(S) /\ Len(f) = n /\ \A i \in 1..n : f[i] = IF t[i] = Open THEN <<>> ELSE t[i]
  BY FillingTyped DEF Filling
<1>3. /\ Append(t, x) \in Seq(S) /\ Len(Append(t, x)) = n + 1
      /\ \A i \in 1..n : Append(t, x)[i] = t[i]
      /\ Append(t, x)[n + 1] = x
  <2> HIDE DEF S, z
  <2> QED BY <1>1
<1>4. /\ g \in Seq(S) /\ Len(g) = n + 1
      /\ \A i \in 1..n + 1 : g[i] = IF Append(t, x)[i] = Open THEN <<>> ELSE Append(t, x)[i]
  <2>1. /\ g \in Seq(S) /\ Len(g) = n + 1
    BY <1>3, FillingTyped
  <2> QED BY <1>3, <2>1 DEF Filling
<1>5. (\A i \in 1..n : g[i] = f[i]) /\ g[n + 1] = z
  <2>1. \A i \in 1..n : i \in 1..n + 1
    BY <1>1
  <2>2. n + 1 \in 1..n + 1
    BY <1>1
  <2>3. g[n + 1] = z
    BY <1>3, <1>4, <2>2
  <2> HIDE DEF f, g, n
  <2> QED BY <1>2, <1>3, <1>4, <2>1, <2>3
<1>6. /\ Append(f, z) \in Seq(S) /\ Len(Append(f, z)) = n + 1
      /\ \A i \in 1..n : Append(f, z)[i] = f[i]
      /\ Append(f, z)[n + 1] = z
  <2> HIDE DEF S, z, f, n
  <2> QED BY <1>1, <1>2
<1>7. g = Append(f, z)
  <2> DEFINE h == Append(f, z)
  <2> HIDE DEF S, z, f, g, n, h
  <2>1. \A i \in 1..n + 1 : i \in 1..n \/ i = n + 1
    BY <1>1
  <2>2. Len(g) = Len(h) /\ \A i \in 1..Len(g) : g[i] = h[i]
    BY <1>4, <1>5, <1>6, <2>1 DEF h
  <2>3. g = h
    BY <1>4, <1>6, <2>2, SeqEqual DEF h
  <2> QED BY <2>3 DEF h
<1>8. FlattenSeq(g) = FlattenSeq(f) \o z /\ FlattenSeq(f) \in Seq(Int)
  <2>1. FlattenSeq(Append(f, z)) = FlattenSeq(f) \o z
    <3> HIDE DEF z, f
    <3> QED BY <1>1, <1>2, FlattenLonger
  <2> QED BY <1>2, <1>7, <2>1, FlattenType
<1>9. Len(FlattenSeq(g)) = Len(FlattenSeq(f)) + Len(z) /\ Len(FlattenSeq(f)) \in Nat
  <2> HIDE DEF f, g, z
  <2> QED BY <1>1, <1>8, ConcatProperties, LenProperties
<1>10. Len(<<>>) = 0
  OBVIOUS
<1>11. Joined(Append(t, x)) = FlattenSeq(g) /\ Joined(t) = FlattenSeq(f)
  BY DEF Joined
<1> HIDE DEF z, f, g
<1>12. x = Open => Len(z) = 0
  BY <1>1, <1>10
<1>13. x = Open => Len(FlattenSeq(g)) = Len(FlattenSeq(f))
  BY <1>9, <1>12
<1>14. x # Open => Len(FlattenSeq(g)) = Len(FlattenSeq(f)) + Len(x)
  BY <1>1, <1>9
<1> QED BY <1>11, <1>13, <1>14

LEMMA JoinedUpdate ==
  ASSUME NEW t \in Seq(Seq(Int)), NEW x \in Seq(Int), x # Open,
         NEW i \in 1..Len(t), t[i] = Open
  PROVE  Len(Joined([t EXCEPT ![i] = x])) = Len(Joined(t)) + Len(x)
<1> DEFINE S == Seq(Int)
           n == Len(t)
           u == [t EXCEPT ![i] = x]
           f == Filling(t)
           g == Filling(u)
           h == [f EXCEPT ![i] = x]
<1>1. t \in Seq(S) /\ x \in S /\ n \in Nat
  BY LenProperties
<1>2. f \in Seq(S) /\ Len(f) = n /\ \A j \in 1..n : f[j] = IF t[j] = Open THEN <<>> ELSE t[j]
  BY FillingTyped DEF Filling
<1>3. u \in Seq(S) /\ Len(u) = n /\ \A j \in 1..n : u[j] = IF j = i THEN x ELSE t[j]
  <2> HIDE DEF S
  <2> QED BY <1>1, ExceptSeq
<1>4. g \in Seq(S) /\ Len(g) = n /\ \A j \in 1..n : g[j] = IF u[j] = Open THEN <<>> ELSE u[j]
  <2>1. g \in Seq(S) /\ Len(g) = n
    BY <1>3, FillingTyped
  <2> QED BY <1>3, <2>1 DEF Filling
<1>5. h \in Seq(S) /\ Len(h) = n /\ \A j \in 1..n : h[j] = IF j = i THEN x ELSE f[j]
  <2>1. i \in 1..Len(f)
    BY <1>2
  <2> HIDE DEF S, f
  <2> QED BY <1>1, <1>2, <2>1, ExceptSeq
<1>6. g = h
  <2> HIDE DEF S, u, f, g, h, n
  <2>1. \A j \in 1..n : g[j] = h[j]
    BY <1>2, <1>3, <1>4, <1>5
  <2>2. Len(g) = Len(h) /\ \A j \in 1..Len(g) : g[j] = h[j]
    BY <1>4, <1>5, <2>1
  <2> QED BY <1>4, <1>5, <2>2, SeqEqual
<1>7. f[i] = <<>> /\ i \in 1..Len(f)
  BY <1>2
<1>8. Len(FlattenSeq(h)) = Len(FlattenSeq(f)) + Len(x)
  <2> HIDE DEF f
  <2> QED BY <1>1, <1>2, <1>7, FlattenLonger
<1> QED BY <1>6, <1>8 DEF Joined

(* A piece of len bytes, or a placeholder, is appended.                    *)
LEMMA AppendSizes ==
  ASSUME SizeInv, NEW x \in Seq(Int), told' = Append(told, x), NEW k \in Nat,
         \/ x = Open /\ k = 0
         \/ x # Open /\ k = Len(x) /\ k < PLACEHOLDER_SIZE,
         cur_len' = cur_len + k
  PROVE  SizeInv'
<1> DEFINE S == Seq(Int)
           n == Len(told)
<1>1. told \in Seq(S) /\ x \in S /\ n \in Nat /\ cur_len \in Nat
  BY LenProperties DEF SizeInv
<1>2. /\ told' \in Seq(S) /\ Len(told') = n + 1 /\ told'[n + 1] = x
      /\ \A i \in 1..n : told'[i] = told[i]
  <2> HIDE DEF S
  <2> QED BY <1>1
<1>3. \A i \in 1..Len(told') : told'[i] = Open \/ Len(told'[i]) < PLACEHOLDER_SIZE
  <2>1. \A i \in 1..n + 1 : i \in 1..n \/ i = n + 1
    BY <1>1
  <2>2. \A i \in 1..n : told[i] = Open \/ Len(told[i]) < PLACEHOLDER_SIZE
    BY DEF SizeInv
  <2> HIDE DEF n
  <2> QED BY <1>2, <2>1, <2>2
<1>4. Len(Joined(told)) = cur_len
  BY DEF SizeInv
<1>5. Len(Joined(told')) = cur_len'
  BY <1>1, <1>4, JoinedAppend
<1> QED BY <1>1, <1>2, <1>3, <1>5 DEF SizeInv

LEMMA UpdateSizes ==
  ASSUME SizeInv, BuilderInv, NEW i \in DOMAIN queue, NEW len \in Lengths,
         update_placeholder(i, len)
  PROVE  SizeInv'
<1> DEFINE S == Seq(Int)
           n == Len(told)
           x == Supplied(len)
<1>1. /\ pool.live /\ piece[queue[i]].len = PLACEHOLDER_SIZE
      /\ told' = [told EXCEPT ![i] = x] /\ cur_len' = cur_len + len
  BY DEF update_placeholder, Supply
<1>2. len \in Nat /\ len < PLACEHOLDER_SIZE /\ PLACEHOLDER_SIZE \in Int
  BY BuilderAssumption, PoolAssumption DEF PLACEHOLDER_SIZE
<1>3. x \in Seq(Int) /\ x # Open /\ Len(x) = len
  BY <1>2, SuppliedIsNotOpen DEF BuilderInv
<1>4. /\ told \in Seq(S) /\ n \in Nat /\ i \in 1..n
      /\ Tells(piece[queue[i]], told[i], bytes, given)
  BY <1>1, LenProperties DEF BuilderInv, QueueTells
<1>5. told[i] = Open
  <2> SUFFICES ASSUME told[i] # Open PROVE FALSE
    OBVIOUS
  <2>1. LoadIn(piece[queue[i]], bytes) = told[i]
    BY <1>4 DEF Tells
  <2>2. DOMAIN LoadIn(piece[queue[i]], bytes) = 1..PLACEHOLDER_SIZE
    BY <1>1 DEF LoadIn
  <2>3. told[i] \in Seq(Int) /\ Len(told[i]) < PLACEHOLDER_SIZE
    BY <1>4, ElementOfSeq DEF SizeInv
  <2>4. DOMAIN told[i] = 1..Len(told[i]) /\ Len(told[i]) \in Nat
    BY <2>3, LenProperties
  <2>5. PLACEHOLDER_SIZE \in 1..PLACEHOLDER_SIZE /\ PLACEHOLDER_SIZE \notin 1..Len(told[i])
    BY <1>2, <2>3, <2>4
  <2> QED BY <2>1, <2>2, <2>4, <2>5
<1> HIDE DEF x
<1>6. /\ told' \in Seq(S) /\ Len(told') = n
      /\ \A j \in 1..n : told'[j] = IF j = i THEN x ELSE told[j]
  <2>1. x \in S
    BY <1>3
  <2> HIDE DEF S
  <2> QED BY <1>1, <1>4, <2>1, ExceptSeq
<1>7. Len(Joined(told')) = Len(Joined(told)) + Len(x)
  BY <1>1, <1>3, <1>4, <1>5, JoinedUpdate
<1>8. \A j \in 1..n : told'[j] = Open \/ Len(told'[j]) < PLACEHOLDER_SIZE
  BY <1>2, <1>3, <1>6 DEF SizeInv
<1> QED BY <1>1, <1>2, <1>3, <1>6, <1>7, <1>8 DEF SizeInv

LEMMA NextSizes == BuilderInv /\ SizeInv /\ [Next]_vars => SizeInv'
<1> SUFFICES ASSUME BuilderInv, SizeInv, [Next]_vars PROVE SizeInv'
  OBVIOUS
<1>1. /\ \A len \in Lengths : len \in Nat /\ len < PLACEHOLDER_SIZE
      /\ 1 \in Lengths
  BY BuilderAssumption, PoolAssumption DEF PLACEHOLDER_SIZE
<1>2. ASSUME NEW len \in Lengths, Supply(len), told' = Append(told, Supplied(len))
      PROVE  SizeInv'
  <2>1. cur_len' = cur_len + len
    BY <1>2 DEF Supply
  <2>2. Supplied(len) \in Seq(Int) /\ Supplied(len) # Open /\ Len(Supplied(len)) = len
    BY <1>1, SuppliedIsNotOpen DEF BuilderInv
  <2> QED BY <1>1, <1>2, <2>1, <2>2, AppendSizes
<1>3. ASSUME NEW len \in Lengths, append_nocopy(len) PROVE SizeInv'
  BY <1>2, <1>3 DEF append_nocopy
<1>4. ASSUME NEW len \in Lengths, append(len) PROVE SizeInv'
  BY <1>2, <1>4 DEF append
<1>5. ASSUME append_byte PROVE SizeInv'
  BY <1>1, <1>4, <1>5 DEF append_byte
<1>6. ASSUME append_placeholder PROVE SizeInv'
  <2>1. told' = Append(told, Open) /\ cur_len' = cur_len
    BY <1>6 DEF append_placeholder
  <2>2. Open \in Seq(Int) /\ cur_len = cur_len + 0
    BY DEF Open, SizeInv
  <2> QED BY <2>1, <2>2, AppendSizes
<1>7. ASSUME NEW i \in DOMAIN queue, NEW len \in Lengths, update_placeholder(i, len)
      PROVE  SizeInv'
  BY <1>7, UpdateSizes
<1>8. ASSUME UNCHANGED <<cur_len, told>> PROVE SizeInv'
  BY <1>8 DEF SizeInv
<1>9. ASSUME clear PROVE SizeInv'
  BY <1>8, <1>9 DEF clear
<1>10. ASSUME NEW n, NEW k, init_buf(n, k) PROVE SizeInv'
  BY <1>10, NothingJoined DEF init_buf, SizeInv
<1>11. ASSUME UNCHANGED vars PROVE SizeInv'
  BY <1>8, <1>11 DEF vars, builder
<1> QED BY <1>3, <1>4, <1>5, <1>6, <1>7, <1>9, <1>10, <1>11 DEF Next

LEMMA SizeInductive == Spec => []SizeInv
<1>1. Init => SizeInv
  BY NothingJoined DEF Init, SizeInv
<1> QED BY <1>1, NextSizes, BuilderInductive, PTL DEF Spec

(* What bulp_data_builder_get_size tells is what build writes, once every  *)
(* placeholder is filled: callers allocate that much and build into it.    *)
THEOREM SizeIsRight == Spec => []SizeIsBuilt
<1>1. BuilderInv /\ SizeInv => SizeIsBuilt
  <2> SUFFICES ASSUME BuilderInv, SizeInv, pool.live, Filled PROVE Len(build) = get_size
    BY DEF SizeIsBuilt
  <2>1. /\ DOMAIN queue = 1..Len(told)
        /\ \A i \in 1..Len(told) : Tells(piece[queue[i]], told[i], bytes, given)
    BY DEF BuilderInv, QueueTells
  <2>2. ASSUME NEW i \in 1..Len(told)
        PROVE  told[i] # Open /\ Load(piece[queue[i]]) = told[i]
    <3>1. piece[queue[i]].len # PLACEHOLDER_SIZE
      BY <2>1 DEF Filled
    <3> QED BY <2>1, <3>1 DEF Tells, LoadIn, Load
  <2>3. [i \in DOMAIN queue |-> Load(piece[queue[i]])] = Filling(told)
    <3>1. \A i \in 1..Len(told) :
            Load(piece[queue[i]]) = IF told[i] = Open THEN <<>> ELSE told[i]
      BY <2>2
    <3> QED BY <2>1, <3>1 DEF Filling
  <2> QED BY <2>3 DEF build, get_size, Joined, SizeInv
<1> QED BY <1>1, BuilderInductive, SizeInductive, PTL
=============================================================================
