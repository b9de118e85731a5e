------------------------------- MODULE MemPool -------------------------------
(***************************************************************************)
(* BulpMemPool, the allocate-only pool of bulp-mem-pool.h and .c: memory   *)
(* is cut from the current chunk by moving a pointer, a request that does  *)
(* not fit mallocs a new chunk, and everything is freed at once by clear.  *)
(* An address is a block (a malloc of the pool, or the buffer its owner    *)
(* handed over) and an offset; offset 0 of a malloc is aligned and its     *)
(* first PtrSize bytes are the link of all_chunk_list.                     *)
(***************************************************************************)
EXTENDS Heap

CONSTANTS
  ChunkSize,    (* CHUNK_SIZE                                              *)
  UIntSize,     (* chunk_left is an unsigned: arithmetic modulo UIntSize   *)
  Sizes,        (* BOUND: the sizes callers ask for                        *)
  BufferSizes   (* BOUND: the sizes of the buffers handed to init_buf      *)

ASSUME PoolAssumption ==
  /\ ChunkSize \in Nat /\ ChunkSize % PtrSize = 0
  /\ UIntSize \in Nat /\ ChunkSize < UIntSize
  /\ Sizes \subseteq Nat
  /\ BufferSizes \subseteq 0..(UIntSize - 1)

VARIABLES
  memory,   (* the blocks that may be touched, with their sizes            *)
  pool,     (* the BulpMemPool, and whether it is in use: initialised and  *)
            (* not cleared since                                           *)
  given     (* the allocations handed out since it was initialised         *)

poolVars == <<memory, pool, given>>

-----------------------------------------------------------------------------
(* NULL is the end of a buffer of no bytes.  A buffer may have been        *)
(* anywhere, so callers of init_buf only ask for unaligned memory (the     *)
(* only one is the data builder).                                          *)
EmptyPool(n) ==
  [all_chunk_list |-> <<>>, chunk |-> NULL,
   chunk_left |-> n, live |-> TRUE, aligned |-> n = 0]

InitBuf(n) ==
  /\ memory = [b \in {Buffer} |-> n]
  /\ pool = EmptyPool(n)
  /\ given = {}

PoolInit == \E n \in BufferSizes \cup {0} : InitBuf(n)

(* bulp_mem_pool_init is init_buf (0, NULL).                               *)
pool_init(n) ==
  /\ ~pool.live
  /\ memory' = WithBlock(memory, Buffer, n)
  /\ pool' = EmptyPool(n)
  /\ given' = {}

-----------------------------------------------------------------------------
NewBlock == CHOOSE b \in Blocks : b \notin DOMAIN memory

(* Where a pool in state p puts the next `size' bytes.                     *)
Place(p, size) ==
  IF p.chunk_left >= size THEN p.chunk
  ELSE [block |-> NewBlock, off |-> PtrSize]

(* An allocation of no bytes is no memory.                                 *)
Hand(p, size, aligned) ==
  given' = given \cup
    {a \in {[at |-> Place(p, size), size |-> size, aligned |-> aligned]} : a.size > 0}

(* Broken variants: a chunk is used one byte beyond its end; the pointer   *)
(* does not move.                                                          *)
Bump_FitsByOne(p, size) ==
  /\ p.chunk_left + 1 >= size
  /\ pool' = [p EXCEPT !.chunk.off = @ + size, !.chunk_left = @ - size]
  /\ UNCHANGED memory

Bump_StaysPut(p, size) ==
  /\ p.chunk_left >= size
  /\ pool' = [p EXCEPT !.chunk_left = @ - size]
  /\ UNCHANGED memory

Bump(p, size) ==
  /\ p.chunk_left >= size
  /\ pool' = [p EXCEPT !.chunk.off = @ + size, !.chunk_left = @ - size]
  /\ UNCHANGED memory

(* Broken variant: no room for the link.                                   *)
Malloced_NoLink(size) == IF size < ChunkSize THEN ChunkSize ELSE size

Malloced(size) == PtrSize + (IF size < ChunkSize THEN ChunkSize ELSE size)

(* Broken variant: the chunks behind the head are dropped.                 *)
Second_DropsTail(list, b) == IF list = <<>> THEN <<b>> ELSE <<Head(list), b>>

Second(list, b) == IF list = <<>> THEN <<b>> ELSE <<Head(list), b>> \o Tail(list)

(* bulp_mem_pool_must_alloc: a small request starts a new chunk; a large   *)
(* one gets a chunk of its own, linked behind the head, and the pointer    *)
(* stays in the current chunk.                                             *)
must_alloc(p, size) ==
  /\ p.chunk_left < size
  /\ Blocks \ DOMAIN memory # {}
  /\ memory' = WithBlock(memory, NewBlock, Malloced(size))
  /\ \/ /\ size < ChunkSize
        /\ pool' = [p EXCEPT !.all_chunk_list = <<NewBlock>> \o @,
                             !.chunk = [block |-> NewBlock, off |-> PtrSize + size],
                             !.chunk_left = ChunkSize - size]
     \/ /\ size >= ChunkSize
        /\ pool' = [p EXCEPT !.all_chunk_list = Second(@, NewBlock)]

(* Broken variant: the alignment shortens the chunk only.                  *)
Align_StaysPut(p) ==
  LET mask == p.chunk.off % PtrSize
  IN IF mask = 0 THEN p
     ELSE [p EXCEPT !.chunk_left = (@ - (PtrSize - mask)) % UIntSize]

(* bulp_mem_pool_align: note that nothing checks chunk_left >= align.      *)
Align(p) ==
  LET mask == p.chunk.off % PtrSize
  IN IF mask = 0 THEN p
     ELSE [p EXCEPT !.chunk.off = @ + (PtrSize - mask),
                    !.chunk_left = (@ - (PtrSize - mask)) % UIntSize]

Cut(p, size, aligned) ==
  /\ pool.live
  /\ Bump(p, size) \/ must_alloc(p, size)
  /\ Hand(p, size, aligned)

alloc_unaligned(size) == Cut(pool, size, FALSE)

alloc(size) == pool.aligned /\ Cut(Align(pool), size, TRUE)

(* Frees the chunks met along all_chunk_list, and leaves the fields.       *)
pool_clear ==
  /\ pool.live
  /\ memory' = [b \in DOMAIN memory \ Range(pool.all_chunk_list) |-> memory[b]]
  /\ pool' = [pool EXCEPT !.live = FALSE]
  /\ given' = {}

PoolNext ==
  \/ \E n \in BufferSizes \cup {0} : pool_init(n)
  \/ \E size \in Sizes : alloc_unaligned(size) \/ alloc(size)
  \/ pool_clear

PoolSpec == PoolInit /\ [][PoolNext]_poolVars

-----------------------------------------------------------------------------
PoolTypeOK ==
  /\ DOMAIN memory \subseteq Blocks \cup {Buffer} /\ Buffer \in DOMAIN memory
  /\ \A b \in DOMAIN memory : memory[b] \in Nat
  /\ pool \in [all_chunk_list : Seq(Blocks), chunk : Address, live : BOOLEAN,
               chunk_left : 0..(UIntSize - 1), aligned : BOOLEAN]
  /\ given \subseteq [at : Address, size : Nat, aligned : BOOLEAN]

Bytes(a) == a.at.off .. a.at.off + a.size - 1

(* What is handed out lies inside a block that has not been freed, and     *)
(* never covers the link at the front of a malloc'd chunk: the alignment   *)
(* step may not run past the end of the chunk, nor may the unsigned        *)
(* chunk_left wrap.                                                        *)
AllocationsInside ==
  \A a \in given :
    /\ a.at.block \in DOMAIN memory
    /\ a.at.off + a.size <= memory[a.at.block]
    /\ a.at.block # Buffer => a.at.off >= PtrSize

(* No byte is handed out twice.                                            *)
AllocationsApart ==
  \A a, c \in given : a # c /\ a.at.block = c.at.block => Bytes(a) \cap Bytes(c) = {}

(* bulp_mem_pool_alloc returns aligned memory whatever was cut before.     *)
AllocationsAligned ==
  \A a \in given : a.aligned => a.at.off % PtrSize = 0

(* Every chunk that is malloc'd is on all_chunk_list, once: clear frees it *)
(* and frees nothing twice, also when large chunks were linked in second   *)
(* place.                                                                  *)
ChunksOwned ==
  /\ IsInjective(pool.all_chunk_list)
  /\ pool.live => Range(pool.all_chunk_list) = DOMAIN memory \ {Buffer}
  /\ ~pool.live => DOMAIN memory = {Buffer}
=============================================================================
