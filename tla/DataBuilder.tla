----------------------------- MODULE DataBuilder -----------------------------
(***************************************************************************)
(* BulpDataBuilder (bulp-data-builder.h and .c): a list of pieces of data, *)
(* whose structures come from a MemPoolFixed and whose copied bytes come   *)
(* from a MemPool; the first memory of both is on the caller's stack.      *)
(* Packing a format appends pieces, then the bytes are joined by build or  *)
(* appended to a buffer.                                                   *)
(*                                                                         *)
(* The bytes the caller supplies are told apart by numbering them: the     *)
(* n-th byte ever supplied is n.                                           *)
(***************************************************************************)
EXTENDS MemPool, MemPoolFixed, SequencesExt

CONSTANTS
  Caller,      (* the memory nocopy data is in                             *)
  PieceSize,   (* the size of a BulpDataBuilderPiece                       *)
  Lengths,     (* BOUND: the lengths appended                              *)
  MaxBytes,    (* BOUND: the bytes supplied                                *)
  MaxPieces    (* BOUND: the pieces of a builder                           *)

(* The len of a piece is an unsigned, and its last value marks a           *)
(* placeholder.                                                            *)
PLACEHOLDER_SIZE == UIntSize - 1

ASSUME BuilderAssumption ==
  /\ PieceSize \in PieceSizes /\ PieceSize >= PtrSize
  /\ Caller \notin Blocks \cup {Buffer}
  /\ Lengths \subseteq Sizes /\ Lengths \subseteq 0..(PLACEHOLDER_SIZE - 1)
  /\ 1 \in Lengths
  /\ MaxBytes \in Nat /\ MaxPieces \in Nat

(* str_buf is the MemPool of module MemPool and piece_buf the one of       *)
(* module MemPoolFixed.                                                    *)
VARIABLES
  piece,     (* the BulpDataBuilderPieces, by address                      *)
  queue,     (* first_piece and its successors                             *)
  cur_len,
  bytes,     (* the bytes stored in str_buf's blocks, by address           *)
  told,      (* what callers appended, in order: bytes, or Open            *)
  sent       (* how many bytes callers have supplied                       *)

builder == <<piece, queue, cur_len, bytes, told, sent>>
vars == <<poolVars, fixedVars, builder>>

Open == <<-1>>
Garbage == 0

-----------------------------------------------------------------------------
Supplied(len) == [i \in 1..len |-> sent + i]

(* The bytes a piece with these fields points at.                          *)
Load(p) ==
  [i \in 1..p.len |->
     LET a == [p.data EXCEPT !.off = @ + i - 1]
     IN IF a.block = Caller THEN a.off
        ELSE IF a \in DOMAIN bytes THEN bytes[a] ELSE Garbage]

(* memcpy of s to address a.                                               *)
Copied(a, s) ==
  LET to == {[a EXCEPT !.off = @ + i - 1] : i \in 1..Len(s)}
  IN [c \in DOMAIN bytes \cup to |-> IF c \in to THEN s[c.off - a.off + 1] ELSE bytes[c]]

Init ==
  /\ PoolInit
  /\ \E n \in BufferCounts : fixed = EmptyFixed(PieceSize, n)
  /\ slabs = [b \in {Buffer} |-> fixed.pieces_left * fixed.piece_size]
  /\ out = EmptyBag
  /\ piece = [a \in {} |-> 0] /\ queue = <<>> /\ cur_len = 0
  /\ bytes = [a \in {} |-> 0] /\ told = <<>> /\ sent = 0

-----------------------------------------------------------------------------
(* A new piece at the end of the queue.                                    *)
Enqueue(p) ==
  /\ Len(queue) < MaxPieces
  /\ fixed_alloc
  /\ piece' = [a \in DOMAIN piece \cup {NextPiece} |->
                 IF a = NextPiece THEN p ELSE piece[a]]
  /\ queue' = Append(queue, NextPiece)

(* bulp_mem_pool_memdup of the next len bytes.                             *)
memdup(len) ==
  /\ alloc_unaligned(len)
  /\ bytes' = Copied(Place(pool, len), Supplied(len))

Supply(len) ==
  /\ sent + len <= MaxBytes
  /\ sent' = sent + len
  /\ cur_len' = cur_len + len

append_nocopy(len) ==
  /\ Supply(len)
  /\ Enqueue([len |-> len, data |-> [block |-> Caller, off |-> sent + 1]])
  /\ told' = Append(told, Supplied(len))
  /\ UNCHANGED <<poolVars, bytes>>

(* Broken variant: the pool's pointer is read after the copy.              *)
append_PointsPastCopy(len) ==
  /\ Supply(len)
  /\ memdup(len)
  /\ Enqueue([len |-> len, data |-> pool'.chunk])
  /\ told' = Append(told, Supplied(len))

append(len) ==
  /\ Supply(len)
  /\ Enqueue([len |-> len, data |-> Place(pool, len)])
  /\ memdup(len)
  /\ told' = Append(told, Supplied(len))

append_byte == append(1)

append_placeholder ==
  /\ Enqueue([len |-> PLACEHOLDER_SIZE, data |-> NULL])
  /\ told' = Append(told, Open)
  /\ UNCHANGED <<poolVars, bytes, cur_len, sent>>

(* Broken variant: the bytes filled in are not counted.                    *)
update_placeholder_NotCounted(i, len) ==
  LET a == queue[i]
  IN /\ pool.live
     /\ piece[a].len = PLACEHOLDER_SIZE
     /\ sent + len <= MaxBytes /\ sent' = sent + len
     /\ memdup(len)
     /\ piece' = [piece EXCEPT ![a] = [len |-> len, data |-> Place(pool, len)]]
     /\ told' = [told EXCEPT ![i] = Supplied(len)]
     /\ UNCHANGED <<fixedVars, queue, cur_len>>

(* The caller kept the piece append_placeholder gave it; a second update   *)
(* is stopped by the assertion.                                            *)
update_placeholder(i, len) ==
  LET a == queue[i]
  IN /\ pool.live
     /\ piece[a].len = PLACEHOLDER_SIZE
     /\ Supply(len)
     /\ memdup(len)
     /\ piece' = [piece EXCEPT ![a] = [len |-> len, data |-> Place(pool, len)]]
     /\ told' = [told EXCEPT ![i] = Supplied(len)]
     /\ UNCHANGED <<fixedVars, queue>>

(* Frees both pools; the builder's own fields stay.                        *)
clear ==
  /\ pool_clear
  /\ fixed_clear
  /\ piece' = [a \in {c \in DOMAIN piece : c.block = Buffer} |-> piece[a]]
  /\ bytes' = [a \in {c \in DOMAIN bytes : c.block = Buffer} |-> bytes[a]]
  /\ UNCHANGED <<queue, cur_len, told, sent>>

(* BULP_DATA_BUILDER_RESET_ON_STACK is clear followed by this on the same  *)
(* memory; what an earlier use left there counts as garbage, and the       *)
(* numbering of the bytes starts again.                                    *)
init_buf(n, k) ==
  /\ pool_init(n)
  /\ fixed_init(EmptyFixed(PieceSize, k))
  /\ queue' = <<>> /\ cur_len' = 0 /\ told' = <<>> /\ sent' = 0
  /\ piece' = [a \in {} |-> 0] /\ bytes' = [a \in {} |-> 0]

Next ==
  \/ \E len \in Lengths : append_nocopy(len) \/ append(len)
  \/ append_byte
  \/ append_placeholder
  \/ \E i \in DOMAIN queue, len \in Lengths : update_placeholder(i, len)
  \/ clear
  \/ \E n \in BufferSizes \cup {0}, k \in BufferCounts : init_buf(n, k)

Spec == Init /\ [][Next]_vars

-----------------------------------------------------------------------------
(* What build copies to data_out and to_buffer appends; the caller has     *)
(* filled every placeholder.                                               *)
Filled == \A i \in DOMAIN queue : piece[queue[i]].len # PLACEHOLDER_SIZE
build == FlattenSeq([i \in DOMAIN queue |-> Load(piece[queue[i]])])
get_size == cur_len

-----------------------------------------------------------------------------
BuilderTypeOK ==
  /\ queue \in Seq(Address)
  /\ pool.live => Range(queue) \subseteq DOMAIN piece
  /\ cur_len \in 0..MaxBytes /\ sent \in 0..MaxBytes
  /\ Len(told) = Len(queue)

(* Each piece still is what its caller supplied: bytes copied into the     *)
(* pool, or a piece's structure, are never overwritten by a later append,  *)
(* a new chunk, a new slab or a placeholder filled in the middle, and a    *)
(* placeholder stays one until its own update.                             *)
PiecesAreTold ==
  pool.live =>
    \A i \in DOMAIN queue :
      LET p == piece[queue[i]]
      IN IF told[i] = Open THEN p.len = PLACEHOLDER_SIZE ELSE Load(p) = told[i]

(* get_size is what build writes, which is what callers allocate for it.   *)
SizeIsBuilt == pool.live /\ Filled => Len(build) = get_size
=============================================================================
