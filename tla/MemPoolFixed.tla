---------------------------- MODULE MemPoolFixed ----------------------------
(***************************************************************************)
(* BulpMemPoolFixed, the pool of equal pieces of bulp-mem-pool.c: freed    *)
(* pieces are reused first, last in first out, then pieces are cut from    *)
(* the current slab, then a slab of PiecesPerSlab pieces is malloc'd.      *)
(***************************************************************************)
EXTENDS Heap, Bags

CONSTANTS
  PiecesPerSlab,  (* 256                                                   *)
  PieceSizes,     (* BOUND: the sizes of piece asked for                   *)
  BufferCounts    (* BOUND: the pieces in the buffer handed to init_buf    *)

ASSUME FixedAssumption ==
  /\ PiecesPerSlab \in Nat \ {0}
  /\ PieceSizes \subseteq Nat
  /\ BufferCounts \subseteq Nat

VARIABLES
  slabs,    (* the blocks that may be touched, with their sizes            *)
  fixed,    (* the BulpMemPoolFixed, and whether it is in use              *)
  out       (* the bag of pieces callers hold: a piece that was handed out *)
            (* twice is in it twice                                        *)

fixedVars == <<slabs, fixed, out>>

Taken == DOMAIN out

-----------------------------------------------------------------------------
EmptyFixed(size, n) ==
  [slab_list |-> <<>>, chunk |-> NULL, pieces_left |-> n,
   piece_size |-> size, free_list |-> <<>>, live |-> TRUE]

(* A piece on the free list holds a link, so a piece has room for one:     *)
(* construct rounds up, init_buf leaves it to its caller (the data         *)
(* builder, whose pieces are structures with pointers in them).            *)
Rounded(size) ==
  LET up == ((size + PtrSize - 1) \div PtrSize) * PtrSize
  IN IF up < PtrSize THEN PtrSize ELSE up

EmptyFixedPools ==
  {EmptyFixed(Rounded(size), 0) : size \in PieceSizes} \cup
  {EmptyFixed(size, n) : size \in {s \in PieceSizes : s >= PtrSize}, n \in BufferCounts}

FixedInit ==
  /\ fixed \in EmptyFixedPools
  /\ slabs = [b \in {Buffer} |-> fixed.pieces_left * fixed.piece_size]
  /\ out = EmptyBag

fixed_init(p) ==
  /\ ~fixed.live
  /\ fixed' = p
  /\ slabs' = WithBlock(slabs, Buffer, p.pieces_left * p.piece_size)
  /\ out' = EmptyBag

-----------------------------------------------------------------------------
NewSlab == CHOOSE b \in Blocks : b \notin DOMAIN slabs

(* The piece fixed_alloc returns next.                                     *)
NextPiece ==
  IF fixed.free_list # <<>> THEN Head(fixed.free_list)
  ELSE IF fixed.pieces_left # 0 THEN fixed.chunk
  ELSE [block |-> NewSlab, off |-> PtrSize]

Reuse ==
  /\ fixed.free_list # <<>>
  /\ fixed' = [fixed EXCEPT !.free_list = Tail(@)]
  /\ UNCHANGED slabs

(* Broken variant: the next piece is the same one.                         *)
Carve_StaysPut ==
  /\ fixed.free_list = <<>> /\ fixed.pieces_left # 0
  /\ fixed' = [fixed EXCEPT !.pieces_left = @ - 1]
  /\ UNCHANGED slabs

Carve ==
  /\ fixed.free_list = <<>> /\ fixed.pieces_left # 0
  /\ fixed' = [fixed EXCEPT !.chunk.off = @ + fixed.piece_size, !.pieces_left = @ - 1]
  /\ UNCHANGED slabs

(* Broken variants: the piece handed out still counts; the older slabs     *)
(* are dropped from slab_list.                                             *)
Grow_OnePieceTooMany ==
  /\ fixed.free_list = <<>> /\ fixed.pieces_left = 0
  /\ Blocks \ DOMAIN slabs # {}
  /\ slabs' = WithBlock(slabs, NewSlab, PiecesPerSlab * fixed.piece_size + PtrSize)
  /\ fixed' = [fixed EXCEPT !.slab_list = <<NewSlab>> \o @,
                            !.chunk = [block |-> NewSlab, off |-> PtrSize + fixed.piece_size],
                            !.pieces_left = PiecesPerSlab]

Grow_LosesSlabs ==
  /\ fixed.free_list = <<>> /\ fixed.pieces_left = 0
  /\ Blocks \ DOMAIN slabs # {}
  /\ slabs' = WithBlock(slabs, NewSlab, PiecesPerSlab * fixed.piece_size + PtrSize)
  /\ fixed' = [fixed EXCEPT !.slab_list = <<NewSlab>>,
                            !.chunk = [block |-> NewSlab, off |-> PtrSize + fixed.piece_size],
                            !.pieces_left = PiecesPerSlab - 1]

Grow ==
  /\ fixed.free_list = <<>> /\ fixed.pieces_left = 0
  /\ Blocks \ DOMAIN slabs # {}
  /\ slabs' = WithBlock(slabs, NewSlab, PiecesPerSlab * fixed.piece_size + PtrSize)
  /\ fixed' = [fixed EXCEPT !.slab_list = <<NewSlab>> \o @,
                            !.chunk = [block |-> NewSlab, off |-> PtrSize + fixed.piece_size],
                            !.pieces_left = PiecesPerSlab - 1]

fixed_alloc ==
  /\ fixed.live
  /\ Reuse \/ Carve \/ Grow
  /\ out' = out (+) SetToBag({NextPiece})

fixed_free(p) ==
  /\ fixed.live /\ p \in Taken
  /\ fixed' = [fixed EXCEPT !.free_list = <<p>> \o @]
  /\ out' = out (-) SetToBag({p})
  /\ UNCHANGED slabs

(* Frees the slabs and sets slab_list to NULL; chunk, pieces_left and      *)
(* free_list still point into them.                                        *)
fixed_clear ==
  /\ fixed.live
  /\ slabs' = [b \in DOMAIN slabs \ Range(fixed.slab_list) |-> slabs[b]]
  /\ fixed' = [fixed EXCEPT !.slab_list = <<>>, !.live = FALSE]
  /\ out' = EmptyBag

FixedNext ==
  \/ \E p \in EmptyFixedPools : fixed_init(p)
  \/ fixed_alloc
  \/ \E p \in Taken : fixed_free(p)
  \/ fixed_clear

FixedSpec == FixedInit /\ [][FixedNext]_fixedVars

-----------------------------------------------------------------------------
FixedTypeOK ==
  /\ DOMAIN slabs \subseteq Blocks \cup {Buffer} /\ Buffer \in DOMAIN slabs
  /\ \A b \in DOMAIN slabs : slabs[b] \in Nat
  /\ fixed \in [slab_list : Seq(Blocks), chunk : Address, pieces_left : Nat,
                piece_size : Nat, free_list : Seq(Address), live : BOOLEAN]
  /\ Taken \subseteq Address /\ \A p \in Taken : out[p] \in Nat \ {0}

(* No piece is handed out again while a caller holds it, neither from the  *)
(* free list nor by cutting; a piece is with a caller or on the free list, *)
(* never both and never twice on the list.                                 *)
PieceHeldOnce ==
  /\ \A p \in Taken : out[p] = 1
  /\ IsInjective(fixed.free_list)
  /\ fixed.live => Range(fixed.free_list) \cap Taken = {}

(* Pieces, held or free, lie inside blocks that have not been freed, clear *)
(* of the link, and apart from each other.                                 *)
PiecesApart ==
  fixed.live =>
    LET pieces == Taken \cup Range(fixed.free_list)
    IN /\ \A p \in pieces :
            /\ p.block \in DOMAIN slabs
            /\ p.off + fixed.piece_size <= slabs[p.block]
            /\ p.block # Buffer => p.off >= PtrSize
       /\ \A p, q \in pieces :
            p # q /\ p.block = q.block =>
              p.off + fixed.piece_size <= q.off \/ q.off + fixed.piece_size <= p.off

(* Every slab is on slab_list, once, until clear frees it.                 *)
SlabsOwned ==
  /\ IsInjective(fixed.slab_list)
  /\ Range(fixed.slab_list) = DOMAIN slabs \ {Buffer}
=============================================================================
