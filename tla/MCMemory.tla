------------------------------ MODULE MCMemory ------------------------------
(* Small instances of the pools and of the data builder for TLC.  The      *)
(* program that drives them is chosen at the start: a data builder, a      *)
(* client of a MemPool, or a client of a MemPoolFixed.  The two clients    *)
(* use all operations, aligned allocation and free among them.             *)
EXTENDS DataBuilder, TLC

CONSTANTS k1, k2, k3

VARIABLE driver

NoBuilder ==
  /\ piece = [a \in {} |-> 0] /\ queue = <<>> /\ cur_len = 0
  /\ bytes = [a \in {} |-> 0] /\ told = <<>> /\ sent = 0

MCInit ==
  \/ driver = "builder" /\ Init
  \/ driver = "pool" /\ Init /\ fixed = EmptyFixed(PieceSize, 0)
  \/ driver = "fixed" /\ InitBuf(0) /\ FixedInit /\ NoBuilder

MCNext ==
  /\ UNCHANGED driver
  /\ \/ driver = "builder" /\ Next
     \/ driver = "pool" /\ PoolNext /\ UNCHANGED <<fixedVars, builder>>
     \/ driver = "fixed" /\ FixedNext /\ UNCHANGED <<poolVars, builder>>

MCSpec == MCInit /\ [][MCNext]_<<vars, driver>>

Symmetry == Permutations(Blocks)

(* Nothing reads a pool or a builder between clear and init_buf.           *)
StateView ==
  <<driver, memory, slabs, out, given, pool.live, fixed.live,
    IF pool.live THEN <<pool, told, queue, piece, bytes, cur_len, sent>> ELSE <<>>,
    IF fixed.live THEN fixed ELSE <<>> >>
=============================================================================
