-------------------------------- MODULE Heap --------------------------------
(* Memory as the pools see it: blocks of bytes from malloc, each beginning *)
(* at an aligned address, and one block that was not malloc'd.             *)
EXTENDS Integers, Sequences, Functions

CONSTANTS
  PtrSize,   (* the size of a pointer                                      *)
  Buffer,    (* the block a caller hands to init_buf                       *)
  Blocks     (* BOUND: the blocks malloc can return                        *)

ASSUME HeapAssumption == PtrSize \in Nat \ {0} /\ Buffer \notin Blocks

Address == [block : Blocks \cup {Buffer}, off : Nat]

NULL == [block |-> Buffer, off |-> 0]

(* The blocks of m, with block b of n bytes among them.                    *)
WithBlock(m, b, n) == [c \in DOMAIN m \cup {b} |-> IF c = b THEN n ELSE m[c]]
=============================================================================
