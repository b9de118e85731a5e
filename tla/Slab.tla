-------------------------------- MODULE Slab --------------------------------
(***************************************************************************)
(* bulp-slab.h: memory that is used again and again and only grows.  A     *)
(* slab's `data' is the number of its allocation, 0 for NULL: realloc may  *)
(* move what it grows, so each gets the next number and pointers into the  *)
(* last one dangle.  `bytes' are the contents of the allocation.           *)
(***************************************************************************)
EXTENDS Integers, SequencesExt

CONSTANTS
  SLAB_MIN,      (* the size of a first allocation                         *)
  Garbage        (* memory nobody has written to                           *)

ASSUME SlabAssumption == SLAB_MIN \in Nat \ {0}

SlabInit == [length |-> 0, alloced |-> 0, data |-> 0, bytes |-> <<>>]

(* new_alloced after the k-th round of the loop: doubled until it is       *)
(* enough, which takes fewer than size rounds.                             *)
Doubled(alloced, size) ==
  LET new_alloced[k \in 0 .. size] ==
        IF k = 0 THEN IF alloced = 0 THEN SLAB_MIN ELSE 2 * alloced
        ELSE IF new_alloced[k - 1] < size THEN 2 * new_alloced[k - 1] ELSE new_alloced[k - 1]
  IN new_alloced[size]

set_size(slab, size) ==
  IF slab.alloced >= size THEN [slab EXCEPT !.length = size]
  ELSE LET alloced == Doubled(slab.alloced, size)
       IN [length |-> size, alloced |-> alloced, data |-> slab.data + 1,
           bytes |-> slab.bytes \o [i \in 1 .. alloced - slab.alloced |-> Garbage]]

truncate(slab, size) == [slab EXCEPT !.length = size]

(* memcpy to the data, from off on.                                        *)
Copied(slab, off, s) ==
  [slab EXCEPT !.bytes = [i \in DOMAIN slab.bytes |->
                            IF i \in off + 1 .. off + Len(s) THEN s[i - off] ELSE @[i]]]

set_data(slab, s) == Copied(set_size(slab, Len(s)), 0, s)

(* Pointers, and what lies between a pointer and length bytes behind it.   *)
Pointer(slab, off) == [data |-> slab.data, off |-> off]
get_end(slab) == Pointer(slab, slab.length)
Behind(slab, off, length) == SubSeq(slab.bytes, off + 1, off + length)
=============================================================================
