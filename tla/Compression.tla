----------------------------- MODULE Compression ----------------------------
(***************************************************************************)
(* bulp-compression.c.  zlib and snappy are external: what they make of s  *)
(* is a sequence of cells that only holds together as a whole.  A length   *)
(* written as a varint is one cell (module IntCodecs has the varints), and *)
(* bytes that have been spoilt are Garbage.                                *)
(***************************************************************************)
EXTENDS Slab

CONSTANTS
  NONE, ZLIB, SNAPPY,
  MaxLength      (* BOUND: the largest length that spoilt bytes read as    *)

ASSUME CompressionAssumption ==
  /\ NONE # ZLIB /\ NONE # SNAPPY /\ ZLIB # SNAPPY
  /\ MaxLength \in Nat

(* What bulp_uint_unpack may make of the cell at a place, of which nothing *)
(* is known unless it is a length: it runs off the end, or gives a number. *)
NoLength == -1
AnyLength == {NoLength} \cup 0 .. MaxLength
Lengths(cells, at) ==
  IF at > Len(cells) THEN {NoLength} ELSE IF cells[at] \in Nat THEN {cells[at]} ELSE AnyLength

(* External: the two halves of compressed bytes, and a bound of them.      *)
Squeezed(algo, s) == <<[by |-> algo, of |-> s, half |-> 1], [by |-> algo, of |-> s, half |-> 2]>>
Bound(s) == Len(s) + 3
Whole(algo, cells) ==
  cells # <<>> /\ cells[1] # Garbage /\ cells = Squeezed(algo, cells[1].of)

(* External: snappy_uncompressed_length goes by the first bytes alone.     *)
HeadLengths(cells) ==
  IF cells = <<>> THEN {NoLength} ELSE IF cells[1] = Garbage THEN AnyLength ELSE {Len(cells[1].of)}

bulp_compress(algo, s, slab) ==
  CASE algo = NONE   -> set_data(slab, s)
    [] algo = ZLIB   -> truncate(Copied(set_size(slab, 1 + Bound(s)), 0,
                                        <<Len(s)>> \o Squeezed(ZLIB, s)), 3)
    [] algo = SNAPPY -> truncate(Copied(set_size(slab, Bound(s)), 0, Squeezed(SNAPPY, s)), 2)

(* What becomes of the slab, and whether the bytes are accepted.  zlib     *)
(* finds out by its checksum when they are not whole, or when they are     *)
(* more than it was told to make room for; when they are fewer, nobody     *)
(* does, and the slab ends in what it had before.                          *)
Inflated(cells, slab, length) ==
  LET body == Tail(cells)
      sized == set_size(slab, length)
  IN IF length = NoLength THEN [ok |-> FALSE, slab |-> slab]
     ELSE IF Whole(ZLIB, body) /\ Len(body[1].of) <= length
     THEN [ok |-> TRUE, slab |-> Copied(sized, 0, body[1].of)]
     ELSE [ok |-> FALSE, slab |-> sized]

(* snappy has no checksum: it may make anything of bytes that are spoilt.  *)
Unsnapped(cells, slab, length) ==
  LET sized == set_size(slab, length)
  IN IF length = NoLength THEN {[ok |-> FALSE, slab |-> slab]}
     ELSE IF Whole(SNAPPY, cells) THEN {[ok |-> TRUE, slab |-> set_data(slab, cells[1].of)]}
     ELSE {[ok |-> FALSE, slab |-> sized],
           [ok |-> TRUE, slab |-> Copied(sized, 0, [i \in 1 .. length |-> Garbage])]}

(* The outcomes that are possible.                                         *)
bulp_decompress(algo, cells, slab) ==
  CASE algo = NONE   -> {[ok |-> TRUE, slab |-> set_data(slab, cells)]}
    [] algo = ZLIB   -> {Inflated(cells, slab, length) : length \in Lengths(cells, 1)}
    [] algo = SNAPPY -> UNION {Unsnapped(cells, slab, length) : length \in HeadLengths(cells)}
=============================================================================
