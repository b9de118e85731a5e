--------------------------- MODULE MCIndexReader ----------------------------
(* A small instance of IndexReader for TLC.                                *)
EXTENDS IndexReader

CONSTANTS a, b, c

Short == [key |-> <<a>>, value |-> <<>>]
Plain == [key |-> <<b>>, value |-> <<a, c>>]
Long  == [key |-> <<c, c>>, value |-> <<b, a, c>>]

(* No blob, records of one blob, blobs that grow and blobs that shrink.    *)
SmallContents ==
  {<<>>, <<<<Plain, Short>>>>, <<<<Short>>, <<Long, Plain>>>>, <<<<Short, Long>>, <<Plain>>, <<Short>>>>}
=============================================================================
