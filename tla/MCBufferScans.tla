---------------------------- MODULE MCBufferScans ---------------------------
(* The scans over buffers that MCBulpBuffer builds, with a byte h of 0x80  *)
(* or above in them.                                                       *)
EXTENDS BufferScans, MCBulpBuffer

CONSTANTS z, h

HighTexts == {<<>>, <<y>>, <<x, y>>, <<y, x, h, x, y>>}

(* C strings: one byte, low and high; one that may cross a fragment and    *)
(* that its own beginning can be mistaken for; one with a high byte in it. *)
SearchedFor == {<<x>>, <<y, y, x>>, <<x, h>>, <<h>>}
=============================================================================
