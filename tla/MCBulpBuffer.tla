---------------------------- MODULE MCBulpBuffer ----------------------------
(* Small instances of BulpBuffer for TLC.                                  *)
EXTENDS BulpBuffer, TLC

CONSTANTS x, y

(* Lengths only: a short string and one that overflows a fragment.         *)
Lengths == {<<>>, <<x>>, <<x, x, x>>}

(* Strings whose order can be told apart.                                  *)
Strings == {<<x, y>>, <<y, y, x>>}

(* Strings that fit a new fragment exactly, or that vprintf has to lend.   *)
Texts == {<<>>, <<y>>, <<x, y>>, <<y, x, y, x, y>>}

Symmetry == Permutations(Frag) \cup Permutations(Buffers)
=============================================================================
