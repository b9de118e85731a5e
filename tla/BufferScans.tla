----------------------------- MODULE BufferScans -----------------------------
(***************************************************************************)
(* The calls of bulp-buffer.c that look at the bytes of a buffer and       *)
(* change nothing.  They walk along the fragments, so what they look at is *)
(* a sequence p of pieces, the bytes of each fragment; offsets and indices *)
(* count from 0, as in the code.                                           *)
(***************************************************************************)
EXTENDS BulpBuffer

CONSTANTS
  High,      (* the bytes of 0x80 and above                                *)
  Negative,  (* what such a byte is in a string of char, which has a sign  *)
  Patterns   (* BOUND: the strings that are looked for                     *)

ASSUME PatternsAssumption ==
  /\ High \subseteq Byte /\ Negative \notin Byte
  /\ IsFiniteSet(Patterns) /\ \A s \in Patterns : s \in Seq(Byte) /\ s # <<>>

Pieces(b) == [i \in DOMAIN chain[b] |-> data[chain[b][i]]]

(* Memory outside the bytes of a fragment has been looked at.              *)
Wild == -2
Absent == -1

(* The bytes [from, from + n) of a piece.                                  *)
Slice(s, from, n) == SubSeq(s, from + 1, from + n)
(* How many bytes there are before a piece.                                *)
Before(p, i) == Len(FlattenSeq(SubSeq(p, 1, i - 1)))

-----------------------------------------------------------------------------
(* A loop along the fragments is a function `from' of the fragment it is   *)
(* at; what the loop carries along is that function's argument.            *)

peek(p, max_length) ==
  LET from[i \in 1 .. Len(p) + 1] ==
        [rest \in 0 .. max_length |->
           IF rest = 0 \/ i > Len(p) THEN <<>>
           ELSE IF Len(p[i]) <= rest THEN p[i] \o from[i + 1][rest - Len(p[i])]
           ELSE Slice(p[i], 0, rest)]
  IN from[1][max_length]

index_of(p, byte) ==
  LET from[i \in 1 .. Len(p) + 1] ==
        IF i > Len(p) THEN Absent
        ELSE LET saught == {k \in DOMAIN p[i] : p[i][k] = byte}
             IN IF saught # {} THEN Before(p, i) + Min(saught) - 1 ELSE from[i + 1]
  IN from[1]

(* The bytes of a string as they are compared with those of a buffer.      *)
Chars(s) == [k \in 1 .. Len(s) |-> IF s[k] \in High THEN Negative ELSE s[k]]

(* Broken variant: a guess ends with its fragment.                         *)
GuessHolds_Inside(p, i, off, s) ==
  off + Len(s) <= Len(p[i]) /\ Slice(p[i], off, Len(s)) = s

(* The inner loops of str_index_of: the string is compared fragment after  *)
(* fragment; k bytes of it have been found.                                *)
GuessHolds(p, i, off, s) ==
  LET Common(j, at, k) == Lesser(Len(p[j]) - at, Len(s) - k)
      Same(j, at, k) == Slice(p[j], at, Common(j, at, k)) = Slice(s, k, Common(j, at, k))
      from[j \in i + 1 .. Len(p) + 1] ==
        [k \in 0 .. Len(s) |->
           \/ k = Len(s)
           \/ j <= Len(p) /\ Same(j, 0, k) /\ from[j + 1][k + Common(j, 0, k)]]
  IN Same(i, off, 0) /\ from[i + 1][Common(i, off, 0)]

(* The places where a guess holds, as indices into the whole buffer.       *)
GoodGuesses(p, s) ==
  UNION {{Before(p, i) + off : off \in {o \in 0 .. Len(p[i]) - 1 : GuessHolds(p, i, o, s)}} :
           i \in DOMAIN p}
str_index_of(p, s) ==
  LET found == GoodGuesses(p, Chars(s)) IN IF found = {} THEN Absent ELSE Min(found)

(* fragment_n_str: 1, 0 or Wild.  The index is taken into the next         *)
(* fragment as it was in the last one.                                     *)
fragment_n_str(p, i, frag_index, s) ==
  LET from[j \in i .. Len(p) + 1] ==
        [at \in Nat |-> [k \in 0 .. Len(s) |->
           LET test_len == Lesser(Len(p[j]) - at, Len(s) - k)
           IN IF j > Len(p) THEN 0
              ELSE IF test_len < 0 THEN Wild
              ELSE IF Slice(p[j], at, test_len) # Slice(s, k, test_len) THEN 0
              ELSE IF k + test_len = Len(s) THEN 1
              ELSE from[j + 1][at + test_len][k + test_len]]]
  IN from[i][frag_index][0]

(* init_char_map has a bit for the bytes below 0x80 alone; with strings of *)
(* one first byte it is not looked into.                                   *)
BeyondMap(starts) == IF Cardinality(starts) > 1 THEN High ELSE {}

(* Piece i from `at' on, by polystr_index_of, which goes on with `later'.  *)
(* After a guess that fails, `at' goes on by one and `remaining' stays, so *)
(* that one byte more than there is is looked at.                          *)
polystr_fragment(p, i, strings, later) ==
  LET starts == {strings[k][1] : k \in DOMAIN strings}
      beyond == BeyondMap(starts)
      within[at \in 0 .. Len(p[i])] ==
        [remaining \in 0 .. Len(p[i]) |->
           LET hits == {o \in at .. at + remaining - 1 :
                          o >= Len(p[i]) \/ p[i][o + 1] \in starts \cup beyond}
               o == Min(hits)
               tests == [k \in DOMAIN strings |-> fragment_n_str(p, i, o, strings[k])]
               told == SelectInSeq(tests, LAMBDA answer : answer # 0)
           IN IF hits = {} THEN later
              ELSE IF o >= Len(p[i]) \/ p[i][o + 1] \in beyond THEN Wild
              ELSE IF told = 0 THEN within[o + 1][remaining - (o - at)]
              ELSE IF tests[told] = Wild THEN Wild ELSE Before(p, i) + o]
  IN within[0][Len(p[i])]

(* The first byte of each string is entered in the map at the start.       *)
polystr_index_of(p, strings) ==
  LET from[i \in 1 .. Len(p) + 1] ==
        IF i > Len(p) THEN Absent ELSE polystr_fragment(p, i, strings, from[i + 1])
  IN IF strings = <<>> THEN 0
     ELSE IF \E k \in DOMAIN strings : strings[k][1] \in High THEN Wild ELSE from[1]

-----------------------------------------------------------------------------
(* A place: a fragment, or one past the last, and an offset.               *)

(* Past the last fragment, the next pointer of none is followed.           *)
find_fragment(p, offset) ==
  LET from[i \in 1 .. Len(p) + 1] ==
        [frag_offset \in 0 .. offset |->
           IF frag_offset = offset \/ (i <= Len(p) /\ offset < frag_offset + Len(p[i]))
           THEN [frag |-> i, frag_offset |-> frag_offset]
           ELSE IF i > Len(p) THEN [frag |-> Wild, frag_offset |-> Wild]
           ELSE from[i + 1][frag_offset + Len(p[i])]]
  IN from[1][0]

ByteIn(s, off) == IF off < Len(s) THEN s[off + 1] ELSE Wild
get_byte_at(p, idx) ==
  LET at == find_fragment(p, idx) IN ByteIn(p[at.frag], idx - at.frag_offset)

get_last_byte(b) == ByteIn(data[last[b]], Len(data[last[b]]) - 1)

(* The first copy is as long as if it began where the fragment begins.     *)
fragment_peek(p, frag, off, length) ==
  LET i == IF Len(p[frag]) = off THEN frag + 1 ELSE frag
      offset == IF Len(p[frag]) = off THEN 0 ELSE off
      rv == Len(p[i]) - length
  IN IF Len(p[i]) >= length + offset THEN Slice(p[i], offset, length)
     ELSE IF rv < 0 \/ offset + rv > Len(p[i]) THEN <<Wild>>
     ELSE Slice(p[i], offset, rv) \o peek(SubSeq(p, i + 1, Len(p)), length - rv)

(* Where frag and offset are after the call, and whether it returned true. *)
fragment_advance(p, frag, offset, skip) ==
  LET stays == [ok |-> FALSE, frag |-> frag, offset |-> offset]
      from[i \in frag .. Len(p) + 1] ==
        [rest \in 0 .. skip |->
           IF rest = 0 \/ i > Len(p) THEN stays
           ELSE IF rest >= Len(p[i]) THEN from[i + 1][rest - Len(p[i])]
           ELSE [ok |-> TRUE, frag |-> i, offset |-> rest]]
  IN IF Len(p[frag]) >= offset + skip
     THEN [ok |-> TRUE, frag |-> frag, offset |-> offset + skip]
     ELSE from[frag][skip - (Len(p[frag]) - offset)]

-----------------------------------------------------------------------------
(* What the scans promise, of the bytes f of the whole buffer.             *)

Occurs(f, s) == {n \in 0 .. Len(f) - Len(s) : Slice(f, n, Len(s)) = s}
FirstOf(S) == IF S = {} THEN Absent ELSE Min(S)
Ascii(s) == \A k \in DOMAIN s : s[k] \notin High

CopiesAgree(p, f) ==
  /\ \A n \in 0 .. Len(f) + 1 : peek(p, n) = Slice(f, 0, Lesser(n, Len(f)))
  /\ \A i \in DOMAIN p : \A off \in 0 .. Len(p[i]) - 1 :
       \A n \in 0 .. Len(p[i]) - off :
         /\ fragment_peek(p, i, off, n) = Slice(f, Before(p, i) + off, n)
         /\ fragment_advance(p, i, off, n) = [ok |-> TRUE, frag |-> i, offset |-> off + n]

SearchesAgree(p, f) ==
  /\ \A byte \in Byte : index_of(p, byte) = FirstOf(Occurs(f, <<byte>>))
  /\ \A s \in Patterns :
       str_index_of(p, s) = IF Ascii(s) THEN FirstOf(Occurs(f, s)) ELSE Absent

PlacesAgree(p, f) ==
  \A n \in 0 .. Len(f) - 1 :
    LET at == find_fragment(p, n)
    IN /\ at.frag_offset = Before(p, at.frag)
       /\ p[at.frag] # <<>> => get_byte_at(p, n) = f[n + 1]

(* A string begins in a fragment at `off', and goes on in the next or not. *)
Part(p, i, off, s) == Lesser(Len(s), Len(p[i]) - off)
Begins(p, i, off, s) ==
  Slice(p[i], off, Part(p, i, off, s)) = Slice(s, 0, Part(p, i, off, s))
Inside(p, i, off, s) == Begins(p, i, off, s) /\ Part(p, i, off, s) = Len(s)

(* An answer of polystr_index_of is to be trusted where the strings lie    *)
(* inside fragments; it may look outside only after a guess that failed,   *)
(* and where a byte is beyond its map.                                     *)
MapIsLeft(p, strings) ==
  \/ \E k \in DOMAIN strings : strings[k][1] \in High
  \/ \E i \in DOMAIN p : \E off \in 0 .. Len(p[i]) - 1 :
       p[i][off + 1] \in BeyondMap({strings[k][1] : k \in DOMAIN strings})

PolystrAgrees(p, strings) ==
  LET r == polystr_index_of(p, strings)
      At(i) == 0 .. Len(p[i]) - 1
      all == Range(strings)
  IN /\ r = Wild => \/ MapIsLeft(p, strings)
                    \/ \E i \in DOMAIN p : \E off \in At(i), s \in all :
                         p[i][off + 1] = s[1] /\ ~ Inside(p, i, off, s)
     /\ r >= 0 /\ strings # <<>> => \E i \in DOMAIN p : \E off \in At(i), s \in all :
                    Before(p, i) + off = r /\ Begins(p, i, off, s)
     /\ \A i \in DOMAIN p : \A off \in At(i), s \in all :
          Inside(p, i, off, s) => r = Wild \/ r \in 0 .. Before(p, i) + off

(* However a buffer's bytes are split over fragments, empty ones and lent  *)
(* ones among them, the scans answer as if they lay in one piece: a copy   *)
(* has the right bytes, a search finds the first place, one string may     *)
(* cross fragments (but one with a byte of 0x80 or above is never found).  *)
(* A byte asked for by its place is right unless the walk ends on an empty *)
(* fragment; one fragment's copy and step are right while they stay inside *)
(* it, and every list of strings is searched as PolystrAgrees says.        *)
ScansAgree ==
  \A b \in Buffers : live[b] =>
    \E p \in {Pieces(b)} : \E f \in {FlattenSeq(p)} :
      /\ CopiesAgree(p, f)
      /\ SearchesAgree(p, f)
      /\ PlacesAgree(p, f)
      /\ chain[b] # <<>> /\ data[last[b]] # <<>> => get_last_byte(b) = Last(f)
      /\ \A S \in SUBSET Patterns : PolystrAgrees(p, SetToSeq(S))
=============================================================================
