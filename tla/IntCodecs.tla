------------------------------ MODULE IntCodecs ------------------------------
(***************************************************************************)
(* bulp-builtins-int.h: how an integer becomes bytes.  An intN or uintN is *)
(* its bytes, the low one first.  A ushort, uint or ulong is cut in groups *)
(* of seven bits, the low group first, each in a byte whose high bit says  *)
(* that another follows; a ninth byte is all value.  A short, int or long  *)
(* is folded to an unsigned integer first (zigzag).                        *)
(*                                                                         *)
(* Nothing here depends on a group having seven bits: a group has Group    *)
(* values, 2^7 in the code, and a byte twice as many.                      *)
(***************************************************************************)
EXTENDS Integers, Sequences

CONSTANTS
  Group,       (* 2^7: the values of a byte without its high bit           *)
  ShortWord,   (* 2^16: the values of a ushort                             *)
  IntWord,     (* 2^32: the values of a uint                               *)
  LongWord     (* 2^64: the values of a ulong, and of a size_t             *)

Byte == 2 * Group

(* A ushort fits in 3 groups, a uint in 5, a ulong in 8 and a byte.        *)
ASSUME WidthAssumption ==
  /\ Group \in Nat /\ Group > 1
  /\ ShortWord \in Nat /\ ShortWord > 0
  /\ ShortWord <= Group * (Group * Group)
  /\ IntWord \in Nat /\ IntWord > 0
  /\ IntWord <= Group * (Group * (Group * (Group * Group)))
  /\ LongWord \in Nat /\ LongWord > 0
  /\ LongWord <= Group * (Group * (Group * (Group * (Group * (Group *
                   (Group * (Group * Byte)))))))

(* What an unpack function returns: the bytes it used, or 0 and an error;  *)
(* and what it stored.                                                     *)
Refused == [used |-> 0, value |-> 0]
Unpacked(used, value) == [used |-> used, value |-> value]

(* The byte at address q.  The caller's data is mem.bytes, from address 0; *)
(* what lies around it is unknown.                                         *)
Peek(mem, q) ==
  IF q + 1 \in 1..Len(mem.bytes) THEN mem.bytes[q + 1] ELSE mem.around

-----------------------------------------------------------------------------
(* Groups.  Shifted(v)[i] is v >> 7 * (i - 1).                             *)

Shifted(v) ==
  LET q1 == v \div Group
      q2 == q1 \div Group
      q3 == q2 \div Group
      q4 == q3 \div Group
      q5 == q4 \div Group
      q6 == q5 \div Group
      q7 == q6 \div Group
      q8 == q7 \div Group
  IN <<v, q1, q2, q3, q4, q5, q6, q7, q8>>

(* The number of bytes, at most max, that v needs.                         *)
GroupCount(max, v) ==
  CHOOSE n \in 1..max :
    /\ n = max \/ Shifted(v)[n] < Group
    /\ \A i \in 1..(n - 1) : Shifted(v)[i] >= Group

PackGroups(max, v) ==
  LET n == GroupCount(max, v)
  IN [i \in 1..n |-> IF i = n THEN Shifted(v)[i] % Byte
                     ELSE Group + (Shifted(v)[i] % Group)]

(* The sum of the groups d[1], d[2] << 7, d[3] << 14 ...                   *)
Joined(d) ==
  d[1] + Group * (d[2] + Group * (d[3] + Group * (d[4] + Group * (d[5] +
  Group * (d[6] + Group * (d[7] + Group * (d[8] + Group * d[9])))))))

(* The number of bytes up to one with no high bit, at most max.            *)
GroupsAt(max, mem, p) ==
  CHOOSE n \in 1..max :
    /\ n = max \/ Peek(mem, p + n - 1) < Group
    /\ \A i \in 1..(n - 1) : Peek(mem, p + i - 1) >= Group

(* The last of max bytes is a whole byte of the value.                     *)
GroupsOf(max, n, mem, p) ==
  [i \in 1..9 |-> IF i > n THEN 0
                  ELSE IF i = max THEN Peek(mem, p + i - 1)
                  ELSE Peek(mem, p + i - 1) % Group]

-----------------------------------------------------------------------------
(* ushort, uint and ulong                                                  *)

UshortSize(v) == GroupCount(3, v)
UintSize(v) == GroupCount(5, v)
UlongSize(v) == GroupCount(9, v)

UshortPack(v) == PackGroups(3, v)
UintPack(v) == PackGroups(5, v)
UlongPack(v) == PackGroups(9, v)

(* Broken variant: one byte more than there is may be used.                *)
ShortGroups_OneByteMore(max, word, mem, p, len) ==
  LET n == GroupsAt(max, mem, p)
  IN IF (n > 1 /\ n > len + 1) \/ Peek(mem, p + n - 1) >= Group
     THEN Refused
     ELSE Unpacked(n, Joined(GroupsOf(max, n, mem, p)) % word)

(* ushort and uint look at the first byte before they look at the length,  *)
(* and refuse a last byte that says another follows.                       *)
ShortGroups(max, word, mem, p, len) ==
  LET n == GroupsAt(max, mem, p)
  IN IF (n > 1 /\ n > len) \/ Peek(mem, p + n - 1) >= Group
     THEN Refused
     ELSE Unpacked(n, Joined(GroupsOf(max, n, mem, p)) % word)

UshortUnpack(mem, p, len) == ShortGroups(3, ShortWord, mem, p, len)
UintUnpack(mem, p, len) == ShortGroups(5, IntWord, mem, p, len)

(* Broken variant: a ninth byte that says another follows is refused, too. *)
UlongUnpack_NineGroups(mem, p, len) ==
  LET n == GroupsAt(9, mem, p)
  IN IF n > len \/ Peek(mem, p + n - 1) >= Group THEN Refused
     ELSE Unpacked(n, Joined(GroupsOf(9, n, mem, p)) % LongWord)

(* ulong looks at the length before each byte, and takes any ninth byte.   *)
UlongUnpack(mem, p, len) ==
  LET n == GroupsAt(9, mem, p)
  IN IF n > len THEN Refused
     ELSE Unpacked(n, Joined(GroupsOf(9, n, mem, p)) % LongWord)

-----------------------------------------------------------------------------
(* short, int and long, in words of w values                               *)

Zigzag(v, w) == (IF v < 0 THEN (-v) * 2 - 1 ELSE v * 2) % w
(* Broken variant: -1 is folded to 0.                                      *)
Unzigzag_ToZero(u) == IF u % 2 = 1 THEN -(u \div 2) ELSE u \div 2

Unzigzag(u) == IF u % 2 = 1 THEN -(u \div 2) - 1 ELSE u \div 2

ShortPack(v) == UshortPack(Zigzag(v, ShortWord))
IntPack(v) == UintPack(Zigzag(v, IntWord))
LongPack(v) == UlongPack(Zigzag(v, LongWord))

ShortSize(v) == UshortSize(Zigzag(v, ShortWord))
IntSize(v) == UintSize(Zigzag(v, IntWord))
LongSize(v) == UlongSize(Zigzag(v, LongWord))

Folded(u) == IF u.used = 0 THEN Refused ELSE Unpacked(u.used, Unzigzag(u.value))

ShortUnpack(mem, p, len) == Folded(UshortUnpack(mem, p, len))
IntUnpack(mem, p, len) == Folded(UintUnpack(mem, p, len))
LongUnpack(mem, p, len) == Folded(UlongUnpack(mem, p, len))

-----------------------------------------------------------------------------
(* uint8 ... uint64 and int8 ... int64, of n bytes                         *)

FixedWord(n) == Byte^n

FixedPack(n, v) ==
  [i \in 1..n |-> ((v % FixedWord(n)) \div Byte^(i - 1)) % Byte]

(* Stored as an unsigned integer, and as the signed one with its bits.     *)
UintNUnpack(n, mem, p, len) ==
  LET joined[i \in 0..n] ==
        IF i = 0 THEN 0 ELSE joined[i - 1] + (Peek(mem, p + i - 1) * (Byte^(i - 1)))
  IN IF len < n THEN Refused ELSE Unpacked(n, joined[n])

IntNUnpack(n, mem, p, len) ==
  LET u == UintNUnpack(n, mem, p, len)
  IN IF u.value >= FixedWord(n) \div 2 THEN Unpacked(u.used, u.value - FixedWord(n))
     ELSE u
=============================================================================
