------------------------------- MODULE Formats -------------------------------
(***************************************************************************)
(* BulpFormat (bulp-format*.c, bulp-namespace-toplevel-formats.c): what    *)
(* the functions of a format's vfuncs table do, for every kind of format:  *)
(* get_packed_size, pack, pack_to, unpack and validate_native.             *)
(*                                                                         *)
(* A native object is a TLA+ value: an integer; a sequence of bytes; a     *)
(* sequence of elements, or of members in the order of the format; <<>> or *)
(* <<v>> for an optional; <<case value>> or <<case value, info>> for a     *)
(* union.  Where its parts lie in C memory (native_offset,                 *)
(* native_info_offset) is not modelled.                                    *)
(*                                                                         *)
(* A format is a record with the fields of its structure; NULL stands for  *)
(* no format.                                                              *)
(***************************************************************************)
EXTENDS IntCodecs, SequencesExt

CONSTANT
  ByteBits     (* 8: the bits of a byte                                    *)

ASSUME BitsAssumption == ByteBits \in Nat /\ 2^ByteBits = Byte

(* What unpack does: it returns the bytes it used, 0 with an error, and    *)
(* stores <<value>>; or an assertion of it fails.                          *)
Failed == [used |-> 0, value |-> <<>>]
Aborted == [used |-> -1, value |-> <<>>]
Stored(used, v) == IF used = 0 THEN Failed ELSE [used |-> used, value |-> <<v>>]

(* packed_len - at is a size_t.                                            *)
Left(len, at) == (len - at) % LongWord

Text(mem, q, len) == [i \in 1..len |-> Peek(mem, q + i - 1)]
NonAscii(text) == \E i \in DOMAIN text : text[i] >= Group
HasNul(text) == \E i \in DOMAIN text : text[i] = 0

RECURSIVE PackedSize(_, _), Pack(_, _, _), PackTo(_, _, _, _),
          Unpack(_, _, _, _), ValidateNative(_, _)

-----------------------------------------------------------------------------
(* The builtin formats                                                     *)

NULL == [type |-> "NULL"]

(* codec: the functions of the vfuncs table, by what they are for.  The    *)
(* other fields are what the initialiser makes of these three values,      *)
(* which it gives to the first three of the structure's four fields.       *)
IntFormat(byte_size, is_signed, is_b128) ==
  [type |-> "INT",
   codec |-> [byte_size |-> byte_size, is_signed |-> is_signed, is_b128 |-> is_b128],
   byte_size |-> byte_size, log2_byte_size |-> IF is_signed THEN 1 ELSE 0,
   is_signed |-> is_b128, is_b128 |-> FALSE]

uint8 == IntFormat(1, FALSE, FALSE)
uint16 == IntFormat(2, FALSE, FALSE)
uint32 == IntFormat(4, FALSE, FALSE)
uint64 == IntFormat(8, FALSE, FALSE)
int8 == IntFormat(1, TRUE, FALSE)
int16 == IntFormat(2, TRUE, FALSE)
int32 == IntFormat(4, TRUE, FALSE)
int64 == IntFormat(8, TRUE, FALSE)
ushort == IntFormat(2, FALSE, TRUE)
uint == IntFormat(4, FALSE, TRUE)
ulong == IntFormat(8, FALSE, TRUE)
short == IntFormat(2, TRUE, TRUE)
int == IntFormat(4, TRUE, TRUE)
long == IntFormat(8, TRUE, TRUE)

ascii == [type |-> "STRING", length_type |-> "LENGTH_PREFIXED"]
ascii0 == [type |-> "STRING", length_type |-> "NUL_TERMINATION"]
binary_data == [type |-> "BINARY_DATA"]
bool == [type |-> "BOOL"]

(* The codec of an integer format.                                         *)
IntPacked(codec, v) ==
  IF ~codec.is_b128 THEN FixedPack(codec.byte_size, v)
  ELSE CASE codec.byte_size = 2 -> IF codec.is_signed THEN ShortPack(v) ELSE UshortPack(v)
         [] codec.byte_size = 4 -> IF codec.is_signed THEN IntPack(v) ELSE UintPack(v)
         [] codec.byte_size = 8 -> IF codec.is_signed THEN LongPack(v) ELSE UlongPack(v)

IntSized(codec, v) ==
  IF ~codec.is_b128 THEN codec.byte_size
  ELSE CASE codec.byte_size = 2 -> IF codec.is_signed THEN ShortSize(v) ELSE UshortSize(v)
         [] codec.byte_size = 4 -> IF codec.is_signed THEN IntSize(v) ELSE UintSize(v)
         [] codec.byte_size = 8 -> IF codec.is_signed THEN LongSize(v) ELSE UlongSize(v)

IntUnpacked(codec, mem, p, len) ==
  IF ~codec.is_b128
  THEN IF codec.is_signed THEN IntNUnpack(codec.byte_size, mem, p, len)
       ELSE UintNUnpack(codec.byte_size, mem, p, len)
  ELSE CASE codec.byte_size = 2 -> IF codec.is_signed THEN ShortUnpack(mem, p, len)
                                   ELSE UshortUnpack(mem, p, len)
         [] codec.byte_size = 4 -> IF codec.is_signed THEN IntUnpack(mem, p, len)
                                   ELSE UintUnpack(mem, p, len)
         [] codec.byte_size = 8 -> IF codec.is_signed THEN LongUnpack(mem, p, len)
                                   ELSE UlongUnpack(mem, p, len)

IntStored(codec, mem, p, len) ==
  LET u == IntUnpacked(codec, mem, p, len) IN {Stored(u.used, u.value)}

BoolStored(mem, p, len) ==
  IF len < 1 \/ Peek(mem, p) > 1 THEN {Failed} ELSE {Stored(1, Peek(mem, p))}

(* Bytes after their number.                                               *)
PrefixedSize(v) == UintSize(Len(v)) + Len(v)
PrefixedPack(v) == UintPack(Len(v)) \o v

(* unpack__ascii goes on when the length could not be read, with whatever  *)
(* was in the variable.                                                    *)
AsciiStored(mem, p, len) ==
  LET u == UintUnpack(mem, p, len)
      Read(n) == LET text == Text(mem, p + u.used, n)
                 IN IF u.used + n > len \/ NonAscii(text) THEN Failed
                    ELSE Stored(u.used + n, text)
  IN {Read(n) : n \in IF u.used = 0 THEN 0..(len + 1) ELSE {u.value}}

Ascii0Stored(mem, p, len) ==
  LET nuls == {i \in 0..(len - 1) : Peek(mem, p + i) = 0}
      text == Text(mem, p, Min(nuls))
  IN IF nuls = {} THEN {Failed}
     ELSE IF NonAscii(text) THEN {Failed} ELSE {Stored(Len(text) + 1, text)}

(* Broken variant: the length is not compared with what there is.          *)
BinaryStored_Unbounded(mem, p, len) ==
  LET u == UintUnpack(mem, p, len)
      total == (u.used + u.value) % IntWord
  IN IF u.used = 0 THEN {Failed}
     ELSE {Stored(total, Text(mem, p + u.used, u.value))}

(* The sum is of two uint32_t.                                             *)
BinaryStored(mem, p, len) ==
  LET u == UintUnpack(mem, p, len)
      total == (u.used + u.value) % IntWord
  IN IF u.used = 0 \/ total > len THEN {Failed}
     ELSE {Stored(total, Text(mem, p + u.used, u.value))}

-----------------------------------------------------------------------------
(* A list of pieces, as in module DataBuilder: len is the sum of their     *)
(* lengths, and a placeholder has none yet.                                *)

Builder == [pieces |-> <<>>, cur_len |-> 0]
AppendPiece(b, s) == [pieces |-> Append(b.pieces, s), cur_len |-> b.cur_len + Len(s)]
AppendPlaceholder(b) == [b EXCEPT !.pieces = Append(@, <<>>)]
UpdatePlaceholder(b, i, s) ==
  [pieces |-> [b.pieces EXCEPT ![i] = s], cur_len |-> b.cur_len + Len(s)]
Build(b) == FlattenSeq(b.pieces)

-----------------------------------------------------------------------------
(* Enums, and the search by bisection of enums, unions and structs.        *)

RECURSIVE Bisect(_, _, _, _)
Bisect(keys, key, start, n) ==
  LET mid == start + n \div 2
  IN IF n > 1
     THEN IF keys[mid + 1] = key THEN mid + 1
          ELSE IF key < keys[mid + 1] THEN Bisect(keys, key, start, mid - start)
          ELSE Bisect(keys, key, mid + 1, (start + n) - (mid + 1))
     ELSE IF n = 0 \/ keys[start + 1] # key THEN 0 ELSE start + 1

(* The index of the entry with that value, or 0; and by_name's entry with  *)
(* that name.                                                              *)
LookupByValue(f, value) ==
  Bisect([i \in DOMAIN f.list |-> f.list[i].value], value, 0, Len(f.list))
LookupByName(f, name) ==
  Bisect([i \in DOMAIN f.by_name |-> f.by_name[i].name], name, 0, Len(f.by_name))

(* The values of declared entries: the one given, or the one after the     *)
(* previous entry's.                                                       *)
Numbered(decls) ==
  FoldLeft(LAMBDA done, d :
             LET next == IF done = <<>> THEN 0 ELSE (Last(done).value + 1) % IntWord
                 value == IF d.set_value THEN d.value_if_set ELSE next
             IN Append(done, [name |-> d.name, format |-> d.format, value |-> value]),
           <<>>, decls)

(* bulp_die has refused two entries with one value or one name.            *)
ByValue(list) == SortSeq(list, LAMBDA a, b : a.value < b.value)
(* Broken variant: the entries are left in the order of their values.      *)
ByName_InValueOrder(list) == list

ByName(list) == SortSeq(list, LAMBDA a, b : a.name < b.name)

NewList(type, decls) ==
  LET list == ByValue(Numbered(decls))
  IN [type |-> type, list |-> list, by_name |-> ByName(list)]

NewEnum(decls) == NewList("ENUM", decls)
NewUnion(decls) == NewList("UNION", decls)
NewStruct(decls, is_message) ==
  NewList(IF is_message THEN "MESSAGE" ELSE "STRUCT", decls)

(* Broken variant: the value is not looked up.                             *)
EnumStored_AnyValue(f, mem, p, len) ==
  LET u == UintUnpack(mem, p, len) IN {Stored(u.used, u.value)}

EnumStored(f, mem, p, len) ==
  LET u == UintUnpack(mem, p, len)
  IN IF u.used = 0 \/ LookupByValue(f, u.value) = 0 THEN {Failed}
     ELSE {Stored(u.used, u.value)}

-----------------------------------------------------------------------------
(* Packed elements: fields of bits, across the bytes.  A place is the byte *)
(* `at' and the bits below `shift' that are taken.                         *)

Packed(n_bits) == [type |-> "PACKED", n_bits |-> n_bits]

TotalBits(f) == FoldLeft(+, 0, f.n_bits)
PackedBytes(f) == (TotalBits(f) + ByteBits - 1) \div ByteBits

(* Byte b with v in its n bits from shift up.                              *)
PutBits(b, shift, n, v) ==
  (b % 2^shift) + (2^shift * (v % 2^n)) + (2^(shift + n) * (b \div 2^(shift + n)))

(* One element: what is left of the byte, whole bytes, the rest.           *)
PackElement(place, n, v) ==
  IF place.shift + n <= ByteBits
  THEN [place EXCEPT !.out[place.at] = PutBits(@, place.shift, n, v), !.shift = @ + n]
  ELSE LET first == IF place.shift > 0 THEN ByteBits - place.shift ELSE 0
           next == IF place.shift > 0 THEN place.at + 1 ELSE place.at
           rest == v \div 2^first
           whole == (n - first) \div ByteBits
           last == (n - first) % ByteBits
       IN [out |-> [k \in DOMAIN place.out |->
             IF k = place.at /\ place.shift > 0
             THEN PutBits(place.out[k], place.shift, first, v)
             ELSE IF k \in next..(next + whole - 1)
             THEN (rest \div 2^(ByteBits * (k - next))) % Byte
             ELSE IF k = next + whole /\ last # 0
             THEN PutBits(place.out[k], 0, last, rest \div 2^(ByteBits * whole))
             ELSE place.out[k]],
           at |-> next + whole, shift |-> last]

(* The unused bits of the last byte are what the memory held.              *)
PackedPack(f, v, junk) ==
  LET start == [out |-> [k \in 1..PackedBytes(f) |-> junk], at |-> 1, shift |-> 0]
      end == FoldLeftDomain(LAMBDA place, i : PackElement(place, f.n_bits[i], v[i]),
                            start, f.n_bits)
  IN SubSeq(end.out, 1, IF end.shift # 0 THEN end.at ELSE end.at - 1)

(* One element read at a place in mem.                                     *)
UnpackElement(place, mem, n) ==
  LET high == Peek(mem, place.at) \div 2^place.shift
      first == ByteBits - place.shift
      whole == (n - first) \div ByteBits
      last == (n - first) % ByteBits
      joined[k \in 0..whole] ==
        IF k = 0 THEN high
        ELSE joined[k - 1] + (Peek(mem, place.at + k) * 2^(first + ByteBits * (k - 1)))
      rest == Peek(mem, place.at + whole + 1) % 2^last
  IN IF n + place.shift < ByteBits
     THEN [place EXCEPT !.values = Append(@, high % 2^n), !.shift = @ + n]
     ELSE [at |-> place.at + whole + 1, shift |-> last,
           values |-> Append(place.values,
             joined[whole] + (rest * 2^(first + ByteBits * whole)))]

PackedStored(f, mem, p, len) ==
  LET end == FoldLeft(LAMBDA place, n : UnpackElement(place, mem, n),
                      [at |-> p, shift |-> 0, values |-> <<>>], f.n_bits)
  IN IF PackedBytes(f) > len THEN {Failed}
     ELSE {Stored(end.at + (IF end.shift > 0 THEN 1 ELSE 0) - p, end.values)}

-----------------------------------------------------------------------------
(* Optionals                                                               *)

OptionalOf(f) == [type |-> "OPTIONAL", subformat |-> f]

OptionalSize(f, v) == IF v = <<>> THEN 1 ELSE 1 + PackedSize(f.subformat, v[1])

OptionalPack(f, v, junk) ==
  IF v = <<>> THEN <<0>> ELSE <<1>> \o Pack(f.subformat, v[1], junk)

OptionalPackTo(f, v, b, junk) ==
  IF v = <<>> THEN AppendPiece(b, <<0>>)
  ELSE PackTo(f.subformat, v[1], AppendPiece(b, <<1>>), junk)

(* assert(packed_len > 0)                                                  *)
OptionalStored(f, mem, p, len) ==
  CASE len = 0 -> {Aborted}
    [] len > 0 /\ Peek(mem, p) = 0 -> {Stored(1, <<>>)}
    [] len > 0 /\ Peek(mem, p) > 1 -> {Failed}
    [] len > 0 /\ Peek(mem, p) = 1 ->
         {IF r.used <= 0 THEN r ELSE Stored(1 + r.used, r.value) :
            r \in Unpack(f.subformat, mem, p + 1, len - 1)}

-----------------------------------------------------------------------------
(* Arrays.  Elements are looked for at packed_data - at.                   *)

ArrayOf(f) == [type |-> "ARRAY", element_format |-> f]

Sizes(f, v) == [i \in DOMAIN v |-> PackedSize(f, v[i])]
ArraySize(f, v) == UintSize(Len(v)) + FoldLeft(+, 0, Sizes(f.element_format, v))

ArrayPack(f, v, junk) ==
  UintPack(Len(v)) \o
  FlattenSeq([i \in DOMAIN v |-> Pack(f.element_format, v[i], junk)])

ArrayPackTo(f, v, b, junk) ==
  FoldLeft(LAMBDA b1, e : PackTo(f.element_format, e, b1, junk),
           AppendPiece(b, UintPack(Len(v))), v)

RECURSIVE Elements(_, _, _, _, _, _)
Elements(f, n, mem, p, len, at) ==
  IF n = 0 THEN {Stored(at, <<>>)}
  ELSE UNION {IF r.used <= 0 THEN {r}
              ELSE {IF s.used <= 0 THEN s
                    ELSE Stored(s.used, r.value \o s.value[1]) :
                      s \in Elements(f, n - 1, mem, p, len, at + r.used)} :
                r \in Unpack(f, mem, p - at, Left(len, at))}

ArrayStored(f, mem, p, len) ==
  LET u == UintUnpack(mem, p, len)
  IN IF u.used = 0 THEN {Failed}
     ELSE Elements(f.element_format, u.value, mem, p, len, u.used)

-----------------------------------------------------------------------------
(* Unions.  A case's info is looked for at packed_data - at, and the value *)
(* of the case is not stored.                                              *)

CaseFormat(f, value) == f.list[LookupByValue(f, value)].format

UnionSize(f, v) ==
  IF CaseFormat(f, v[1]) = NULL THEN UintSize(v[1])
  ELSE UintSize(v[1]) + PackedSize(CaseFormat(f, v[1]), v[2])

UnionPack(f, v, junk) ==
  IF CaseFormat(f, v[1]) = NULL THEN UintPack(v[1])
  ELSE UintPack(v[1]) \o Pack(CaseFormat(f, v[1]), v[2], junk)

UnionPackTo(f, v, b, junk) ==
  IF CaseFormat(f, v[1]) = NULL THEN AppendPiece(b, UintPack(v[1]))
  ELSE PackTo(CaseFormat(f, v[1]), v[2], AppendPiece(b, UintPack(v[1])), junk)

(* A case value that could not be read is whatever was in the variable.    *)
UnionStored(f, mem, p, len) ==
  LET u == UintUnpack(mem, p, len)
      Info(value) ==
        IF CaseFormat(f, value) = NULL THEN {Stored(u.used, <<>>)}
        ELSE {IF r.used <= 0 THEN r ELSE Stored(u.used + r.used, r.value) :
                r \in Unpack(CaseFormat(f, value), mem, p - u.used, Left(len, u.used))}
  IN UNION {IF LookupByValue(f, value) = 0 THEN {Failed} ELSE Info(value) :
              value \in IF u.used > 0 THEN {u.value}
                        ELSE 0..(Last(f.list).value + 1)}

-----------------------------------------------------------------------------
(* Structs.  The value has a cell for each member: <<v>>, or <<>> where    *)
(* nothing was stored.                                                     *)

MemberSizes(f, v) ==
  [i \in DOMAIN f.list |-> PackedSize(f.list[i].format, v[i][1])]

StructSize(f, v) == FoldLeft(+, 0, MemberSizes(f, v))

StructPack(f, v, junk) ==
  FlattenSeq([i \in DOMAIN f.list |-> Pack(f.list[i].format, v[i][1], junk)])

StructPackTo(f, v, b, junk) ==
  FoldLeftDomain(LAMBDA b1, i : PackTo(f.list[i].format, v[i][1], b1, junk),
                 b, f.list)

(* After the members a byte is passed over, and must be there.             *)
RECURSIVE MembersStored(_, _, _, _, _, _)
MembersStored(f, mem, p, len, at, cells) ==
  IF Len(cells) = Len(f.list)
  THEN IF at >= len THEN {Failed} ELSE {Stored(at + 1, cells)}
  ELSE UNION {IF r.used <= 0 THEN {r}
              ELSE MembersStored(f, mem, p, len, at + r.used, Append(cells, r.value)) :
                r \in Unpack(f.list[Len(cells) + 1].format, mem, p + at, Left(len, at))}

StructStored(f, mem, p, len) == MembersStored(f, mem, p, len, 0, <<>>)

-----------------------------------------------------------------------------
(* Messages: each member after its tag and its length, then a nul.         *)

Tag(f, i) == FixedPack(4, f.list[i].value + 1)

(* Broken variant: the nul at the end is not counted.                      *)
MessageSize_NoTerminator(f, v) ==
  FoldLeft(+, 0, [i \in DOMAIN f.list |-> 4 + MemberSizes(f, v)[i] + 4])

MessageSize(f, v) ==
  FoldLeft(+, 0, [i \in DOMAIN f.list |-> 4 + MemberSizes(f, v)[i] + 4]) + 1

MessagePack(f, v, junk) ==
  FlattenSeq([i \in DOMAIN f.list |->
    LET body == Pack(f.list[i].format, v[i][1], junk)
    IN Tag(f, i) \o FixedPack(4, Len(body)) \o body]) \o <<0>>

(* The length is what the pieces after the placeholder added to cur_len.   *)
MemberPackTo(f, i, v, b, junk) ==
  LET held == AppendPlaceholder(AppendPiece(b, Tag(f, i)))
      end == PackTo(f.list[i].format, v[i][1], held, junk)
  IN UpdatePlaceholder(end, Len(held.pieces),
                       FixedPack(4, end.cur_len - held.cur_len))

MessagePackTo(f, v, b, junk) ==
  AppendPiece(FoldLeftDomain(LAMBDA b1, i : MemberPackTo(f, i, v, b1, junk), b, f.list),
              <<0>>)

(* A tag and a length are looked for at packed_data - at; the members are  *)
(* looked up by the tag.                                                   *)
RECURSIVE MessageStored(_, _, _, _, _, _)
MessageStored(f, mem, p, len, at, cells) ==
  IF at >= len THEN {Failed}
  ELSE IF Peek(mem, p + at) = 0 THEN {Stored(at + 1, cells)}
  ELSE LET tag == UintNUnpack(4, mem, p - at, len - at)
           at1 == at + 4
           size == UintNUnpack(4, mem, p - at1, len - at1)
           at2 == at + 8
           member == LookupByValue(f, tag.value)
           next == at2 + size.value
       IN IF tag.used = 0 \/ at1 >= len \/ size.used = 0 \/ next > len THEN {Failed}
          ELSE IF member = 0 THEN MessageStored(f, mem, p, len, next, cells)
          ELSE UNION {IF r.used <= 0 THEN {r}
                      ELSE MessageStored(f, mem, p, len, next,
                                         [cells EXCEPT ![member] = r.value]) :
                        r \in Unpack(f.list[member].format, mem, p + at2, len - at2)}

-----------------------------------------------------------------------------
(* The vfuncs tables                                                       *)

PackedSize(f, v) ==
  CASE f.type = "INT" -> IntSized(f.codec, v)
    [] f.type = "BOOL" -> 1
    [] f = ascii0 -> Len(v) + 1
    [] f = ascii \/ f.type = "BINARY_DATA" -> PrefixedSize(v)
    [] f.type = "ENUM" -> UintSize(v)
    [] f.type = "PACKED" -> PackedBytes(f)
    [] f.type = "OPTIONAL" -> OptionalSize(f, v)
    [] f.type = "ARRAY" -> ArraySize(f, v)
    [] f.type = "UNION" -> UnionSize(f, v)
    [] f.type = "STRUCT" -> StructSize(f, v)
    [] f.type = "MESSAGE" -> MessageSize(f, v)

(* junk is what the memory written to held.                                *)
Pack(f, v, junk) ==
  CASE f.type = "INT" -> IntPacked(f.codec, v)
    [] f.type = "BOOL" -> <<IF v # 0 THEN 1 ELSE 0>>
    [] f = ascii0 -> Append(v, 0)
    [] f = ascii \/ f.type = "BINARY_DATA" -> PrefixedPack(v)
    [] f.type = "ENUM" -> UintPack(v)
    [] f.type = "PACKED" -> PackedPack(f, v, junk)
    [] f.type = "OPTIONAL" -> OptionalPack(f, v, junk)
    [] f.type = "ARRAY" -> ArrayPack(f, v, junk)
    [] f.type = "UNION" -> UnionPack(f, v, junk)
    [] f.type = "STRUCT" -> StructPack(f, v, junk)
    [] f.type = "MESSAGE" -> MessagePack(f, v, junk)

PackTo(f, v, b, junk) ==
  CASE f = ascii0 -> AppendPiece(AppendPiece(b, v), <<0>>)
    [] f = ascii \/ f.type = "BINARY_DATA" ->
         AppendPiece(AppendPiece(b, UintPack(Len(v))), v)
    [] f.type \in {"INT", "BOOL", "ENUM", "PACKED"} -> AppendPiece(b, Pack(f, v, junk))
    [] f.type = "OPTIONAL" -> OptionalPackTo(f, v, b, junk)
    [] f.type = "ARRAY" -> ArrayPackTo(f, v, b, junk)
    [] f.type = "UNION" -> UnionPackTo(f, v, b, junk)
    [] f.type = "STRUCT" -> StructPackTo(f, v, b, junk)
    [] f.type = "MESSAGE" -> MessagePackTo(f, v, b, junk)

Unpack(f, mem, p, len) ==
  CASE f.type = "INT" -> IntStored(f.codec, mem, p, len)
    [] f.type = "BOOL" -> BoolStored(mem, p, len)
    [] f = ascii -> AsciiStored(mem, p, len)
    [] f = ascii0 -> Ascii0Stored(mem, p, len)
    [] f.type = "BINARY_DATA" -> BinaryStored(mem, p, len)
    [] f.type = "ENUM" -> EnumStored(f, mem, p, len)
    [] f.type = "PACKED" -> PackedStored(f, mem, p, len)
    [] f.type = "OPTIONAL" -> OptionalStored(f, mem, p, len)
    [] f.type = "ARRAY" -> ArrayStored(f, mem, p, len)
    [] f.type = "UNION" -> UnionStored(f, mem, p, len)
    [] f.type = "STRUCT" -> StructStored(f, mem, p, len)
    [] f.type = "MESSAGE" ->
         MessageStored(f, mem, p, len, 0, [i \in DOMAIN f.list |-> <<>>])

-----------------------------------------------------------------------------
(* validate_native.  Some tables have none: optionals, structs and         *)
(* messages look before they call it, arrays and unions do not.            *)

HasValidate(f) == f.type \notin {"INT", "BINARY_DATA", "PACKED"}
Asked(f, v) == IF HasValidate(f) THEN ValidateNative(f, v) ELSE "valid"
Called(f, v) == IF f # NULL /\ HasValidate(f) THEN ValidateNative(f, v) ELSE "crash"

(* The first answer that is not "valid".                                   *)
FirstAnswer(answers) ==
  LET odd == SelectSeq(answers, LAMBDA a : a # "valid")
  IN IF odd = <<>> THEN "valid" ELSE Head(odd)

Verdict(ok) == IF ok THEN "valid" ELSE "invalid"

ValidateNative(f, v) ==
  CASE f.type = "BOOL" -> Verdict(v <= 1)
    [] f = ascii -> Verdict(~NonAscii(v))
    [] f = ascii0 -> Verdict(~NonAscii(v) /\ ~HasNul(v))
    [] f.type = "ENUM" -> Verdict(LookupByValue(f, v) # 0)
    [] f.type = "OPTIONAL" -> IF v = <<>> THEN "valid" ELSE Asked(f.subformat, v[1])
    [] f.type = "ARRAY" ->
         FirstAnswer([i \in DOMAIN v |-> Called(f.element_format, v[i])])
    [] f.type = "UNION" ->
         IF LookupByValue(f, v[1]) = 0 THEN "invalid"
         ELSE Called(CaseFormat(f, v[1]), Last(v))
    [] f.type \in {"STRUCT", "MESSAGE"} ->
         FirstAnswer([i \in DOMAIN f.list |-> Asked(f.list[i].format, v[i][1])])
=============================================================================
