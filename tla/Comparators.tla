----------------------------- MODULE Comparators -----------------------------
(***************************************************************************)
(* bulp-comparator.c: packed values compared where they lie, the order of  *)
(* the keys of an index.  compare gives an order; compare2 gives one, and  *)
(* when that says equal, the length of the packed value.                   *)
(*                                                                         *)
(* The comparators of packed elements, floats, messages, structs, unions,  *)
(* optionals and arrays are left out: see README.md.                       *)
(***************************************************************************)
EXTENDS FormatStreams

(* The sign of what a comparison returns.                                  *)
Order(a, b) == IF a < b THEN -1 ELSE IF a > b THEN 1 ELSE 0

(* COMPARE_RETURN_PM1 one after another, and then return 0.                *)
FirstOf(orders) ==
  LET unequal == {i \in DOMAIN orders : orders[i] # 0}
  IN IF unequal = {} THEN 0 ELSE orders[Min(unequal)]

(* n bytes of a from p on and of b from q on, as memcmp compares them.     *)
Memcmp(a, p, b, q, n) ==
  FirstOf([i \in 1..n |-> Order(Peek(a, p + i - 1), Peek(b, q + i - 1))])

-----------------------------------------------------------------------------
(* The unsafe unpack functions do not look at a length.                    *)
UintPrefix(mem) == UintUnpack(mem, 0, LongWord)
Varint(c, mem) ==
  IF c.is_signed THEN LongUnpack(mem, 0, LongWord) ELSE UlongUnpack(mem, 0, LongWord)

CompareBinaryData(a, b) ==
  LET a_len == UintPrefix(a)
      b_len == UintPrefix(b)
  IN FirstOf(<<Memcmp(a, a_len.used, b, b_len.used, Min({a_len.value, b_len.value})),
               Order(a_len.value, b_len.value), Order(a_len.used, b_len.used)>>)

(* The bytes of a string and its NUL.                                      *)
String0Size(mem) == Min({i \in 1..Len(mem.bytes) : mem.bytes[i] = 0})
CompareString0(a, b) == Memcmp(a, 0, b, 0, String0Size(a))

CompareVarint(c, a, b) == Order(Varint(c, a).value, Varint(c, b).value)
(* compare2 also orders two packings of one value, the longer one last.    *)
Compare2Varint(c, a, b) ==
  FirstOf(<<CompareVarint(c, a, b), Order(Varint(c, a).used, Varint(c, b).used)>>)

(* Broken variant: the top byte of a signed integer as it is.              *)
CompareFixed_Unflipped(c, a, b) ==
  FirstOf([i \in 1..c.byte_size |->
             Order(Peek(a, c.byte_size - i), Peek(b, c.byte_size - i))])

(* From the top byte down; that of a signed integer is compared with its   *)
(* high bit flipped.                                                       *)
CompareFixed(c, a, b) ==
  LET Digit(mem, i) ==
        LET d == Peek(mem, c.byte_size - i)
        IN IF i = 1 /\ c.is_signed THEN (d + Group) % Byte ELSE d
  IN FirstOf([i \in 1..c.byte_size |-> Order(Digit(a, i), Digit(b, i))])

-----------------------------------------------------------------------------
(* A comparator c: which functions of the tables it has.                   *)

binary_data_funcs == [func |-> "binary_data"]
string0_funcs == [func |-> "string0"]
varint_funcs(is_signed) == [func |-> "varint", is_signed |-> is_signed]
fixedint_funcs(is_signed, byte_size) ==
  [func |-> "fixedint", is_signed |-> is_signed, byte_size |-> byte_size]

Compare(c, a, b) ==
  CASE c.func = "varint" -> CompareVarint(c, a, b)
    [] c.func = "fixedint" -> CompareFixed(c, a, b)
    [] c.func = "string0" -> CompareString0(a, b)
    [] c.func = "binary_data" -> CompareBinaryData(a, b)

(* What compare2 stores in *len_out when the values are equal.             *)
LengthOut(c, a) ==
  CASE c.func = "varint" -> Varint(c, a).used
    [] c.func = "fixedint" -> c.byte_size
    [] c.func = "string0" -> String0Size(a)
    [] c.func = "binary_data" -> UintPrefix(a).used + UintPrefix(a).value

Compare2(c, a, b) ==
  LET order == IF c.func = "varint" THEN Compare2Varint(c, a, b) ELSE Compare(c, a, b)
  IN [order |-> order, len_out |-> IF order = 0 THEN <<LengthOut(c, a)>> ELSE <<>>]

(* The sizes of compare__fixedint__funcs are indexed by log2_byte_size.    *)
bulp_comparator_new_auto(f) ==
  CASE f.type = "BINARY_DATA" -> binary_data_funcs
    [] f = ascii -> binary_data_funcs
    [] f = ascii0 -> string0_funcs
    [] f.type = "ENUM" -> varint_funcs(FALSE)
    [] f.type = "INT" -> IF f.is_b128 THEN varint_funcs(f.is_signed)
                         ELSE fixedint_funcs(f.is_signed, 2^f.log2_byte_size)

-----------------------------------------------------------------------------
(* Properties                                                              *)

HasComparator(f) == f.type \in {"BINARY_DATA", "STRING", "ENUM", "INT"}

(* The functions whose names are a format's.                               *)
NamedFor(f) ==
  CASE f.type = "INT" /\ f.codec.is_b128 -> varint_funcs(f.codec.is_signed)
    [] f.type = "INT" /\ ~f.codec.is_b128 ->
         fixedint_funcs(f.codec.is_signed, f.codec.byte_size)
    [] OTHER -> bulp_comparator_new_auto(f)

(* The integers that a format holds.                                       *)
Words(codec) ==
  IF ~codec.is_b128 THEN FixedWord(codec.byte_size)
  ELSE CASE codec.byte_size = 2 -> ShortWord
         [] codec.byte_size = 4 -> IntWord
         [] codec.byte_size = 8 -> LongWord
Holds(codec, v) ==
  IF codec.is_signed THEN 2 * v >= -Words(codec) /\ 2 * v < Words(codec)
  ELSE v \in 0..(Words(codec) - 1)

(* The values of an item, and of integers also 0, 1, those of opposite     *)
(* sign and those next to them.                                            *)
Tried(item) ==
  LET given_values == {item.values[k] : k \in DOMAIN item.values}
      nearby == UNION {{v - 1, v, v + 1, -v} : v \in given_values \cup {0}}
  IN IF item.format.type # "INT" THEN given_values
     ELSE {v \in nearby : Holds(item.format.codec, v)}

(* Integers and enums by value; bytes as in a dictionary.                  *)
ValueOrder(f, v, w) ==
  IF f.type \in {"INT", "ENUM"} THEN Order(v, w)
  ELSE FirstOf([i \in 1..(Min({Len(v), Len(w)}) + 1) |->
         IF i <= Min({Len(v), Len(w)}) THEN Order(v[i], w[i]) ELSE Order(Len(v), Len(w))])

(* The functions c order packed values as the values are ordered, and tell *)
(* the size of a value, whatever bytes follow it.                          *)
OrdersValues(c, item) ==
  \A v, w \in Tried(item) :
    LET f == item.format
        a == [bytes |-> Pack(f, v, around), around |-> around]
        b == [bytes |-> Pack(f, w, around), around |-> Byte - 1 - around]
    IN /\ Compare(c, a, b) = ValueOrder(f, v, w)
       /\ Compare2(c, a, b) =
            [order |-> ValueOrder(f, v, w),
             len_out |-> IF v = w THEN <<PackedSize(f, v)>> ELSE <<>>]

(* By the functions named for its format, packed values compare as the     *)
(* values do, though they are compared as bytes, unfolded or flipped, and  *)
(* compare and compare2 agree on what pack writes.  So they do by the      *)
(* functions bulp_comparator_new_auto finds for bytes, strings, enums and  *)
(* uint8; but not for any other integer, because the fields of the format  *)
(* that it looks at are not what their names say.                          *)
ComparedAsValues ==
  out = <<>> /\ via = "pack" => \A k \in DOMAIN Schemas[schema] :
    LET f == Item(k).format
    IN HasComparator(f) =>
         /\ OrdersValues(NamedFor(f), Item(k))
         /\ OrdersValues(bulp_comparator_new_auto(f), Item(k))
              <=> f.type # "INT" \/ f = uint8
=============================================================================
