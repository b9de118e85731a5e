------------------------------- MODULE MCFormats -------------------------------
(* Comparators and FormatStreams for TLC: a byte has three bits and a      *)
(* group two; a ushort has 5 bits, a uint 9 and a ulong 19, so that each   *)
(* fills its last group as the code's 16, 32 and 64 bits fill theirs.      *)
(* Names are numbers.                                                      *)
EXTENDS Comparators

Entry(name, format, set_value, value) ==
  [name |-> name, format |-> format, set_value |-> set_value, value_if_set |-> value]
Next_(name, format) == Entry(name, format, FALSE, 0)
Set_(name, format, value) == Entry(name, format, TRUE, value)

item(format, values) == [format |-> format, values |-> values]

Color == NewEnum(<<Set_(5, NULL, 9), Next_(2, NULL), Set_(7, NULL, 0),
                   Next_(4, NULL), Set_(1, NULL, 120)>>)
Shape == NewUnion(<<Next_(3, NULL), Next_(1, uint8), Set_(2, ascii0, 4)>>)
Point == NewStruct(<<Next_(2, uint8), Next_(1, OptionalOf(uint))>>, FALSE)
Note == NewStruct(<<Set_(2, ascii, 2), Set_(1, bool, 7), Set_(3, uint, 0)>>, TRUE)

FormatSchemas ==
  << <<item(uint8, <<0, 7>>), item(int8, <<-4, 3>>), item(int16, <<-32, -1, 31>>)>>,
     <<item(uint32, <<0, 4095>>), item(bool, <<0, 1>>), item(uint64, <<1>>)>>,
     <<item(ushort, <<0, 3, 4, 16, 31>>), item(short, <<-16, -1, 0, 15>>)>>,
     <<item(uint, <<0, 15, 16, 511>>), item(int, <<-256, -3, 2, 255>>)>>,
     <<item(ulong, <<0, 262144, 524287>>), item(long, <<-262144, -1, 262143>>)>>,
     <<item(ascii, << <<>>, <<3>>, <<0, 1, 2, 3>> >>), item(ascii0, << <<>>, <<1, 3>> >>)>>,
     <<item(binary_data, << <<>>, <<7, 0>>, <<4, 4, 4, 4>> >>), item(int, <<-1>>)>>,
     <<item(Packed(<<1, 2, 5, 3>>), << <<0, 3, 0, 5>>, <<1, 2, 31, 7>>, <<1, 0, 17, 2>> >>),
       item(Packed(<<2, 3, 8>>), << <<3, 0, 255>>, <<0, 5, 165>> >>)>>,
     <<item(Color, <<0, 1, 9, 10, 120>>), item(Color, <<9>>)>>,
     <<item(OptionalOf(ascii0), << <<>>, << <<>> >>, << <<2, 3>> >> >>),
       item(OptionalOf(bool), << <<>>, <<1>> >>), item(OptionalOf(long), << <<-5>> >>)>>,
     <<item(OptionalOf(OptionalOf(uint16)), << <<>>, << <<>> >>, << <<20>> >> >>),
       item(OptionalOf(Color), << <<>>, <<10>> >>)>>,
     <<item(ArrayOf(int), << <<>>, <<-3>>, <<100, 0, 1, 2>> >>)>>,
     <<item(Shape, << <<0>>, <<1, 5>>, <<4, <<1, 2>> >> >>)>>,
     <<item(Point, << << <<1>>, << <<>> >> >>, << <<7>>, << <<20>> >> >> >>)>>,
     <<item(Note, << << <<4>>, << <<>> >>, <<0>> >>, << <<300>>, << <<1, 1>> >>, <<1>> >> >>)>> >>

(* A number before the message, which is what the length is read from.     *)
Mark == NewStruct(<<Next_(1, uint8)>>, TRUE)
MessageSchemas ==
  << <<item(uint32, <<0, 1, 2>>), item(Mark, << << <<0>> >>, << <<6>> >> >>)>> >>

StructSchemas ==
  << <<item(Point, << << <<1>>, << <<>> >> >> >>), item(uint8, <<0, 5>>)>> >>
=============================================================================
