---------------------------- MODULE FormatStreams ----------------------------
(***************************************************************************)
(* Values written one after another through the vfuncs tables of their     *)
(* formats, by pack or by pack_to, and read back by unpack while the bytes *)
(* are still arriving: a reader that is refused tries again when it has    *)
(* been given more.  The bytes may also come from somewhere else.          *)
(*                                                                         *)
(* The formats are those of module Formats; the program that calls them is *)
(* the environment.                                                        *)
(***************************************************************************)
EXTENDS Formats

CONSTANTS
  Schemas,     (* a sequence of schemas: what is written and read, each    *)
               (* item a format and the values tried for it                *)
  ForeignBytes, (* the bytes that may come from somewhere else             *)
  MaxForeign   (* bound: how many of them                                  *)

VARIABLES
  schema,      (* which schema the two sides agreed on                     *)
  via,         (* "pack", "pack_to", or "foreign" bytes                    *)
  around,      (* the byte in memory nobody wrote                          *)
  sent,        (* for each item written, which of its values               *)
  promised,    (* the sum of get_packed_size for the items written         *)
  out,         (* the bytes                                                *)
  given,       (* how many of them the reader has                          *)
  at,          (* how many it has used                                     *)
  got,         (* the values unpacked                                      *)
  refused,     (* what it was given when unpack last refused, or 0         *)
  aborted      (* an assertion failed                                      *)

vars == <<schema, via, around, sent, promised, out, given, at, got, refused, aborted>>
fixed == <<schema, via, around>>
writer == <<sent, promised, out>>
reader == <<at, got, refused, aborted>>

Item(i) == Schemas[schema][i]

Init ==
  /\ schema \in DOMAIN Schemas
  /\ via \in {"pack", "pack_to", "foreign"}
  /\ around \in {0, Byte - 1}
  /\ sent = <<>> /\ promised = 0 /\ out = <<>> /\ given = 0
  /\ at = 0 /\ got = <<>> /\ refused = 0 /\ aborted = FALSE

-----------------------------------------------------------------------------
Write(bytes, k) ==
  LET item == Item(Len(sent) + 1)
  IN /\ promised' = promised + PackedSize(item.format, item.values[k])
     /\ out' = out \o bytes
     /\ sent' = Append(sent, k)
     /\ UNCHANGED <<fixed, given, reader>>

(* get_packed_size, and pack into memory of that size.                     *)
PackItem ==
  /\ via = "pack" /\ ~aborted /\ Len(sent) < Len(Schemas[schema])
  /\ LET item == Item(Len(sent) + 1)
     IN \E k \in DOMAIN item.values :
          Write(Pack(item.format, item.values[k], around), k)

(* pack_to a data builder, and the pieces of it.                           *)
PackItemTo ==
  /\ via = "pack_to" /\ ~aborted /\ Len(sent) < Len(Schemas[schema])
  /\ LET item == Item(Len(sent) + 1)
     IN \E k \in DOMAIN item.values :
          Write(Build(PackTo(item.format, item.values[k], Builder, around)), k)

ForeignByte ==
  /\ via = "foreign" /\ ~aborted /\ Len(out) < MaxForeign
  /\ \E b \in ForeignBytes : out' = Append(out, b)
  /\ given' = given + 1
  /\ UNCHANGED <<fixed, sent, promised, reader>>

Deliver ==
  /\ given < Len(out) /\ ~aborted
  /\ given' = given + 1
  /\ UNCHANGED <<fixed, writer, reader>>

Memory(n) == [bytes |-> SubSeq(out, 1, n), around |-> around]
Outcomes(n) == Unpack(Item(Len(got) + 1).format, Memory(n), at, n - at)

UnpackItem ==
  /\ Len(got) < Len(Schemas[schema])
  /\ at < given /\ refused < given /\ ~aborted
  /\ \E r \in Outcomes(given) :
       /\ aborted' = (r.used < 0)
       /\ refused' = IF r.used > 0 THEN 0 ELSE given
       /\ at' = IF r.used > 0 THEN at + r.used ELSE at
       /\ got' = got \o r.value
  /\ UNCHANGED <<fixed, writer, given>>

Next == PackItem \/ PackItemTo \/ ForeignByte \/ Deliver \/ UnpackItem

Spec == Init /\ [][Next]_vars

-----------------------------------------------------------------------------
(* Properties                                                              *)

SentValue(i) == Item(i).values[sent[i]]

(* Formats whose unpack looks at packed_len before it looks at a byte,     *)
(* which the value of an optional needs: its tag may be the last byte.     *)
LooksAtLength(f) ==
  /\ f.type \notin {"ENUM", "OPTIONAL"}
  /\ f.type = "INT" => ~f.codec.is_b128 \/ f.codec.byte_size = 8

(* The formats unpack reads as pack writes them: not arrays, unions and    *)
(* messages, which look at packed_data - at, nor structs, which pass over  *)
(* a byte pack does not write.                                             *)
RECURSIVE ReadsForward(_)
ReadsForward(f) ==
  CASE f.type \in {"ARRAY", "UNION", "STRUCT", "MESSAGE"} -> FALSE
    [] f.type = "OPTIONAL" -> LooksAtLength(f.subformat) /\ ReadsForward(f.subformat)
    [] OTHER -> TRUE

AllForward ==
  [s \in DOMAIN Schemas |-> \A i \in DOMAIN Schemas[s] : ReadsForward(Schemas[s][i].format)]
Forward == AllForward[schema]

(* Where the first n items end.                                            *)
End(n) ==
  FoldLeft(+, 0, [i \in 1..n |-> PackedSize(Item(i).format, SentValue(i))])

(* get_packed_size is what pack writes and what pack_to appends, for every *)
(* kind of format: memory of that size holds the packed value exactly.     *)
SizeIsExact == via # "foreign" => promised = Len(out)

(* What the reader has is what was sent, in order, and it is where the     *)
(* next value begins, however the bytes arrived.                           *)
RoundTrip ==
  Forward /\ via # "foreign" =>
    /\ Len(got) <= Len(sent)
    /\ \A i \in DOMAIN got : got[i] = SentValue(i)
    /\ at = End(Len(got))

(* A value that is all there is not refused.                               *)
RefusedOnlyWhenShort ==
  Forward /\ via # "foreign" /\ refused # 0 =>
    Len(got) = Len(sent) \/ refused < End(Len(got) + 1)

(* The length of binary data and of its prefix is a uint32_t.              *)
LengthFits(f, v) ==
  f.type = "BINARY_DATA" => UintSize(Len(v)) + Len(v) < IntWord

(* What unpack would do now, with that byte after those it was given; what *)
(* it returns and stores, of values whose length fits.                     *)
Told(other) ==
  LET f == Item(Len(got) + 1).format
      mem == [bytes |-> SubSeq(out, 1, given), around |-> other]
  IN {r \in Unpack(f, mem, at, given - at) : r.used > 0 => LengthFits(f, r.value[1])}

(* Whatever the bytes are, unpack fails no assertion, uses no more bytes   *)
(* than it was given, and neither its answer nor the value it stores       *)
(* depends on the memory behind them (binary data apart whose length with  *)
(* its prefix is no uint32_t).                                             *)
StaysInside ==
  Forward =>
    /\ ~aborted /\ at <= given
    /\ Len(got) < Len(Schemas[schema]) /\ at < given =>
         \A other \in 0..(Byte - 1) : Told(other) = Told(around)

(* Whatever bytes it came from, an unpacked value passes validate_native,  *)
(* and packed again it is unpacked as itself from get_packed_size bytes    *)
(* (of binary data, if their number is a uint32_t).                        *)
AcceptedCanBeSent ==
  Forward => \A i \in DOMAIN got :
    LET f == Item(i).format
        packed == Pack(f, got[i], around)
        mem == [bytes |-> packed, around |-> around]
    IN LengthFits(f, got[i]) =>
       /\ Asked(f, got[i]) = "valid"
       /\ Len(packed) = PackedSize(f, got[i])
       /\ Unpack(f, mem, 0, Len(packed)) = {Stored(Len(packed), got[i])}

(* A value accepted from the first bytes given is the one that all the     *)
(* bytes given would make: a reader may try as soon as it likes.           *)
NoEarlyAcceptance ==
  Forward /\ Len(got) < Len(Schemas[schema]) /\ at < given =>
    \A n \in (at + 1)..given : \A r \in Outcomes(n) :
      r.used > 0 => Outcomes(given) = {r}

(* Enums, unions and structs find by bisection each entry that was         *)
(* declared, by its value and by its name, and no other.                   *)
LookupsAgree ==
  out = <<>> => \A i \in DOMAIN Schemas[schema] :
    LET f == Item(i).format
    IN f.type \in {"ENUM", "UNION", "STRUCT", "MESSAGE"} =>
         /\ \A e \in DOMAIN f.list :
              /\ LookupByValue(f, f.list[e].value) = e
              /\ LookupByName(f, f.list[e].name) # 0
              /\ f.by_name[LookupByName(f, f.list[e].name)] = f.list[e]
         /\ \A value \in 0..(Last(f.list).value + 1) :
              LookupByValue(f, value) = 0 <=>
                \A e \in DOMAIN f.list : f.list[e].value # value

(* bulp-format-struct.c:219, "valid members should be unpacked": a message *)
(* that is unpacked has the members that were packed.                      *)
MessageMembersArrive ==
  via # "foreign" => \A i \in DOMAIN got :
    Item(i).format.type = "MESSAGE" => got[i] = SentValue(i)

(* bulp-format-struct.c:341, "skip nul": the byte that unpack passes over  *)
(* after the members of a struct is a nul.                                 *)
StructEndsWithNul ==
  via # "foreign" => \A i \in DOMAIN got :
    Item(i).format.type = "STRUCT" /\ i = Len(got) /\ at \in DOMAIN out =>
      out[at] = 0
=============================================================================
