-------------------------- MODULE DescriptionParser --------------------------
(***************************************************************************)
(* bulp_namespace_parse_data (bulp-namespace-parser.c): a text that        *)
(* describes formats is cut into tokens, and the formats are made and      *)
(* bound in a namespace, stanza by stanza.                                 *)
(*                                                                         *)
(* A text is a sequence of lexemes, strings.  They stand apart, and a      *)
(* blank is a lexeme only behind `=', where it makes a difference.  A step *)
(* of the model is one turn of the parser's loops; the caller waits until  *)
(* it returns.                                                             *)
(***************************************************************************)
EXTENDS Namespace

CONSTANTS
  NumberValue,  (* the lexemes that are numbers: the value of an unsigned  *)
                (* integer, or -1                                          *)
  Texts         (* BOUND: the texts that are parsed                        *)

VARIABLE parse    (* the parser: what it reads, and how far it is          *)

Keywords == {"namespace", "enum", "struct", "union", "packed", "message",
             "version", "default", "void"}
Marks == {".", "...", ":", ";", ",", "{", "}", "[", "]", "(", ")",
          "<", "<=", "=", "==", ">", ">="}
Unexpected == {"?", "-", "@"}     \* characters that begin no token
Blank == " "

Token(type, text) == [type |-> type, text |-> text]
Unread == Token("unread", NULL)

(* The token of a lexeme.  There is no case for `?'.                       *)
TokenOf(lexeme) ==
  CASE lexeme \in Keywords \cup Marks -> Token(lexeme, lexeme)
    [] lexeme \in DOMAIN NumberValue -> Token("NUMBER", lexeme)
    [] lexeme \in Unexpected -> Unread
    [] OTHER -> Token("BAREWORD", lexeme)

(* The case of `=' runs on into the case of the digits, and the scan of a  *)
(* number (bulp-json-helpers.c) takes whatever character comes first and   *)
(* the digits behind it.  So a blank and a number are one token, and       *)
(* strtoul passes over the blank.  Anything else is a token of one         *)
(* character that is_uint refuses, or the scan fails, as at the e in       *)
(* `=Pet' or `= enum'; which it is depends on letters that are not here:   *)
(* misread.  (A signed number, which strtoul would take, is no lexeme.)    *)
BlankNumber(text, i) ==
  i + 1 < Len(text) /\ text[i + 1] = Blank /\ text[i + 2] \in DOMAIN NumberValue
NumberBehind(text, i, misread) ==
  IF i = Len(text) THEN Token("NUMBER", Blank)
  ELSE IF BlankNumber(text, i) THEN Token("NUMBER", text[i + 2])
  ELSE IF misread /\ text[i + 1] \notin DOMAIN NumberValue THEN Unread
  ELSE Token("NUMBER", text[i + 1])

tokenize(text, misread) ==
  LET from[i \in 1..(Len(text) + 2)] ==
        IF i > Len(text) THEN <<>>
        ELSE IF text[i] = Blank THEN from[i + 1]
        ELSE IF text[i] \in {"=", "=="}
        THEN <<TokenOf(text[i]), NumberBehind(text, i, misread)>>
             \o from[i + (IF BlankNumber(text, i) THEN 3 ELSE 2)]
        ELSE <<TokenOf(text[i])>> \o from[i + 1]
  IN from[1]

IsBareword(token) == token.type \in Keywords \cup {"BAREWORD"}
IsUint(token) ==
  /\ token.type = "NUMBER" /\ token.text \in DOMAIN NumberValue
  /\ NumberValue[token.text] >= 0

(* The i-th of the tokens ts is there and has this type.                   *)
Has(ts, i, type) == i <= Len(ts) /\ ts[i].type = type

(* Names has all the words of the texts.                                   *)
ASSUME TextsAssumption ==
  \A text \in Texts :
    /\ text.lexemes \in Seq(Range(text.lexemes))
    /\ \A i \in DOMAIN text.lexemes :
         IsBareword(TokenOf(text.lexemes[i])) => text.lexemes[i] \in Names \cup {Blank}

-----------------------------------------------------------------------------
(* Formats                                                                 *)

(* parse_dotted_name_from_tokens: how many of the tokens ts are a dotted   *)
(* name, of which limit may be looked at; 0 with an error.                 *)
DottedName(ts, limit) ==
  LET from[rv \in 1..(Len(ts) + 2)] ==
        IF rv + 2 < limit /\ ts[rv + 1].type = "."
        THEN IF ts[rv + 2].type = "BAREWORD" THEN from[rv + 2] ELSE 0
        ELSE rv
  IN from[1]
PathOf(ts, used) == [i \in 1..((used + 1) \div 2) |-> ts[2 * i - 1].text]

(* Broken variant: a name is looked for from the top before it is looked for here. *)
ImportsLookup_FromTop(s, path) ==
  LET here == Query1(s, parse.this_ns, path[1])
      above == Walk(s, parse.global_ns, path)
  IN IF \E i \in DOMAIN path : path[i] \notin Names THEN NULL
     ELSE IF IsFormat(above) THEN above.v
     ELSE IF Len(path) = 1 /\ IsFormat(here) THEN here.v ELSE NULL

(* bulp_imports_lookup; nothing ever fills in imports.                     *)
ImportsLookup(s, path) ==
  LET here == Query1(s, parse.this_ns, path[1])
      above == Walk(s, parse.global_ns, path)
  IN IF \E i \in DOMAIN path : path[i] \notin Names THEN NULL
     ELSE IF Len(path) = 1 /\ IsFormat(here) THEN here.v
     ELSE IF IsFormat(above) THEN above.v ELSE NULL

(* What a part of the parser returns: the tokens it used, 0 with an error; *)
(* the heap; and what it has read.                                         *)
Read(s, used, v) == [s |-> s, used |-> used, v |-> v]

(* The next pair of brackets makes the array of what was read so far.      *)
ArrayMark(r, ts, junk) ==
  LET s1 == ArrayOf(r.s, r.v, junk)
  IN IF r.used = 0 \/ ~Has(ts, r.used + 1, "[") THEN r
     ELSE IF ~Has(ts, r.used + 2, "]") THEN Read(r.s, 0, NULL)
     ELSE IF s1.crashed THEN Read(s1, 0, NULL)
     ELSE Read(s1, r.used + 2, s1.fmt[r.v].array_of)
ArrayMarks(s, f, ts, used, junk) ==
  LET marked[k \in 0..Len(ts)] ==
        IF k = 0 THEN Read(s, used, f) ELSE ArrayMark(marked[k - 1], ts, junk)
  IN marked[Len(ts)]

parse_format(s, ts, junk) ==
  LET used == DottedName(ts, Len(ts))
      f == ImportsLookup(s, PathOf(ts, used))
  IN IF used = 0 THEN Read(s, 0, NULL)
     ELSE IF f = NULL THEN Read(s, 0, NULL)
     ELSE ArrayMarks(s, f, ts, used, junk)

-----------------------------------------------------------------------------
(* One member, value, element or case.  ts are the tokens that are left,   *)
(* one at least; r is what parse_format has made of the first of them.     *)

Item(name, format, value) == [name |-> name, format |-> format, value |-> value]
Error(s) == Read(s, 0, NULL)

(* A value is checked but its tokens are not passed over, so that the      *)
(* semicolon is missing.                                                   *)
parse_struct_member(r, ts) ==
  LET n == r.used
  IN IF n > 0 /\ Has(ts, n + 1, "BAREWORD") /\ Has(ts, n + 2, ";")
     THEN Read(r.s, n + 2, Item(ts[n + 1].text, r.v, NULL))
     ELSE Error(r.s)

parse_union_case(r, ts) ==
  LET n == r.used
      valued == Has(ts, n + 2, "=")
      m == IF valued THEN n + 4 ELSE n + 2
  IN IF /\ n > 0 /\ m <= Len(ts)
        /\ IsBareword(ts[n + 1])
        /\ valued => IsUint(ts[n + 3])
        /\ ts[m].type = ";"
     THEN Read(r.s, m, Item(ts[n + 1].text, r.v,
                            IF valued THEN NumberValue[ts[n + 3].text] ELSE NULL))
     ELSE Error(r.s)

(* A comma is passed over if there is one.                                 *)
EnumValue(s, ts) ==
  LET valued == Has(ts, 2, "=")
      m == IF valued THEN 3 ELSE 1
  IN IF /\ IsBareword(ts[1]) /\ Len(ts) > 1
        /\ valued => Len(ts) > 2 /\ IsUint(ts[3])
     THEN Read(s, IF Has(ts, m + 1, ",") THEN m + 1 ELSE m,
               Item(ts[1].text, NULL, IF valued THEN NumberValue[ts[3].text] ELSE NULL))
     ELSE Error(s)

(* So is a semicolon here.                                                 *)
PackedField(s, ts) ==
  LET sized == Has(ts, 2, ":")
      m == IF sized THEN 3 ELSE 1
  IN IF /\ ts[1].type = "BAREWORD" /\ Len(ts) > 1
        /\ sized => Len(ts) > 2 /\ IsUint(ts[3]) /\ NumberValue[ts[3].text] \in 1..32
     THEN Read(s, IF Has(ts, m + 1, ";") THEN m + 1 ELSE m, Item(ts[1].text, NULL, NULL))
     ELSE Error(s)

-----------------------------------------------------------------------------
(* A stanza that is complete: its format is made and bound.                *)

Numbered(items) ==
  LET v[i \in DOMAIN items] == IF items[i].value # NULL THEN items[i].value
                               ELSE IF i = 1 THEN 0 ELSE v[i - 1] + 1
  IN v
NamesOf(items) == [i \in DOMAIN items |-> items[i].name]

(* The constructors end the process when a value or a name comes twice; an *)
(* enum of no values looks at the last one; bulp_format_packed_new returns *)
(* NULL, which bulp_namespace_add_format takes a reference to.             *)
Constructs(kind, items) ==
  /\ IsInjective(NamesOf(items))
  /\ kind \in {"enum", "union"} => IsInjective(Numbered(items))
  /\ kind = "enum" => items # <<>>

TypeOf(kind) ==
  CASE kind = "enum" -> "ENUM" [] kind = "packed" -> "PACKED" [] kind = "union" -> "UNION"
    [] OTHER -> "STRUCT"
FormatsOf(kind, items) ==
  IF kind \in {"enum", "packed"} THEN <<>> ELSE [i \in DOMAIN items |-> items[i].format]

(* A name that is in use stays as it was, and nobody is told.  An enum     *)
(* keeps the reference it was made with.                                   *)
MakeAndBind(s, kind, name, items) ==
  LET s1 == NewFormat(s, TypeOf(kind), FormatsOf(kind, items))
      f == Made(s1)
      s2 == AddFormat(s1, parse.this_ns, name, f, TRUE)
  IN IF ~Constructs(kind, items) THEN Crash(s)
     ELSE IF kind = "enum"
     THEN [s2 EXCEPT !.leaks = Append(@, Entry("FORMAT", f))]
     ELSE FormatUnref(s2, f)

-----------------------------------------------------------------------------
(* The parser                                                              *)

Idle == [status |-> "idle"]
Busy == parse.status \in {"header", "stanzas"}
Left == SubSeq(parse.tokens, parse.at + 1, Len(parse.tokens))
Sees(type) == Has(parse.tokens, parse.at + 1, type)
AtEnd == parse.at = Len(parse.tokens)

Ends(status) == parse' = [parse EXCEPT !.status = status]
Passes(n) == parse' = [parse EXCEPT !.at = @ + n]
Crashes == Returns(Crash(store)) /\ UNCHANGED parse

(* The imports take a reference to the namespace and are not freed.        *)
parse_data(n, text) ==
  /\ ~Busy
  /\ Returns([NamespaceRef(store, n) EXCEPT
                !.leaks = Append(@, Entry("SUBNAMESPACE", n))])
  /\ \E misread \in BOOLEAN :
       LET tokens == tokenize(text.lexemes, misread)
       IN parse' = [status |-> IF \E i \in DOMAIN tokens : tokens[i] = Unread THEN "refused"
                               ELSE IF tokens = <<>> THEN "ok" ELSE "header",
                    text |-> text, tokens |-> tokens, at |-> 0, global_ns |-> n,
                    this_ns |-> NULL, before |-> {}, stanza |-> NULL, name |-> NULL,
                    items |-> <<>>]
  /\ UNCHANGED held

(* The dotted name may be looked for, and the semicolon after it, one      *)
(* token beyond the last: whatever is in that memory.                      *)
Beyond == {Unread, Token(";", ";"), Token("BAREWORD", NULL)}

Forced(path) ==
  LET forced[i \in 0..Len(path)] ==
        IF i = 0 THEN [s |-> store, v |-> parse.global_ns]
        ELSE IF forced[i - 1].v = NULL THEN forced[i - 1]
        ELSE ForceSubnamespace1(forced[i - 1].s, forced[i - 1].v, path[i])
  IN forced[Len(path)]
NamesIn(s, n) == {name \in Names : Bound(s, n, name)}

parse_namespace(beyond) ==
  /\ parse.status = "header"
  /\ LET ts == Tail(parse.tokens) \o <<beyond>>
         used == DottedName(ts, Len(ts) + 1)
         forced == Forced(PathOf(ts, used))
     IN IF ~(Sees("namespace") /\ Has(parse.tokens, 2, "BAREWORD")) \/ used = 0
        THEN Ends("refused") /\ UNCHANGED store
        ELSE IF used = Len(ts) \/ forced.v = NULL THEN Crashes
        ELSE /\ Returns(forced.s)
             /\ IF ts[used + 1].type # ";" THEN Ends("refused")
                ELSE parse' = [parse EXCEPT !.status = "stanzas", !.at = 1 + used,
                                 !.this_ns = forced.v, !.before = NamesIn(forced.s, forced.v)]
  /\ UNCHANGED held

(* The loop of parse_tokens                                                *)
Stanzas == {"enum", "struct", "message", "packed", "union"}

StanzaLoop == parse.status = "stanzas" /\ parse.stanza = NULL /\ UNCHANGED <<store, held>>

skip_semicolon == StanzaLoop /\ Sees(";") /\ Passes(1)

begin_stanza ==
  /\ StanzaLoop
  /\ ~Sees(";") /\ ~AtEnd
  /\ IF /\ Left[1].type \in Stanzas
        /\ Len(Left) > 2 /\ Left[3].type = "{"
        /\ IF Left[1].type \in {"struct", "message"} THEN Left[2].type = "BAREWORD"
           ELSE IsBareword(Left[2])
     THEN parse' = [parse EXCEPT !.stanza = Left[1].type, !.name = Left[2].text,
                                 !.items = <<>>, !.at = @ + 3]
     ELSE Ends("refused")

end_of_text == StanzaLoop /\ AtEnd /\ Ends("ok")

(* The loop of a stanza, up to its closing brace                           *)
InStanza == parse.status = "stanzas" /\ parse.stanza # NULL /\ UNCHANGED held

format(kind, junk) ==
  IF kind \in {"enum", "packed"} THEN Error(store)
  ELSE IF kind = "union" /\ Sees("void") THEN Read(store, 1, NULL)
  ELSE parse_format(store, Left, junk)

item(kind, r) ==
  CASE kind = "enum" -> EnumValue(store, Left)
    [] kind = "packed" -> PackedField(store, Left)
    [] kind = "union" -> parse_union_case(r, Left)
    [] OTHER -> parse_struct_member(r, Left)

Skips == parse.stanza \in {"struct", "message", "union"} /\ Sees(";")

read_item(junk) ==
  /\ InStanza /\ ~AtEnd /\ ~Sees("}") /\ ~Skips
  /\ \E f \in {format(parse.stanza, junk)} : \E r \in {item(parse.stanza, f)} :
        /\ Returns(r.s)
        /\ IF r.used = 0 THEN Ends("refused")
           ELSE parse' = [parse EXCEPT !.items = Append(@, r.v), !.at = @ + r.used]

skip_separator == InStanza /\ Skips /\ Passes(1) /\ UNCHANGED store

stanza_cut_off == InStanza /\ AtEnd /\ Ends("refused") /\ UNCHANGED store

end_stanza ==
  /\ InStanza /\ Sees("}")
  /\ Returns(MakeAndBind(store, parse.stanza, parse.name, parse.items))
  /\ parse' = [parse EXCEPT !.stanza = NULL, !.name = NULL, !.items = <<>>, !.at = @ + 1]

ParserNext ==
  \/ \E beyond \in Beyond : parse_namespace(beyond)
  \/ skip_semicolon \/ begin_stanza \/ end_of_text
  \/ skip_separator \/ stanza_cut_off \/ end_stanza
  \/ \E junk \in BOOLEAN : read_item(junk)

(* A caller that has texts parsed besides, and waits for the parser.       *)
InitDescriptions == InitNamespaces /\ parse = Idle
DescriptionNext ==
  \/ ~Busy /\ CallerNext /\ UNCHANGED parse
  \/ \E n \in Spaces, text \in Texts : parse_data(n, text)
  \/ ParserNext
Descriptions == InitDescriptions /\ [][DescriptionNext]_<<store, held, parse>>

-----------------------------------------------------------------------------
(* What is claimed.  A description is a namespace and stanzas, as the      *)
(* grammar has them; a text is its lexemes, of which only the first        *)
(* `clean' are kept, or followed by something else.  The value of an enum  *)
(* has a blank before it, that of a union's case has none.                 *)

Dotted(path) == FoldLeft(LAMBDA out, name : out \o <<".", name>>, <<path[1]>>, Tail(path))
Valued(i, blank) == IF i.value = NULL THEN <<>> ELSE <<"=">> \o blank \o <<i.value>>
Typed(i) ==
  (IF i.type = <<>> THEN <<"void">> ELSE Dotted(i.type))
  \o FlattenSeq([k \in 1..i.arrays |-> <<"[", "]">>])
ItemLexemes(kind, i) ==
  CASE kind = "enum" -> <<i.name>> \o Valued(i, <<Blank>>) \o <<",">>
    [] kind = "packed" -> <<i.name, ":", i.value, ";">>
    [] OTHER -> Typed(i) \o <<i.name>> \o Valued(i, <<>>) \o <<";">>
StanzaLexemes(st) ==
  <<st.kind, st.name, "{">>
  \o FlattenSeq([i \in DOMAIN st.items |-> ItemLexemes(st.kind, st.items[i])]) \o <<"}">>
Header(d) == <<"namespace">> \o Dotted(d.space) \o <<";">>
Upto(d, k) ==
  Header(d) \o FlattenSeq([i \in 1..k |-> StanzaLexemes(d.stanzas[i])])
Lexemes(d) == Upto(d, Len(d.stanzas))

(* The format a member's type stands for: in the namespace, what was bound *)
(* before the stanza, and else what the name leads to from the top.        *)
Meant(i, bound) ==
  LET here == Query1(store, parse.this_ns, i.type[1])
      base == IF Len(i.type) = 1 /\ i.type[1] \in bound /\ IsFormat(here) THEN here.v
              ELSE Walk(store, parse.global_ns, i.type).v
      array[k \in 0..i.arrays] == IF k = 0 THEN base ELSE store.fmt[array[k - 1]].array_of
  IN IF i.type = <<>> THEN NULL ELSE array[i.arrays]

BoundBefore(k) ==
  parse.before \cup {parse.text.description.stanzas[j].name : j \in 1..(k - 1)}

(* What the k-th stanza says is what its name is bound to.                 *)
Says(k) ==
  LET st == parse.text.description.stanzas[k]
      e == Query1(store, parse.this_ns, st.name)
  IN /\ IsFormat(e)
     /\ store.fmt[e.v].type = TypeOf(st.kind)
     /\ store.fmt[e.v].canonical_ns = parse.this_ns
     /\ store.fmt[e.v].members =
          IF st.kind \in {"enum", "packed"} THEN <<>>
          ELSE [i \in DOMAIN st.items |-> Meant(st.items[i], BoundBefore(k))]

(* A parse that has come past the stanzas of the clean part has bound what *)
(* each of them says to its name, but for names that were in use; it has   *)
(* bound nothing else if the text ends there; and it returns true exactly  *)
(* if the text ends between two stanzas.                                   *)
ParsedAsWritten ==
  ~store.crashed /\ parse.status \in {"ok", "refused"} /\ parse.this_ns # NULL =>
    LET d == parse.text.description
        clean == parse.text.clean
        whole == {k \in DOMAIN d.stanzas : Len(Upto(d, k)) <= clean}
        new == {k \in whole : d.stanzas[k].name \notin BoundBefore(k)}
        names == parse.before \cup {d.stanzas[k].name : k \in whole}
    IN /\ \A k \in new : Says(k)
       /\ names \subseteq NamesIn(store, parse.this_ns)
       /\ clean = Len(parse.text.lexemes) =>
            /\ NamesIn(store, parse.this_ns) = names
            /\ (parse.status = "ok") <=> clean <= Len(Header(d))
                                       \/ \E k \in whole : Len(Upto(d, k)) = clean
=============================================================================
