------------------------------- MODULE MCNames -------------------------------
(* Small instances of the namespaces and of the description parser for     *)
(* TLC.  What happens is chosen at the start: a caller uses all operations *)
(* on a few names; one namespace gets many names, so that its tree grows;  *)
(* or descriptions are parsed, as they are meant, cut off anywhere, or     *)
(* with any one lexeme replaced.                                           *)
EXTENDS DescriptionParser, TLC

CONSTANTS
  MaxCalls,        (* BOUND: the calls of the caller, the namespaces and   *)
  CallerSpaces,    (* the formats that are there after them                *)
  CallerFormats,
  GrownNames       (* BOUND: the names the tree that grows gets            *)

VARIABLES driver, calls

vars == <<store, held, parse, driver, calls>>

MCBuiltins == <<"int">>
MCSpelling ==
  [int |-> <<9, 14, 20>>, a |-> <<1>>, ab |-> <<1, 2>>, b |-> <<2>>,
   foo |-> <<6>>, bar |-> <<2, 1>>, Kind |-> <<0, 11>>, Traits |-> <<0, 20>>,
   Pet |-> <<0, 16>>, Note |-> <<0, 14>>, Car |-> <<0, 3>>,
   enum |-> <<5>>, namespace |-> <<14>>, struct |-> <<19>>, union |-> <<21>>,
   packed |-> <<16>>, message |-> <<13>>, void |-> <<22>>]
MCNumbers == [x \in {"0", "3", "8", "1.5"} |->
                CASE x = "0" -> 0 [] x = "3" -> 3 [] x = "8" -> 8 [] OTHER -> -1]
MCPaths == {<<"ab">>, <<"a", "ab">>}

-----------------------------------------------------------------------------
(* The descriptions                                                        *)

member(type, arrays, name) == [type |-> type, arrays |-> arrays, name |-> name, value |-> NULL]
value(name, number) == [name |-> name, value |-> number]
stanza(kind, name, items) == [kind |-> kind, name |-> name, items |-> items]

Pets ==
  [space |-> <<"foo", "bar">>,
   stanzas |->
     <<stanza("enum", "Kind", <<value("a", NULL), value("b", "3"), value("void", NULL)>>),
       stanza("packed", "Traits", <<value("a", "8"), value("b", "3")>>),
       stanza("struct", "Pet", <<member(<<"int">>, 0, "a"), member(<<"Traits">>, 0, "b")>>),
       stanza("union", "Note", <<member(<<"Pet">>, 1, "a"), member(<<>>, 0, "void"),
                                 [member(<<"int">>, 0, "b") EXCEPT !.value = "8"]>>),
       stanza("message", "Car", <<member(<<"foo", "bar", "Note">>, 2, "a"),
                                  member(<<"Kind">>, 0, "b")>>)>>]

(* Names that are in use, in the namespace or above it                     *)
Again ==
  [space |-> <<"foo">>,
   stanzas |->
     <<stanza("struct", "int", <<member(<<"int">>, 0, "a")>>),
       stanza("union", "bar", <<member(<<"int">>, 1, "a")>>),
       stanza("enum", "enum", <<value("a", "0")>>),
       stanza("struct", "int", <<>>)>>]

Clash == [space |-> <<"int">>, stanzas |-> <<>>]

Text(d, lexemes, clean) == [description |-> d, lexemes |-> lexemes, clean |-> clean]
Whole(d) == Text(d, Lexemes(d), Len(Lexemes(d)))
Complete == {Whole(Pets), Whole(Again)}
Cuts(d) ==
  LET text == Lexemes(d) IN {Text(d, SubSeq(text, 1, k), k) : k \in 0..Len(text)}
Swaps(d, others) ==
  LET text == Lexemes(d)
  IN {Text(d, [text EXCEPT ![k] = x], k - 1) : k \in DOMAIN text, x \in others}

MCTexts ==
  UNION {Cuts(Pets), Cuts(Again), {Whole(Clash)},
         Swaps(Pets, {";", "}", "[", ".", "=", "?", "Kind", "enum", "int", "3", "1.5", " "}),
         Swaps(Again, {"}", "bar"})}

-----------------------------------------------------------------------------
MCInit ==
  /\ InitNamespaces /\ parse = Idle /\ calls = 0
  /\ driver \in {"caller", "grower", "parser"}

Grow ==
  \/ store.ns = <<>> /\ namespace_new_global
  \/ \E n \in Spaces \cap {1} :
       \/ \E name \in GrownNames \ CallerNames : add_format(n, name, 1)
       \/ \E name \in GrownNames \cap CallerNames : force_subnamespace(n, <<name>>)

(* A second text is parsed after one that was as it should be.             *)
Parse ==
  \/ store.ns = <<>> /\ namespace_new_global /\ UNCHANGED <<parse, calls>>
  \/ /\ calls < 2
     /\ \E n \in Spaces \cap {1} :
          \/ parse.status = "idle" /\ \E text \in Texts : parse_data(n, text)
          \/ /\ parse.status # "idle" /\ parse.text \in Complete
             /\ \E text \in Complete \cup Cuts(Again) : parse_data(n, text)
     /\ calls' = calls + 1
  \/ ParserNext /\ UNCHANGED calls

MCNext ==
  /\ UNCHANGED driver
  /\ \/ /\ driver = "caller" /\ calls < MaxCalls
        /\ calls' = calls + 1
        /\ CallerNext
        /\ Len(store'.ns) <= CallerSpaces /\ Len(store'.fmt) <= CallerFormats
        /\ UNCHANGED parse
     \/ driver = "grower" /\ Grow /\ UNCHANGED <<parse, calls>>
     \/ driver = "parser" /\ Parse

MCSpec == MCInit /\ [][MCNext]_vars
=============================================================================
