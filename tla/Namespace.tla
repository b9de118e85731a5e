------------------------------ MODULE Namespace ------------------------------
(***************************************************************************)
(* Namespaces and the reference counts of formats: bulp-namespace.c,       *)
(* bulp-format.c, and what the constructors and destructors of formats do  *)
(* to the counts.  Objects are numbered in the order they are made, and a  *)
(* number is not used again, so a pointer to freed memory is a number      *)
(* whose object is gone.                                                   *)
(*                                                                         *)
(* The library runs between calls of its caller.  A caller keeps to the    *)
(* rules of reference counting: it gives back the references it has taken  *)
(* and uses what it holds or can still look up.                            *)
(***************************************************************************)
EXTENDS RedBlackTree, SequencesExt

CONSTANTS
  Names,        (* the names, as strings                                   *)
  Spelling,     (* their letters, as numbers                               *)
  Builtins,     (* the names of the builtin formats, in their order        *)
  CallerNames,  (* BOUND: the names and the dotted names the caller uses   *)
  Paths,
  MaxSpaces,    (* BOUND: namespaces made                                  *)
  MaxFormats,   (* BOUND: formats made                                     *)
  MaxHeld,      (* BOUND: references to one object the caller holds        *)
  Kinds,        (* BOUND: the types of formats the caller makes            *)
  MaxMembers    (* BOUND: members of a structure, cases of a union         *)

ASSUME NamesAssumption ==
  /\ Spelling \in [Names -> Seq(Nat)]
  /\ \A x, y \in Names : Spelling[x] = Spelling[y] => x = y
  /\ Builtins \in Seq(Names)
ASSUME NullAssumption ==      (* neither an object, nor a node, nor an entry *)
  /\ NULL \notin Nat
  /\ NULL \notin Names \X {"malloc", "stack"}
  /\ NULL \notin [type : {"FORMAT", "SUBNAMESPACE"}, v : Nat]
ASSUME CallerAssumption ==
  /\ CallerNames \subseteq Names /\ Paths \subseteq Seq(Names)
  /\ "ARRAY" \notin Kinds    (* only ArrayOf makes those                     *)
  /\ MaxSpaces \in Nat /\ MaxFormats \in Nat /\ MaxHeld \in Nat /\ MaxMembers \in Nat

VARIABLES
  store,    (* the C heap: ns and fmt are the namespaces and the formats,  *)
            (* global is the static variable, crashed says that the        *)
            (* process has ended in an abort or a bad access, leaks are    *)
            (* references that were taken and that nothing can give back   *)
  held      (* the references the caller holds: ns and fmt                 *)

-----------------------------------------------------------------------------
(* Comparing names                                                         *)

(* strcmp of two spellings                                                 *)
StrCmp(a, b) ==
  IF a = b THEN 0
  ELSE IF \/ IsStrictPrefix(a, b)
          \/ \E i \in DOMAIN a \cap DOMAIN b :
               a[i] < b[i] /\ SubSeq(a, 1, i - 1) = SubSeq(b, 1, i - 1)
       THEN -1 ELSE 1

(* A node of by_name is known by its name and by where it lives: malloc'ed *)
(* memory, or the stack of force_subnamespace_1.                           *)
Malloced(name) == <<name, "malloc">>
OnStack(name) == <<name, "stack">>
NodeName(x) == x[1]

(* A name against the nodes of a tree, with one of the comparisons below.  *)
AgainstNodes(cmp, name, t) == [x \in Nodes(t) |-> cmp[name][NodeName(x)]]

(* CMP_TREE_NODES and COMPARE_NAME_WITH_NODE of query_1                    *)
Cmp == [a \in Names |-> [b \in Names |-> StrCmp(Spelling[a], Spelling[b])]]

(* Broken variant: a longer name of the node is taken for the name.                *)
CmpLen_Prefix == [a \in Names |-> [b \in Names |->
  StrCmp(Spelling[a], SubSeq(Spelling[b], 1, IF Len(Spelling[a]) < Len(Spelling[b])
                                             THEN Len(Spelling[a]) ELSE Len(Spelling[b])))]]

(* COMPARE_NAME_WITH_NODE of query_1_len: strncmp, and a longer name of    *)
(* the node comes out as 1.                                                *)
CmpLen == [a \in Names |-> [b \in Names |->
  LET start == SubSeq(Spelling[b], 1, Len(Spelling[a]))
      n == StrCmp(Spelling[a], IF Len(Spelling[b]) < Len(Spelling[a])
                               THEN Spelling[b] ELSE start)
  IN IF n = 0 /\ Len(Spelling[b]) > Len(Spelling[a]) THEN 1 ELSE n]]

-----------------------------------------------------------------------------
(* Reference counts.  Every operator takes the heap s and returns it.      *)

Freed == [ref_count |-> 0]
Alive(o) == o.ref_count > 0
Crash(s) == [s EXCEPT !.crashed = TRUE]

(* ref and unref assert that the object is still there.                    *)
FormatRef(s, f) ==
  IF f # NULL /\ Alive(s.fmt[f]) THEN [s EXCEPT !.fmt[f].ref_count = @ + 1] ELSE Crash(s)
NamespaceRef(s, n) ==
  IF Alive(s.ns[n]) THEN [s EXCEPT !.ns[n].ref_count = @ + 1] ELSE Crash(s)

(* The references that living objects hold: a format's to its members, by  *)
(* index, and a namespace's to what its nodes are bound to.                *)
LiveSpaces(s) == {n \in DOMAIN s.ns : Alive(s.ns[n])}
LiveFormats(s) == {f \in DOMAIN s.fmt : Alive(s.fmt[f])}
Members(s) ==
  UNION {{<<f, i>> : i \in DOMAIN s.fmt[f].members} : f \in LiveFormats(s)}
Listed(s) ==
  UNION {{<<n, x>> : x \in Nodes(s.ns[n].by_name)} : n \in LiveSpaces(s)}

(* An entry of a namespace says what it refers to; a reference the caller  *)
(* gives back, or a destructor, is told the same way.                      *)
Entry(type, v) == [type |-> type, v |-> v]
KindOf(e) == IF e.type = "FORMAT" THEN "fmt" ELSE "ns"

(* What a destructor gives back, in its order: a format the formats of its *)
(* members and cases, but an array nothing; a namespace what its nodes are *)
(* bound to, for destroy_ns_tree_node frees a node after its children.     *)
Dropped(s, e) ==
  LET f == s.fmt[e.v]
      t == s.ns[e.v].by_name
      order == PostOrder(t)
  IN IF e.type = "FORMAT" THEN [i \in DOMAIN f.members |-> Entry("FORMAT", f.members[i])]
     ELSE [i \in DOMAIN order |-> t.at[order[i]].entry]

(* One unref, of the first of the references that are to be given back;    *)
(* destructors run before anything else is given back.  A case of type     *)
(* void has no format, and destruct_format__union does not look.           *)
Unref(r) ==
  LET e == Head(r.todo)
      kind == KindOf(e)
      count == r.s[kind][e.v].ref_count
  IN IF e.v = NULL \/ count = 0 THEN [s |-> Crash(r.s), todo |-> <<>>]
     ELSE IF count > 1
     THEN [s |-> [r.s EXCEPT ![kind][e.v].ref_count = count - 1], todo |-> Tail(r.todo)]
     ELSE [s |-> [r.s EXCEPT ![kind][e.v] = Freed],
           todo |-> Dropped(r.s, e) \o Tail(r.todo)]

(* Every reference is given back once, so there are no more unrefs than    *)
(* references.                                                             *)
GiveBack(s, e) ==
  LET max == 1 + Cardinality(Members(s)) + Cardinality(Listed(s))
      after[n \in 0..max] ==
        IF n = 0 THEN [s |-> s, todo |-> <<e>>]
        ELSE LET last == after[n - 1] IN IF last.todo = <<>> THEN last ELSE Unref(last)
  IN after[max].s
FormatUnref(s, f) == GiveBack(s, Entry("FORMAT", f))
NamespaceUnref(s, n) == GiveBack(s, Entry("SUBNAMESPACE", n))

-----------------------------------------------------------------------------
(* Making formats                                                          *)

(* Broken variant: the format of a member is not referred to.                      *)
NewFormat_Borrows(s, type, members) ==
  [s EXCEPT !.fmt = Append(@, [ref_count |-> 1, type |-> type, members |-> members,
                               canonical_ns |-> NULL, canonical_name |-> NULL,
                               array_of |-> NULL, element |-> NULL])]

(* The references to the members are taken one by one.  canonical_name is  *)
(* a node's name and canonical_ns a namespace: pointers that hold no       *)
(* reference.                                                              *)
NewFormat(s, type, members) ==
  LET taken[i \in 0..Len(members)] ==
        IF i = 0 THEN s
        ELSE IF members[i] = NULL THEN taken[i - 1]
        ELSE FormatRef(taken[i - 1], members[i])
  IN [taken[Len(members)] EXCEPT
     !.fmt = Append(@, [ref_count |-> 1, type |-> type, members |-> members,
                               canonical_ns |-> NULL, canonical_name |-> NULL,
                               array_of |-> NULL, element |-> NULL])]
Made(s) == Len(s.fmt)

(* The constructors of these leave array_of as malloc returned it.         *)
Unset == {"STRUCT", "UNION", "PACKED"}

(* The array is made on the first call and kept in the element's format;   *)
(* a format that is gone is a bad access.  Neither refers to the other in  *)
(* its count.  junk: malloc returned memory that was not zero.             *)
ArrayOf(s, f, junk) ==
  IF ~Alive(s.fmt[f]) THEN Crash(s)
  ELSE IF s.fmt[f].array_of # NULL THEN s
  ELSE IF junk /\ s.fmt[f].type \in Unset THEN Crash(s)
  ELSE LET s1 == NewFormat(s, "ARRAY", <<>>)
       IN [s1 EXCEPT !.fmt[Made(s1)].element = f, !.fmt[f].array_of = Made(s1)]

-----------------------------------------------------------------------------
(* Binding and looking up names                                            *)

NewNamespace(s, toplevel) ==
  [s EXCEPT !.ns = Append(@, [ref_count |-> 1, is_toplevel |-> toplevel,
                              by_name |-> EmptyTree])]

NodeOf(cmp, s, n, name) ==
  LET t == s.ns[n].by_name IN Lookup(t, AgainstNodes(cmp, name, t))
Bound(s, n, name) == NodeOf(Cmp, s, n, name) # NULL
InsertNode(s, n, x, entry) ==
  [s EXCEPT !.ns[n].by_name =
     Insert(@, x, entry, AgainstNodes(Cmp, NodeName(x), @))]

(* bulp_namespace_add_format: false, and nothing done, when the name is    *)
(* in use.  A format gets one canonical name at most.                      *)
AddFormat(s, n, name, f, is_canonical_ns) ==
  IF Bound(s, n, name) THEN s
  ELSE LET s1 == FormatRef(InsertNode(s, n, Malloced(name), Entry("FORMAT", f)), f)
       IN IF ~is_canonical_ns THEN s1
          ELSE IF s.fmt[f].canonical_name # NULL THEN Crash(s1)
          ELSE [s1 EXCEPT !.fmt[f].canonical_name = name, !.fmt[f].canonical_ns = n]

AddSubnamespace(s, n, name, subns) ==
  IF Bound(s, n, name) THEN s
  ELSE NamespaceRef(InsertNode(s, n, Malloced(name), Entry("SUBNAMESPACE", subns)), subns)

(* What a name is bound to, NULL when it is not: bulp_namespace_query_1    *)
(* compares with Cmp and query_1_len with CmpLen.                          *)
EntryFor(cmp, s, n, name) ==
  LET x == NodeOf(cmp, s, n, name)
  IN IF x = NULL THEN NULL ELSE s.ns[n].by_name.at[x].entry
Query1(s, n, name) == EntryFor(Cmp, s, n, name)

IsSpace(e) == e # NULL /\ e.type = "SUBNAMESPACE"
IsFormat(e) == e # NULL /\ e.type = "FORMAT"

(* From the namespace n along the components of a dotted name.             *)
Follow(cmp, s, n, path) ==
  LET at[i \in 0..Len(path)] ==
        IF i = 0 THEN Entry("SUBNAMESPACE", n)
        ELSE IF IsSpace(at[i - 1]) THEN EntryFor(cmp, s, at[i - 1].v, path[i]) ELSE NULL
  IN at[Len(path)]

(* bulp_imports_lookup looks each component up exactly, and                *)
(* bulp_namespace_query does not.                                          *)
Walk(s, n, path) == Follow(Cmp, s, n, path)
Query(s, n, path) == Follow(CmpLen, s, n, path)

(* force_subnamespace_1: a node on the stack finds the place, and if the   *)
(* name is free a node that stays replaces it.  NULL in `v' when the name  *)
(* is bound to a format.                                                   *)
ForceSubnamespace1(s, n, name) ==
  LET e == Query1(s, n, name)
      s1 == NewNamespace(InsertNode(s, n, OnStack(name), NULL), FALSE)
      new == Entry("SUBNAMESPACE", Len(s1.ns))
  IN IF e # NULL THEN [s |-> s, v |-> IF IsSpace(e) THEN e.v ELSE NULL]
     ELSE [s |-> [s1 EXCEPT !.ns[n].by_name =
                    ReplaceNode(@, OnStack(name), Malloced(name), new)],
           v |-> new.v]

(* Every component of a dotted name is looked for in the namespace the     *)
(* function was called with.                                               *)
ForceSubnamespace(s, n, path) ==
  LET forced[i \in 0..Len(path)] ==
        IF i = 0 THEN [s |-> s, v |-> n]
        ELSE IF forced[i - 1].v = NULL THEN forced[i - 1]
        ELSE ForceSubnamespace1(forced[i - 1].s, n, path[i])
  IN forced[Len(path)]

(* _bulp_namespace_toplevel_add_builtins: each is made, bound and given up *)
AddBuiltin(s, name) ==
  LET s1 == NewFormat(s, "BUILTIN", <<>>)
  IN FormatUnref(AddFormat(s1, Len(s1.ns), name, Made(s1), TRUE), Made(s1))
NewGlobal(s) ==
  LET added[i \in 0..Len(Builtins)] ==
        IF i = 0 THEN NewNamespace(s, TRUE) ELSE AddBuiltin(added[i - 1], Builtins[i])
  IN added[Len(Builtins)]

-----------------------------------------------------------------------------
(* The calls                                                               *)

NsIds == 1..MaxSpaces
FmtIds == 1..MaxFormats

InitStore == [ns |-> <<>>, fmt |-> <<>>, global |-> NULL, crashed |-> FALSE, leaks |-> <<>>]
InitHeld == [ns |-> [n \in NsIds |-> 0], fmt |-> [f \in FmtIds |-> 0]]

EntriesOf(s, n) == {s.ns[n].by_name.at[x].entry : x \in Nodes(s.ns[n].by_name)}
Lists(s, entry) == \E n \in LiveSpaces(s) : entry \in EntriesOf(s, n)

(* What the caller may pass: objects it holds or can look up.              *)
Spaces == {n \in LiveSpaces(store) :
             held.ns[n] > 0 \/ store.global = n \/ Lists(store, Entry("SUBNAMESPACE", n))}
Known == {f \in LiveFormats(store) : held.fmt[f] > 0 \/ Lists(store, Entry("FORMAT", f))}
Formats == Known \cup ({store.fmt[f].array_of : f \in Known} \ {NULL})

(* A call that ends with the heap s; the caller's own bounds.              *)
Returns(s) ==
  /\ ~store.crashed
  /\ Len(s.ns) <= MaxSpaces /\ Len(s.fmt) <= MaxFormats
  /\ store' = s
Holds(kind, i, d) == held' = [held EXCEPT ![kind][i] = @ + d]

namespace_new_global ==
  /\ Returns(NewGlobal(store))
  /\ Holds("ns", Len(store.ns) + 1, 1)

(* The library's own namespace is never given up.                          *)
namespace_global ==
  /\ store.global = NULL
  /\ Returns([NewGlobal(store) EXCEPT !.global = Len(store.ns) + 1])
  /\ UNCHANGED held

namespace_ref(n) ==
  /\ held.ns[n] < MaxHeld
  /\ Returns(NamespaceRef(store, n))
  /\ Holds("ns", n, 1)

namespace_unref(n) ==
  /\ held.ns[n] > 0
  /\ Returns(NamespaceUnref(store, n))
  /\ Holds("ns", n, -1)

add_subnamespace(n, name, subns) ==
  /\ Returns(AddSubnamespace(store, n, name, subns))
  /\ UNCHANGED held

(* A caller makes the first name of a format its canonical one.            *)
add_format(n, name, f) ==
  /\ Returns(AddFormat(store, n, name, f, store.fmt[f].canonical_name = NULL))
  /\ UNCHANGED held

force_subnamespace(n, path) ==
  /\ Returns(ForceSubnamespace(store, n, path).s)
  /\ UNCHANGED held

format_new(type, members) ==
  /\ type \notin {"STRUCT", "UNION"} => members = <<>>
  /\ type = "STRUCT" => \A i \in DOMAIN members : members[i] # NULL
  /\ Returns(NewFormat(store, type, members))
  /\ Holds("fmt", Len(store.fmt) + 1, 1)

format_array_of(f, junk) ==
  /\ Returns(ArrayOf(store, f, junk))
  /\ UNCHANGED held

format_ref(f) ==
  /\ held.fmt[f] < MaxHeld
  /\ Returns(FormatRef(store, f))
  /\ Holds("fmt", f, 1)

format_unref(f) ==
  /\ held.fmt[f] > 0
  /\ Returns(FormatUnref(store, f))
  /\ Holds("fmt", f, -1)

InitNamespaces == store = InitStore /\ held = InitHeld

CallerNext ==
  \/ namespace_new_global \/ namespace_global
  \/ \E n \in NsIds : namespace_unref(n)
  \/ \E n \in Spaces :
       \/ namespace_ref(n)
       \/ \E name \in CallerNames, subns \in Spaces : add_subnamespace(n, name, subns)
       \/ \E name \in CallerNames, f \in Formats : add_format(n, name, f)
       \/ \E path \in Paths : force_subnamespace(n, path)
  \/ \E type \in Kinds, members \in BoundedSeq(Formats \cup {NULL}, MaxMembers) :
       format_new(type, members)
  \/ \E f \in FmtIds : format_unref(f)
  \/ \E f \in Formats :
       \/ format_ref(f)
       \/ \E junk \in BOOLEAN : format_array_of(f, junk)

Namespaces == InitNamespaces /\ [][CallerNext]_<<store, held>>

-----------------------------------------------------------------------------
(* What is claimed                                                         *)

NodeIds == {Malloced(name) : name \in Names} \cup {OnStack(name) : name \in Names}
NodesInOrder == {p \in NodeIds \X NodeIds : Cmp[NodeName(p[1])][NodeName(p[2])] < 0}

(* However names were added and nodes were replaced, the tree of every     *)
(* namespace is a red-black tree ordered by strcmp, and holds no node of   *)
(* the stack of a call that has returned.                                  *)
TreesSearchable ==
  \A n \in LiveSpaces(store) :
    LET t == store.ns[n].by_name
    IN /\ IsRedBlackTree(t, NodesInOrder)
       /\ \A x \in Nodes(t) : x = Malloced(NodeName(x))

(* The references to an object that the code counts: the caller's, the     *)
(* entries of namespaces that are there, the members of formats that are   *)
(* there, those that were leaked, and the one an array is made with, which *)
(* no call ever gives back, so that an array is there for ever.  What is   *)
(* not among them: array_of, and the array's pointer to its element        *)
(* (bulp-format-array.c:132), which holds no reference.                    *)
Uses(seq, x) == Cardinality({i \in DOMAIN seq : seq[i] = x})
Listings(s, e) ==
  Cardinality({r \in Listed(s) : s.ns[r[1]].by_name.at[r[2]].entry = e})
Memberships(s, f) == Cardinality({r \in Members(s) : s.fmt[r[1]].members[r[2]] = f})
OwnersOfSpace(s, n) ==
  Listings(s, Entry("SUBNAMESPACE", n)) + Uses(s.leaks, Entry("SUBNAMESPACE", n))
  + (IF s.global = n THEN 1 ELSE 0)
OwnersOfFormat(s, f) ==
  Listings(s, Entry("FORMAT", f)) + Uses(s.leaks, Entry("FORMAT", f))
  + Memberships(s, f) + (IF Alive(s.fmt[f]) /\ s.fmt[f].type = "ARRAY" THEN 1 ELSE 0)

(* Reference counts are exact: the count of an object is the number of     *)
(* counted references to it, whatever is bound, shared between namespaces, *)
(* used as a member, and destroyed in which order; so an entry or a member *)
(* is never freed, and what has no counted reference is.  It says nothing  *)
(* of an array's element: when that is freed, an array that is bound, or a *)
(* member, keeps a pointer to freed memory.                                *)
RefCountsExact ==
  ~store.crashed =>
    /\ \A n \in DOMAIN store.ns :
         store.ns[n].ref_count = held.ns[n] + OwnersOfSpace(store, n)
    /\ \A f \in DOMAIN store.fmt :
         store.fmt[f].ref_count = held.fmt[f] + OwnersOfFormat(store, f)

Longer(name) == {x \in Names : IsStrictPrefix(Spelling[name], Spelling[x])}

QueryIsSound ==
  \A n \in LiveSpaces(store), path \in Paths :
    LET found == Query(store, n, path)
        walk == Walk(store, n, path)
    IN \/ found = walk
       \/ /\ found = NULL
          /\ \E m \in LiveSpaces(store) : \E i \in DOMAIN path :
               \E x \in Longer(path[i]) : Bound(store, m, x)

CanonicalNamesLead ==
  \A f \in LiveFormats(store) :
    LET n == store.fmt[f].canonical_ns
    IN n \in LiveSpaces(store) =>
         Query1(store, n, store.fmt[f].canonical_name) = Entry("FORMAT", f)

(* Names lead where they should: bulp_namespace_query finds nothing but    *)
(* what the dotted name is bound to, and finds that unless a name that     *)
(* begins with one of the components is bound as well; and a format's      *)
(* canonical name leads back to it while its namespace is there.           *)
NamesLead == QueryIsSound /\ CanonicalNamesLead

(* Seen through bulp_namespace_query_1, the namespaces are tables in which *)
(* a name keeps its meaning until the namespace is destroyed.              *)
Entries == [type : {"FORMAT"}, v : FmtIds] \cup [type : {"SUBNAMESPACE"}, v : NsIds]
Table(n) ==
  IF n \notin LiveSpaces(store) THEN NULL
  ELSE [name \in Names |-> Query1(store, n, name)]
Abstract == INSTANCE NameTables WITH Tables <- NsIds, Free <- NULL, NoTable <- NULL,
                                     table <- [n \in NsIds |-> Table(n)]
ImplementsNameTables == Abstract!Spec
=============================================================================
