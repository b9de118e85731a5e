----------------------------- MODULE NameTables -----------------------------
(***************************************************************************)
(* What a set of namespaces promises, without trees: each is a table from  *)
(* names to entries.  A table appears with entries or empty, a name that   *)
(* is free can be bound, and from then on it means the same thing until    *)
(* the whole table goes away.                                              *)
(***************************************************************************)
CONSTANTS Tables, Names, Entries, Free, NoTable

VARIABLE table

IsTable(t) == DOMAIN t = Names /\ \A x \in Names : t[x] \in Entries \cup {Free}

Init == table = [n \in Tables |-> NoTable]

(* A name that is already in use stays bound as it was.                    *)
Keeps(old, new) == \A x \in Names : old[x] # Free => new[x] = old[x]

Appear(old, new) == old = NoTable /\ new # NoTable /\ IsTable(new)
Bind(old, new) == old # NoTable /\ new # NoTable /\ IsTable(new) /\ Keeps(old, new)
Drop(old, new) == old # NoTable /\ new = NoTable
Stay(old, new) == new = old

(* One call may bind names in several tables: a dotted name binds one in   *)
(* each namespace along its way.                                           *)
Next ==
  LET old == table
      new == table'
  IN \A n \in Tables : \/ Stay(old[n], new[n]) \/ Appear(old[n], new[n])
                       \/ Bind(old[n], new[n]) \/ Drop(old[n], new[n])

Spec == Init /\ [][Next]_table
=============================================================================
