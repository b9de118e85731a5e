---------------------------- MODULE RedBlackTree ----------------------------
(***************************************************************************)
(* The red-black trees of dsk-rbtree-macros.h, as far as bulp uses them:   *)
(* insert, replace a node, and look up with a comparator of the caller.    *)
(* A tree is its top and the nodes that have been put in it; nodes hold    *)
(* the links and the colour, and whatever their owner keeps in them.       *)
(***************************************************************************)
EXTENDS Integers, Sequences, FiniteSets

CONSTANT NULL     (* no node                                               *)

EmptyTree == [top |-> NULL, at |-> [x \in {} |-> NULL]]

Nodes(t) == DOMAIN t.at
Link(t, x, side, y) == [t EXCEPT !.at[x][side] = y]
Paint(t, x, red) == [t EXCEPT !.at[x].is_red = red]
IsRed(t, x) == x # NULL /\ t.at[x].is_red
Opposite(side) == IF side = "left" THEN "right" ELSE "left"
SideOf(t, x) == IF x = t.at[t.at[x].parent].left THEN "left" ELSE "right"

(* y takes the place that x has under the parent of x.                     *)
PutInPlaceOf(t, x, y) ==
  LET p == t.at[x].parent
  IN IF p = NULL THEN [t EXCEPT !.top = y] ELSE Link(t, p, SideOf(t, x), y)

(* Broken variant: the inner subtree is not moved over.                            *)
Rotate_DropsInner(t, x, side) ==
  LET y == t.at[x][Opposite(side)]
      t1 == Link(t, x, Opposite(side), NULL)
      t2 == PutInPlaceOf(Link(t1, y, "parent", t.at[x].parent), x, y)
  IN Link(Link(t2, y, side, x), x, "parent", y)

(* With side = "left", DSK_RBTREE_ROTATE_LEFT; with "right" its mirror.    *)
Rotate(t, x, side) ==
  LET y == t.at[x][Opposite(side)]
      inner == t.at[y][side]
      t1 == Link(t, x, Opposite(side), inner)
      t2 == IF inner = NULL THEN t1 ELSE Link(t1, inner, "parent", x)
      t3 == PutInPlaceOf(Link(t2, y, "parent", t.at[x].parent), x, y)
  IN Link(Link(t3, y, side, x), x, "parent", y)

(* The loop that restores the colours, above the red node r.x of r.t, and  *)
(* one turn of it.                                                         *)
Settled(r) == r.t.top = r.x \/ ~IsRed(r.t, r.t.at[r.x].parent)
Turn(r) ==
  LET t == r.t
      x == r.x
      p == t.at[x].parent
      g == t.at[p].parent
      side == SideOf(t, p)
      uncle == t.at[g][Opposite(side)]
      bent == x = t.at[p][Opposite(side)]
      low == IF bent THEN p ELSE x
      t1 == IF bent THEN Rotate(t, p, side) ELSE t
      painted == Paint(Paint(t1, t1.at[low].parent, FALSE), g, TRUE)
  IN IF IsRed(t, uncle)
     THEN [t |-> Paint(Paint(Paint(t, p, FALSE), g, TRUE), uncle, FALSE), x |-> g]
     ELSE [t |-> Rotate(painted, g, Opposite(side)), x |-> low]

(* Every turn but the last comes closer to the top, so there are no more   *)
(* turns than nodes.                                                       *)
FixUp(t, x) ==
  LET max == Cardinality(Nodes(t))
      after[n \in 0..max] ==
        IF n = 0 THEN [t |-> t, x |-> x]
        ELSE LET last == after[n - 1] IN IF Settled(last) THEN last ELSE Turn(last)
      end == after[max].t
  IN Paint(end, end.top, FALSE)

(* Where the descent from the top ends: at a node the comparator calls     *)
(* equal, or at a missing child.  order[x] compares the key with node x.   *)
Descend(t, order) ==
  LET from[x \in Nodes(t)] ==
        LET way == order[x]
            side == IF way < 0 THEN "left" ELSE "right"
            next == t.at[x][side]
        IN IF way = 0 \/ next = NULL
           THEN [node |-> x, side |-> side, found |-> way = 0]
           ELSE from[next]
  IN from[t.top]

(* DSK_RBTREE_LOOKUP_COMPARATOR                                            *)
Lookup(t, order) ==
  IF t.top = NULL THEN NULL
  ELSE LET last == Descend(t, order) IN IF last.found THEN last.node ELSE NULL

(* DSK_RBTREE_INSERT of the node x, which its owner has filled with `own'; *)
(* nothing changes when Lookup finds a node in its place.                  *)
Insert(t, x, own, order) ==
  LET links == [left |-> NULL, right |-> NULL, parent |-> NULL, is_red |-> FALSE,
                entry |-> own]
      grown == [t EXCEPT !.at = [y \in Nodes(t) \cup {x} |->
                                   IF y = x THEN links ELSE t.at[y]]]
      last == Descend(t, order)
  IN IF t.top = NULL THEN [grown EXCEPT !.top = x]
     ELSE IF last.found THEN t
     ELSE FixUp(Paint(Link(Link(grown, x, "parent", last.node),
                           last.node, last.side, x), x, TRUE), x)

(* Broken variant: the colour of the old node is not taken over.            *)
ReplaceNode_Blackens(t, old, new, own) ==
  LET links == [t.at[old] EXCEPT !.entry = own, !.is_red = FALSE]
      t1 == PutInPlaceOf([t EXCEPT !.at = [y \in Nodes(t) \cup {new} |->
                            IF y = new THEN links ELSE t.at[y]]], old, new)
      adopted == [y \in Nodes(t1) \ {old} |->
                    IF y \in {links.left, links.right}
                    THEN [t1.at[y] EXCEPT !.parent = new] ELSE t1.at[y]]
  IN [t1 EXCEPT !.at = adopted]

(* DSK_RBTREE_REPLACE_NODE                                                 *)
ReplaceNode(t, old, new, own) ==
  LET links == [t.at[old] EXCEPT !.entry = own]
      t1 == PutInPlaceOf([t EXCEPT !.at = [y \in Nodes(t) \cup {new} |->
                            IF y = new THEN links ELSE t.at[y]]], old, new)
      adopted == [y \in Nodes(t1) \ {old} |->
                    IF y \in {links.left, links.right}
                    THEN [t1.at[y] EXCEPT !.parent = new] ELSE t1.at[y]]
  IN [t1 EXCEPT !.at = adopted]

(* The nodes of a tree, each after its two subtrees.                       *)
PostOrder(t) ==
  LET from[x \in Nodes(t) \cup {NULL}] ==
        IF x = NULL THEN <<>> ELSE from[t.at[x].left] \o from[t.at[x].right] \o <<x>>
  IN from[t.top]

-----------------------------------------------------------------------------
(* What the macros keep.  below[x] are the nodes that hang from x, itself  *)
(* among them, and black[x] is how many nodes on a way down from x are     *)
(* black.                                                                  *)
Sides == {"left", "right"}
Places(t) == Nodes(t) \cup {NULL}

Subtrees(t) ==
  LET below[x \in Places(t)] ==
        IF x = NULL THEN {} ELSE {x} \cup below[t.at[x].left] \cup below[t.at[x].right]
  IN below
BlackHeights(t) ==
  LET black[x \in Places(t)] ==
        IF x = NULL THEN 0
        ELSE black[t.at[x].left] + (IF t.at[x].is_red THEN 0 ELSE 1)
  IN black

(* Every node hangs from the top exactly once, and its parent is the node  *)
(* it hangs from.                                                          *)
Hangs(t, below, x) ==
  /\ below[x] = {x} \cup below[t.at[x].left] \cup below[t.at[x].right]
  /\ x \notin below[t.at[x].left] \cup below[t.at[x].right]
  /\ below[t.at[x].left] \cap below[t.at[x].right] = {}
  /\ t.at[x].parent = NULL <=> x = t.top
  /\ t.at[x].parent # NULL => \E side \in Sides : t.at[t.at[x].parent][side] = x
  /\ \A side \in Sides : t.at[x][side] # NULL => t.at[t.at[x][side]].parent = x

(* less has the pairs of nodes of which the first comes before the second. *)
Sorted(t, below, less, x) ==
  /\ \A y \in below[t.at[x].left] : <<y, x>> \in less
  /\ \A y \in below[t.at[x].right] : <<x, y>> \in less

(* All ways down have as many black nodes, and no red node a red child.    *)
Coloured(t, black, x) ==
  /\ black[t.at[x].left] = black[t.at[x].right]
  /\ black[x] = black[t.at[x].left] + (IF t.at[x].is_red THEN 0 ELSE 1)
  /\ \A side \in Sides : ~(IsRed(t, x) /\ IsRed(t, t.at[x][side]))

IsSearchTree(t, below, less) ==
  /\ below[NULL] = {} /\ below[t.top] = Nodes(t)
  /\ \A x \in Nodes(t) : Hangs(t, below, x) /\ Sorted(t, below, less, x)
IsBalanced(t, black) ==
  /\ black[NULL] = 0 /\ ~IsRed(t, t.top)
  /\ \A x \in Nodes(t) : Coloured(t, black, x)

IsRedBlackTree(t, less) ==
  IsSearchTree(t, Subtrees(t), less) /\ IsBalanced(t, BlackHeights(t))
=============================================================================
