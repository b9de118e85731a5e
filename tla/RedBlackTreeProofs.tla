------------------------- MODULE RedBlackTreeProofs -------------------------
(***************************************************************************)
(* That the macros of dsk-rbtree-macros.h keep red-black trees, for every  *)
(* tree and every comparator: rotations, the loop that restores the        *)
(* colours, insertion, replacement and lookup; and that the order in which *)
(* a tree is destroyed names every node once.                              *)
(*                                                                         *)
(* What hangs below a node, and how many black nodes there are on a way    *)
(* down from it, are carried along as functions that a step changes where  *)
(* the step says.  At the end they are shown to be the recursive functions *)
(* by which module RedBlackTree says what a red-black tree is.             *)
(***************************************************************************)
EXTENDS RedBlackTree, SequenceFacts

(* The cells of a node, and what a tree is made of.                        *)
Fields == {"left", "right", "parent", "is_red", "entry"}
Links == {"left", "right", "parent"}

IsForm(t) ==
  /\ t = [top |-> t.top, at |-> t.at]
  /\ t.at = [x \in Nodes(t) |-> t.at[x]]
  /\ \A x \in Nodes(t) : t.at[x] = [f \in Fields |-> t.at[x][f]]

(* u is t but for the cell f of the node x.                                *)
Altered(t, x, f, y, u) ==
  /\ IsForm(u) /\ Nodes(u) = Nodes(t) /\ u.top = t.top
  /\ \A z \in Nodes(t), g \in Fields :
       u.at[z][g] = IF z = x /\ g = f THEN y ELSE t.at[z][g]

LEMMA LinkAlters ==
  ASSUME NEW t, IsForm(t), NEW x \in Nodes(t), NEW f \in Fields, NEW y
  PROVE  Altered(t, x, f, y, Link(t, x, f, y))
<1> DEFINE u == Link(t, x, f, y)
           new == [t.at[x] EXCEPT ![f] = y]
<1>1. u = [top |-> t.top, at |-> [t.at EXCEPT ![x] = new]]
  BY DEF Link, IsForm
<1>2. /\ u.top = t.top /\ u.at = [t.at EXCEPT ![x] = new]
      /\ u = [top |-> u.top, at |-> u.at]
  BY <1>1
<1> HIDE DEF u
<1>3. Nodes(u) = Nodes(t)
  BY <1>2 DEF Nodes, IsForm
<1>4. new = [g \in Fields |-> IF g = f THEN y ELSE t.at[x][g]]
  BY DEF IsForm
<1> HIDE DEF new
<1>5. \A z \in Nodes(t) : u.at[z] = IF z = x THEN new ELSE t.at[z]
  BY <1>2 DEF Nodes, IsForm
<1>6. \A z \in Nodes(t), g \in Fields :
        u.at[z][g] = IF z = x /\ g = f THEN y ELSE t.at[z][g]
  BY <1>4, <1>5
<1>7. u.at = [z \in Nodes(u) |-> u.at[z]]
  <2>1. u.at = [z \in Nodes(t) |-> IF z = x THEN new ELSE t.at[z]]
    BY <1>2 DEF Nodes, IsForm
  <2> QED BY <1>3, <1>5, <2>1
<1>8. ASSUME NEW z \in Nodes(u) PROVE u.at[z] = [g \in Fields |-> u.at[z][g]]
  <2>1. t.at[z] = [g \in Fields |-> t.at[z][g]]
    BY <1>3 DEF IsForm
  <2> QED BY <1>3, <1>4, <1>5, <2>1
<1> QED BY <1>2, <1>3, <1>6, <1>7, <1>8 DEF u, Altered, IsForm

LEMMA PaintAlters ==
  ASSUME NEW t, IsForm(t), NEW x \in Nodes(t), NEW red
  PROVE  Altered(t, x, "is_red", red, Paint(t, x, red))
<1>1. Paint(t, x, red) = Link(t, x, "is_red", red)
  BY DEF Paint, Link
<1>2. "is_red" \in Fields
  BY DEF Fields
<1> QED BY <1>1, <1>2, LinkAlters

(* A change of the top alone.                                              *)
LEMMA TopAlters ==
  ASSUME NEW t, IsForm(t), NEW y, NEW u, u = [t EXCEPT !.top = y]
  PROVE  IsForm(u) /\ u.top = y /\ u.at = t.at /\ Nodes(u) = Nodes(t)
<1>1. u = [top |-> y, at |-> t.at]
  BY DEF IsForm
<1>2. u.top = y /\ u.at = t.at
  BY <1>1
<1>3. Nodes(u) = Nodes(t)
  BY <1>2 DEF Nodes
<1> QED BY <1>1, <1>2, <1>3 DEF IsForm

(* The node y in the place that x has under p.                             *)
LEMMA PlaceAlters ==
  ASSUME NEW t, IsForm(t), NEW x \in Nodes(t), NEW p, p = t.at[x].parent,
         p \in Places(t), NEW y, NEW u, u = PutInPlaceOf(t, x, y)
  PROVE  /\ IsForm(u) /\ Nodes(u) = Nodes(t)
         /\ u.top = IF p = NULL THEN y ELSE t.top
         /\ \A z \in Nodes(t), g \in Fields :
              u.at[z][g] = IF p # NULL /\ z = p /\ g = SideOf(t, x) THEN y ELSE t.at[z][g]
<1>1. CASE p = NULL
  <2>1. u = [t EXCEPT !.top = y]
    BY <1>1 DEF PutInPlaceOf
  <2> QED BY <1>1, <2>1, TopAlters
<1>2. CASE p # NULL
  <2>1. u = Link(t, p, SideOf(t, x), y) /\ p \in Nodes(t)
    BY <1>2 DEF PutInPlaceOf, Places
  <2>2. SideOf(t, x) \in Fields
    BY DEF SideOf, Fields
  <2>3. Altered(t, p, SideOf(t, x), y, u)
    BY <2>1, <2>2, LinkAlters
  <2> QED BY <1>2, <2>3 DEF Altered
<1> QED BY <1>1, <1>2

(* What a rotation leaves in the cells: y comes up in the place of x, and  *)
(* the subtree between them changes sides.                                 *)
Rotated(t, x, side, y, m, p, u) ==
  /\ IsForm(u) /\ Nodes(u) = Nodes(t)
  /\ u.top = IF p = NULL THEN y ELSE t.top
  /\ \A z \in Nodes(t), g \in Fields :
       u.at[z][g] = IF z = x /\ g = "parent" THEN y
                    ELSE IF z = y /\ g = side THEN x
                    ELSE IF p # NULL /\ z = p /\ g = SideOf(t, x) THEN y
                    ELSE IF z = y /\ g = "parent" THEN p
                    ELSE IF m # NULL /\ z = m /\ g = "parent" THEN x
                    ELSE IF z = x /\ g = Opposite(side) THEN m
                    ELSE t.at[z][g]

LEMMA RotateCells ==
  ASSUME NEW t, IsForm(t), NULL \notin Nodes(t), NEW x \in Nodes(t), NEW side \in Sides,
         NEW y \in Nodes(t), y = t.at[x][Opposite(side)],
         NEW m \in Places(t), m = t.at[y][side],
         NEW p \in Places(t), p = t.at[x].parent,
         y # x, m # x, m # y, p # x, p # y, m # NULL => p # m
  PROVE  Rotated(t, x, side, y, m, p, Rotate(t, x, side))
<1> DEFINE opp == Opposite(side)
           t1 == Link(t, x, opp, m)
           t2 == IF m = NULL THEN t1 ELSE Link(t1, m, "parent", x)
           t3 == Link(t2, y, "parent", t.at[x].parent)
           t4 == PutInPlaceOf(t3, x, y)
           t5 == Link(t4, y, side, x)
           t6 == Link(t5, x, "parent", y)
<1>1. Rotate(t, x, side) = t6
  BY DEF Rotate
<1>2. /\ opp \in Fields /\ opp \in Sides /\ side \in Fields /\ "parent" \in Fields
      /\ "left" \in Fields /\ opp # side /\ opp # "parent" /\ side # "parent"
  BY DEF Sides, Fields, Opposite
<1> HIDE DEF opp
<1>3. Altered(t, x, opp, m, t1)
  BY <1>2, LinkAlters
<1> HIDE DEF t1
<1>4. /\ IsForm(t2) /\ Nodes(t2) = Nodes(t) /\ t2.top = t.top
      /\ \A z \in Nodes(t), g \in Fields :
           t2.at[z][g] = IF m # NULL /\ z = m /\ g = "parent" THEN x ELSE t1.at[z][g]
  <2>1. CASE m = NULL
    BY <1>3, <2>1 DEF Altered
  <2>2. CASE m # NULL
    <3>1. m \in Nodes(t1) /\ IsForm(t1)
      BY <1>3, <2>2 DEF Altered, Places
    <3>2. Altered(t1, m, "parent", x, t2)
      BY <1>2, <2>2, <3>1, LinkAlters
    <3> QED BY <1>3, <2>2, <3>2 DEF Altered
  <2> QED BY <2>1, <2>2
<1> HIDE DEF t2
<1>5. Altered(t2, y, "parent", p, t3)
  BY <1>2, <1>4, LinkAlters
<1> HIDE DEF t3
<1>6. /\ t3.at[x].parent = p /\ p \in Places(t3) /\ IsForm(t3) /\ x \in Nodes(t3)
      /\ p # NULL => SideOf(t3, x) = SideOf(t, x)
  <2>1. t1.at[x]["parent"] = p
    BY <1>2, <1>3 DEF Altered
  <2>2. t2.at[x]["parent"] = p
    BY <1>2, <1>4, <2>1
  <2>3. t3.at[x]["parent"] = p
    BY <1>2, <1>4, <1>5, <2>2 DEF Altered
  <2>4. Nodes(t3) = Nodes(t)
    BY <1>4, <1>5 DEF Altered
  <2>5. ASSUME p # NULL PROVE t3.at[p]["left"] = t.at[p]["left"]
    <3>1. p \in Nodes(t)
      BY <2>5 DEF Places
    <3> QED BY <1>2, <1>3, <1>4, <1>5, <3>1 DEF Altered
  <2>6. p # NULL => SideOf(t3, x) = SideOf(t, x)
    BY <2>3, <2>5 DEF SideOf
  <2> QED BY <1>5, <2>3, <2>4, <2>6 DEF Altered, Places
<1>7. /\ IsForm(t4) /\ Nodes(t4) = Nodes(t)
      /\ t4.top = IF p = NULL THEN y ELSE t.top
      /\ \A z \in Nodes(t), g \in Fields :
           t4.at[z][g] = IF p # NULL /\ z = p /\ g = SideOf(t, x) THEN y ELSE t3.at[z][g]
  <2>1. Nodes(t3) = Nodes(t) /\ t3.top = t.top
    BY <1>4, <1>5 DEF Altered
  <2>2. /\ IsForm(t4) /\ Nodes(t4) = Nodes(t3)
        /\ t4.top = IF p = NULL THEN y ELSE t3.top
        /\ \A z \in Nodes(t3), g \in Fields :
             t4.at[z][g] = IF p # NULL /\ z = p /\ g = SideOf(t3, x) THEN y ELSE t3.at[z][g]
    BY <1>6, PlaceAlters
  <2>3. CASE p = NULL
    BY ONLY <2>1, <2>2, <2>3
  <2>4. CASE p # NULL
    BY ONLY <1>6, <2>1, <2>2, <2>4
  <2> QED BY ONLY <2>3, <2>4
<1> HIDE DEF t4
<1>8. Altered(t4, y, side, x, t5)
  BY <1>2, <1>7, LinkAlters
<1> HIDE DEF t5
<1>9. Altered(t5, x, "parent", y, t6)
  BY <1>2, <1>7, <1>8, LinkAlters DEF Altered
<1> HIDE DEF t6
<1>10. /\ IsForm(t6) /\ Nodes(t6) = Nodes(t)
       /\ t6.top = IF p = NULL THEN y ELSE t.top
  BY <1>7, <1>8, <1>9 DEF Altered
<1>11. ASSUME NEW z \in Nodes(t), NEW g \in Fields
       PROVE  t6.at[z][g] = IF z = x /\ g = "parent" THEN y
                            ELSE IF z = y /\ g = side THEN x
                            ELSE IF p # NULL /\ z = p /\ g = SideOf(t, x) THEN y
                            ELSE IF z = y /\ g = "parent" THEN p
                            ELSE IF m # NULL /\ z = m /\ g = "parent" THEN x
                            ELSE IF z = x /\ g = opp THEN m
                            ELSE t.at[z][g]
  <2>1. z \in Nodes(t2) /\ z \in Nodes(t4) /\ z \in Nodes(t5)
    BY <1>4, <1>7, <1>8 DEF Altered
  <2>2. t6.at[z][g] = IF z = x /\ g = "parent" THEN y ELSE t5.at[z][g]
    BY <1>9, <2>1 DEF Altered
  <2>3. t5.at[z][g] = IF z = y /\ g = side THEN x ELSE t4.at[z][g]
    BY <1>8, <2>1 DEF Altered
  <2>4. t3.at[z][g] = IF z = y /\ g = "parent" THEN p ELSE t2.at[z][g]
    BY <1>5, <2>1 DEF Altered
  <2>5. t1.at[z][g] = IF z = x /\ g = opp THEN m ELSE t.at[z][g]
    BY <1>3 DEF Altered
  <2>6. t4.at[z][g] = IF p # NULL /\ z = p /\ g = SideOf(t, x) THEN y ELSE t3.at[z][g]
    BY ONLY <1>7, z \in Nodes(t), g \in Fields
  <2>7. t2.at[z][g] = IF m # NULL /\ z = m /\ g = "parent" THEN x ELSE t1.at[z][g]
    BY ONLY <1>4, z \in Nodes(t), g \in Fields
  <2> QED BY ONLY <2>2, <2>3, <2>4, <2>5, <2>6, <2>7
<1> QED BY <1>1, <1>10, <1>11 DEF Rotated, opp

-----------------------------------------------------------------------------
(* Search trees.                                                           *)

IsTree(t) ==
  /\ IsForm(t) /\ NULL \notin Nodes(t) /\ IsFiniteSet(Nodes(t)) /\ t.top \in Places(t)
  /\ \A x \in Nodes(t) : t.at[x].is_red \in BOOLEAN
  /\ \A x \in Nodes(t), f \in Links : t.at[x][f] \in Places(t)

Search(t, below, less) ==
  /\ IsTree(t) /\ below \in [Places(t) -> SUBSET Nodes(t)]
  /\ IsSearchTree(t, below, less)

IsOrder(less) == \A x, y, z : <<x, y>> \in less /\ <<y, z>> \in less => <<x, z>> \in less

(* y comes before x if it hangs on the left, and after it on the right.    *)
Apart(less, side, y, x) == IF side = "left" THEN <<y, x>> \in less ELSE <<x, y>> \in less

(* What a search tree is at the node x, seen from one of its sides.        *)
Parted(t, below, less, x, side) ==
  LET k == t.at[x][side]
      l == t.at[x][Opposite(side)]
  IN /\ below[x] = {x} \cup below[k] \cup below[l]
     /\ x \notin below[k] /\ x \notin below[l] /\ below[k] \cap below[l] = {}
     /\ \A y \in below[k] : Apart(less, side, y, x)
     /\ \A y \in below[l] : Apart(less, side, x, y)
     /\ k # NULL => t.at[k].parent = x
     /\ l # NULL => t.at[l].parent = x
HasParent(t, x) ==
  /\ t.at[x].parent = NULL <=> x = t.top
  /\ t.at[x].parent # NULL => \E side \in Sides : t.at[t.at[x].parent][side] = x

LEMMA SidesAre == ASSUME NEW side \in Sides
                  PROVE  /\ Opposite(side) \in Sides /\ Opposite(Opposite(side)) = side
                         /\ Opposite(side) # side /\ Sides = {side, Opposite(side)}
                         /\ side \in Links /\ side \in Fields /\ side # "parent"
                         /\ side # "is_red" /\ side # "entry"
                         /\ "parent" \in Links /\ Links \subseteq Fields /\ "is_red" \in Fields
  BY DEF Sides, Opposite, Links, Fields

LEMMA PartedIs ==
  ASSUME NEW t, NEW below, NEW less, NEW x, NEW side \in Sides
  PROVE  Hangs(t, below, x) /\ Sorted(t, below, less, x)
           <=> Parted(t, below, less, x, side) /\ HasParent(t, x)
<1>1. CASE side = "left"
  <2>1. Opposite(side) = "right"
    BY <1>1 DEF Opposite
  <2> QED BY <1>1, <2>1 DEF Hangs, Sorted, Parted, HasParent, Apart, Sides
<1>2. CASE side = "right"
  <2>1. Opposite(side) = "left"
    BY <1>2 DEF Opposite
  <2> QED BY <1>2, <2>1 DEF Hangs, Sorted, Parted, HasParent, Apart, Sides
<1> QED BY <1>1, <1>2 DEF Sides

(* Links of a search tree lead where they should.                          *)
LEMMA KidIs ==
  ASSUME NEW t, NEW below, NEW less, Search(t, below, less),
         NEW x \in Nodes(t), NEW side \in Sides
  PROVE  /\ Parted(t, below, less, x, side) /\ HasParent(t, x)
         /\ t.at[x][side] \in Places(t) /\ t.at[x]["parent"] \in Places(t)
         /\ x \in below[x] /\ x # NULL
         /\ below[x] \in SUBSET Nodes(t) /\ below[t.at[x][side]] \in SUBSET Nodes(t)
<1>1. Hangs(t, below, x) /\ Sorted(t, below, less, x)
  BY DEF Search, IsSearchTree
<1>2. Parted(t, below, less, x, side) /\ HasParent(t, x)
  BY <1>1, PartedIs
<1>3. t.at[x][side] \in Places(t) /\ t.at[x]["parent"] \in Places(t)
  BY SidesAre DEF Search, IsTree
<1>4. x \in below[x]
  BY <1>2 DEF Parted
<1> QED BY <1>2, <1>3, <1>4 DEF Search, IsTree, Places

(* A subtree's node is its own, and not on the other side.                 *)
LEMMA KidsApart ==
  ASSUME NEW t, NEW below, NEW less, Search(t, below, less),
         NEW x \in Nodes(t), NEW side \in Sides,
         NEW k, k = t.at[x][side], k # NULL
  PROVE  /\ k \in Nodes(t) /\ k \in below[k] /\ k \in below[x] /\ k # x
         /\ t.at[k].parent = x /\ k # t.at[x][Opposite(side)]
         /\ k \notin below[t.at[x][Opposite(side)]] /\ x \notin below[k]
         /\ below[k] \subseteq below[x]
<1>1. Parted(t, below, less, x, side) /\ k \in Places(t)
  BY KidIs
<1>2. k \in Nodes(t)
  BY <1>1 DEF Places
<1>3. k \in below[k]
  BY <1>2, KidIs
<1> QED BY <1>1, <1>2, <1>3 DEF Parted

(* A parent hangs above: it is not below its child.                        *)
LEMMA ParentIs ==
  ASSUME NEW t, NEW below, NEW less, Search(t, below, less),
         NEW x \in Nodes(t), NEW p, p = t.at[x].parent, p # NULL
  PROVE  /\ p \in Nodes(t) /\ x # t.top /\ p \notin below[x] /\ x # p
         /\ SideOf(t, x) \in Sides /\ t.at[p][SideOf(t, x)] = x
         /\ t.at[p][Opposite(SideOf(t, x))] # x
<1>1. p \in Nodes(t) /\ x # t.top /\ HasParent(t, x)
  <2>1. "left" \in Sides
    BY DEF Sides
  <2>2. HasParent(t, x) /\ t.at[x]["parent"] \in Places(t)
    BY <2>1, KidIs
  <2> QED BY <2>2 DEF HasParent, Places
<1>2. PICK side \in Sides : t.at[p][side] = x
  BY <1>1 DEF HasParent
<1>3. NULL \notin Nodes(t)
  BY DEF Search, IsTree
<1>4. p \notin below[x] /\ x # p /\ x # t.at[p][Opposite(side)]
  BY <1>1, <1>2, <1>3, KidsApart
<1>5. SideOf(t, x) = side
  <2>1. CASE side = "left"
    BY <1>2, <2>1 DEF SideOf
  <2>2. CASE side = "right"
    <3>1. Opposite(side) = "left"
      BY <2>2 DEF Opposite
    <3> QED BY <1>2, <1>4, <2>2, <3>1 DEF SideOf
  <2> QED BY <2>1, <2>2 DEF Sides
<1> QED BY <1>1, <1>2, <1>4, <1>5

-----------------------------------------------------------------------------
(* A rotation keeps a search tree.                                         *)

Lifted(t, below, x, side, y) ==
  [below EXCEPT ![x] = {x} \cup below[t.at[x][side]] \cup below[t.at[y][side]],
                ![y] = below[x]]

LEMMA RotateKeeps ==
  ASSUME NEW t, NEW below, NEW less, Search(t, below, less), IsOrder(less),
         NEW x \in Nodes(t), NEW side \in Sides,
         NEW y, y = t.at[x][Opposite(side)], y # NULL,
         NEW u, u = Rotate(t, x, side), NEW b, b = Lifted(t, below, x, side, y)
  PROVE  /\ Search(u, b, less)
         /\ Rotated(t, x, side, y, t.at[y][side], t.at[x].parent, u)
<1> DEFINE opp == Opposite(side)
           a == t.at[x][side]
           m == t.at[y][side]
           c == t.at[y][opp]
           p == t.at[x].parent
           N == Nodes(t)
<1>1. /\ opp \in Sides /\ Opposite(opp) = side /\ opp # side
      /\ side \in Fields /\ opp \in Fields /\ "parent" \in Fields
      /\ side # "parent" /\ opp # "parent"
  BY SidesAre
<1>2. /\ y \in N /\ y \in below[y] /\ y \in below[x] /\ y # x /\ t.at[y].parent = x
      /\ y # a /\ y \notin below[a] /\ x \notin below[y] /\ below[y] \subseteq below[x]
  BY <1>1, KidsApart
<1>3. /\ Parted(t, below, less, x, side) /\ a \in Places(t) /\ p \in Places(t)
      /\ HasParent(t, x) /\ x \in below[x]
  <2>1. t.at[x]["parent"] \in Places(t)
    BY KidIs
  <2> QED BY <2>1, KidIs
<1>4. Parted(t, below, less, y, side) /\ m \in Places(t)
  BY <1>2, KidIs
<1>5. c \in Places(t) /\ NULL \notin N /\ below[NULL] = {}
  <2>1. t.at[y][opp] \in Places(t)
    BY <1>1, <1>2, KidIs
  <2> QED BY <2>1 DEF Search, IsTree, IsSearchTree
<1>6. m # NULL => /\ m \in N /\ m \in below[m] /\ m \in below[y] /\ m # y
                  /\ t.at[m].parent = y /\ m # c /\ m \notin below[c] /\ y \notin below[m]
  BY <1>2, KidsApart
<1>7. c # NULL => c \in N /\ c \in below[c] /\ c \in below[y] /\ c # y
  BY <1>1, <1>2, KidsApart
<1>8. a # NULL => a \in N /\ a \in below[a] /\ a \in below[x] /\ a # x
  BY <1>1, <1>2, KidsApart
<1>9. p # NULL => /\ p \in N /\ x # t.top /\ p \notin below[x] /\ x # p
                  /\ SideOf(t, x) \in Sides /\ t.at[p][SideOf(t, x)] = x
                  /\ t.at[p][Opposite(SideOf(t, x))] # x
  BY ParentIs
<1>10. m # x /\ p # x /\ p # y /\ (m # NULL => p # m)
  <2>1. m # x
    BY <1>2, <1>5, <1>6
  <2>2. p # NULL => p \notin below[x]
    BY <1>9
  <2>3. m # NULL => m \in below[x]
    BY <1>2, <1>6
  <2>4. p # x /\ p # y
    BY <1>2, <1>5, <1>9
  <2> QED BY <2>1, <2>2, <2>3, <2>4
<1>11. Rotated(t, x, side, y, m, p, u)
  <2>1. IsForm(t) /\ y = t.at[x][opp] /\ m # y
    BY <1>2, <1>5, <1>6 DEF Search, IsTree
  <2> QED BY <1>2, <1>3, <1>4, <1>5, <1>10, <2>1, RotateCells
<1> HIDE DEF a, m, c, p, opp, N
<1> DEFINE Cell(z, g) ==
             IF z = x /\ g = "parent" THEN y
             ELSE IF z = y /\ g = side THEN x
             ELSE IF p # NULL /\ z = p /\ g = SideOf(t, x) THEN y
             ELSE IF z = y /\ g = "parent" THEN p
             ELSE IF m # NULL /\ z = m /\ g = "parent" THEN x
             ELSE IF z = x /\ g = opp THEN m
             ELSE t.at[z][g]
<1>12. /\ IsForm(u) /\ Nodes(u) = N /\ u.top = IF p = NULL THEN y ELSE t.top
       /\ \A z \in N, g \in Fields : u.at[z][g] = Cell(z, g)
  BY <1>11 DEF Rotated, opp, N
<1>13. /\ b \in [Places(t) -> SUBSET N] /\ b[y] = below[x]
       /\ b[x] = {x} \cup below[a] \cup below[m]
       /\ \A z \in Places(t) : z # x /\ z # y => b[z] = below[z]
  <2> DEFINE low == {x} \cup below[a] \cup below[m]
             b1 == [below EXCEPT ![x] = low]
  <2>1. b = [b1 EXCEPT ![y] = below[x]]
    BY DEF Lifted, a, m
  <2>2. /\ below \in [Places(t) -> SUBSET N] /\ x \in Places(t) /\ y \in Places(t)
        /\ a \in Places(t) /\ m \in Places(t) /\ x \in N
    BY <1>2, <1>3, <1>4 DEF Search, Places, N
  <2>3. low \in SUBSET N
    BY <2>2
  <2> HIDE DEF low
  <2>4. b1 \in [Places(t) -> SUBSET N] /\ b1[x] = low /\ \A z \in Places(t) : z # x => b1[z] = below[z]
    BY <2>2, <2>3
  <2> HIDE DEF b1
  <2>5. /\ b \in [Places(t) -> SUBSET N] /\ b[y] = below[x]
        /\ \A z \in Places(t) : z # y => b[z] = b1[z]
    BY <2>1, <2>2, <2>4
  <2> QED BY <1>2, <2>2, <2>4, <2>5 DEF low
<1>14. Places(u) = Places(t)
  BY <1>12 DEF Places, N
<1>15. IsTree(u)
  <2>1. u.top \in Places(t)
    BY <1>2, <1>12 DEF Search, IsTree, Places, N
  <2>2. ASSUME NEW z \in N PROVE u.at[z].is_red \in BOOLEAN
    <3>1. "is_red" \in Fields /\ "is_red" # side /\ "is_red" # opp /\ "is_red" # "parent"
      BY SidesAre, <1>1 DEF opp
    <3>2. p # NULL => SideOf(t, x) # "is_red"
      BY <1>9, SidesAre
    <3>3. u.at[z]["is_red"] = t.at[z]["is_red"]
      BY <1>12, <3>1, <3>2
    <3> QED BY <3>3 DEF Search, IsTree, N
  <2>3. ASSUME NEW z \in N, NEW f \in Links PROVE u.at[z][f] \in Places(t)
    <3>1. f \in Fields
      BY DEF Fields, Links
    <3>2. t.at[z][f] \in Places(t) /\ x \in Places(t) /\ y \in Places(t)
      BY <1>2 DEF Search, IsTree, N, Places
    <3>3. u.at[z][f] = Cell(z, f)
      BY <1>12, <3>1
    <3> QED BY <1>3, <1>4, <3>2, <3>3
  <2> QED BY <1>12, <1>14, <2>1, <2>2, <2>3 DEF Search, IsTree, N
<1>16. b[NULL] = {} /\ b[u.top] = N
  <2>1. NULL \in Places(t) /\ NULL # x /\ NULL # y /\ below[t.top] = N /\ t.top \in Places(t)
    BY <1>2, <1>5 DEF Places, N, Search, IsSearchTree, IsTree
  <2>2. p = NULL => t.top = x
    BY <1>3 DEF HasParent, p
  <2>3. p # NULL => t.top # x /\ t.top # y
    <3>1. t.at[y].parent # NULL => y # t.top
      BY <1>2, ParentIs DEF N
    <3> QED BY <1>2, <1>5, <1>9, <3>1 DEF N
  <2> QED BY <1>5, <1>12, <1>13, <2>1, <2>2, <2>3
<1>17. b[a] = below[a] /\ b[m] = below[m] /\ b[c] = below[c]
  <2>1. a # x /\ a # y
    BY <1>2, <1>5, <1>8 DEF N
  <2>2. m # x /\ m # y
    BY <1>2, <1>5, <1>6, <1>10 DEF N
  <2>3. c # x /\ c # y
    BY <1>2, <1>5, <1>7 DEF N
  <2> QED BY <1>3, <1>4, <1>5, <1>13, <2>1, <2>2, <2>3
<1>18. /\ u.at[x][side] = a /\ u.at[x][opp] = m /\ u.at[x]["parent"] = y
       /\ u.at[y][side] = x /\ u.at[y][opp] = c /\ u.at[y]["parent"] = p
       /\ m # NULL => u.at[m]["parent"] = x
       /\ x \in N /\ y \in N
  <2>0. x \in N /\ y \in N /\ p # x /\ p # y
    BY <1>2, <1>10 DEF N
  <2>1. /\ u.at[x][side] = Cell(x, side) /\ u.at[x][opp] = Cell(x, opp)
        /\ u.at[x]["parent"] = Cell(x, "parent")
    BY <1>1, <1>12, <2>0 DEF opp
  <2>2. /\ u.at[y][side] = Cell(y, side) /\ u.at[y][opp] = Cell(y, opp)
        /\ u.at[y]["parent"] = Cell(y, "parent")
    BY <1>1, <1>12, <2>0 DEF opp
  <2>3. m # NULL => u.at[m]["parent"] = Cell(m, "parent") /\ m # y
    BY <1>1, <1>6, <1>12
  <2>4. /\ side # "parent" /\ opp # "parent" /\ side # opp /\ x # y /\ m # x
        /\ t.at[x][side] = a /\ t.at[y][opp] = c /\ t.at[x].parent = p
        /\ t.at[y][side] = m
    BY <1>1, <1>2, <1>10 DEF opp, a, c, p, m
  <2>5. p # NULL => SideOf(t, x) # "parent"
    BY <1>9, SidesAre
  <2> QED BY ONLY <2>0, <2>1, <2>2, <2>3, <2>4, <2>5
<1>19. /\ below[x] = {x} \cup below[a] \cup below[y]
       /\ x \notin below[a] /\ x \notin below[y] /\ below[a] \cap below[y] = {}
       /\ \A w \in below[a] : Apart(less, side, w, x)
       /\ \A w \in below[y] : Apart(less, side, x, w)
       /\ a # NULL => t.at[a]["parent"] = x
       /\ below[y] = {y} \cup below[m] \cup below[c]
       /\ y \notin below[m] /\ y \notin below[c] /\ below[m] \cap below[c] = {}
       /\ \A w \in below[m] : Apart(less, side, w, y)
       /\ \A w \in below[c] : Apart(less, side, y, w)
       /\ c # NULL => t.at[c]["parent"] = y
  <2>1. y = t.at[x][opp]
    BY DEF opp
  <2> QED BY <1>3, <1>4, <2>1 DEF Parted, a, m, c, opp
<1>20. a # NULL => u.at[a]["parent"] = x
  <2>1. SUFFICES ASSUME a # NULL PROVE u.at[a]["parent"] = x
    OBVIOUS
  <2>2. a \in N /\ a # x /\ a # y /\ (m # NULL => a # m)
    BY <1>2, <1>6, <1>8, <1>19, <2>1
  <2>3. u.at[a]["parent"] = Cell(a, "parent")
    BY <1>1, <1>12, <2>2
  <2>4. p # NULL => SideOf(t, x) # "parent"
    BY <1>9, SidesAre
  <2> QED BY ONLY <1>1, <1>19, <2>1, <2>2, <2>3, <2>4
<1>21. c # NULL => u.at[c]["parent"] = y
  <2>1. SUFFICES ASSUME c # NULL PROVE u.at[c]["parent"] = y
    OBVIOUS
  <2>2. c \in N /\ c # x /\ c # y /\ (m # NULL => c # m)
    BY <1>2, <1>5, <1>6, <1>7, <2>1
  <2>3. u.at[c]["parent"] = Cell(c, "parent")
    BY <1>1, <1>12, <2>2
  <2>4. p # NULL => SideOf(t, x) # "parent"
    BY <1>9, SidesAre
  <2> QED BY ONLY <1>1, <1>19, <2>1, <2>2, <2>3, <2>4
<1>22. Parted(u, b, less, x, side) /\ HasParent(u, x)
  <2>1. b[x] = {x} \cup b[a] \cup b[m] /\ x \notin b[a] /\ x \notin b[m] /\ b[a] \cap b[m] = {}
    BY ONLY <1>13, <1>17, <1>19
  <2>2. /\ \A w \in b[a] : Apart(less, side, w, x)
        /\ \A w \in b[m] : Apart(less, side, x, w)
    BY ONLY <1>17, <1>19
  <2>3. u.top # x /\ y # NULL
    BY <1>2, <1>9, <1>12
  <2>4. HasParent(u, x)
    BY <1>1, <1>18, <2>3 DEF HasParent
  <2> QED BY ONLY <1>18, <1>20, <2>1, <2>2, <2>4 DEF Parted, opp
<1>23. Parted(u, b, less, y, side)
  <2>1. b[y] = {y} \cup b[x] \cup b[c] /\ y \notin b[x] /\ y \notin b[c] /\ b[x] \cap b[c] = {}
    <3>1. below[x] = {y} \cup ({x} \cup below[a] \cup below[m]) \cup below[c]
      BY ONLY <1>19
    <3>2. y \notin {x} \cup below[a] \cup below[m]
      BY ONLY <1>2, <1>19
    <3>3. ({x} \cup below[a] \cup below[m]) \cap below[c] = {}
      BY ONLY <1>19
    <3> QED BY ONLY <1>13, <1>17, <1>19, <3>1, <3>2, <3>3
  <2>2. ASSUME NEW w \in b[x] PROVE Apart(less, side, w, y)
    <3>1. Apart(less, side, x, y)
      BY <1>2, <1>19
    <3>2. CASE w \in below[a]
      <4>1. Apart(less, side, w, x)
        BY <1>19, <3>2
      <4>2. ASSUME NEW i, NEW j, NEW k, <<i, j>> \in less, <<j, k>> \in less
            PROVE  <<i, k>> \in less
        BY <4>2 DEF IsOrder
      <4> QED BY ONLY <3>1, <4>1, <4>2 DEF Apart
    <3> QED BY <1>13, <1>19, <3>1, <3>2
  <2>3. \A w \in b[c] : Apart(less, side, y, w)
    BY ONLY <1>17, <1>19
  <2> QED BY ONLY <1>18, <1>21, <2>1, <2>2, <2>3 DEF Parted, opp
<1>24. HasParent(u, y)
  <2>1. CASE p = NULL
    BY <1>12, <1>18, <2>1 DEF HasParent
  <2>2. CASE p # NULL
    <3>1. y # t.top
      <4>1. t.at[y].parent # NULL
        BY <1>2, <1>5 DEF N
      <4> QED BY <1>2, <4>1, ParentIs DEF N
    <3>2. u.at[p][SideOf(t, x)] = Cell(p, SideOf(t, x))
      BY <1>9, <1>12, <2>2, SidesAre
    <3>3. u.at[p][SideOf(t, x)] = y
      BY ONLY <1>9, <1>10, <2>2, <3>2
    <3> QED BY <1>9, <1>12, <1>18, <2>2, <3>1, <3>3 DEF HasParent
  <2> QED BY <2>1, <2>2
<1>25. ASSUME NEW z \in N, z # x, z # y PROVE \E s \in Sides : Parted(u, b, less, z, s)
  <2>1. CASE p # NULL /\ z = p
    <3> DEFINE s == SideOf(t, x)
               r == Opposite(s)
               o == t.at[z][r]
    <3>1. /\ s \in Sides /\ r \in Sides /\ s \in Fields /\ r \in Fields /\ s # r
          /\ s # "parent" /\ r # "parent" /\ t.at[z][s] = x /\ o # x
      BY <1>9, <2>1, SidesAre
    <3>2. /\ below[z] = {z} \cup below[x] \cup below[o]
          /\ z \notin below[x] /\ z \notin below[o] /\ below[x] \cap below[o] = {}
          /\ \A w \in below[x] : Apart(less, s, w, z)
          /\ \A w \in below[o] : Apart(less, s, z, w)
          /\ o # NULL => t.at[o]["parent"] = z
      <4> HIDE DEF s
      <4>1. Parted(t, below, less, z, s)
        BY <3>1, KidIs DEF N
      <4> QED BY <3>1, <4>1 DEF Parted
    <3>3. o # NULL => o \in N /\ o \in below[o]
      <4> HIDE DEF s
      <4> QED BY <3>1, KidsApart DEF N
    <3> HIDE DEF s, r, o
    <3>4. o # NULL => o # y /\ (m # NULL => o # m)
      BY ONLY <1>2, <1>6, <3>2, <3>3
    <3>5. b[z] = below[z] /\ b[o] = below[o] /\ b[y] = below[x]
      <4>1. o \in Places(t)
        BY <3>3 DEF Places, N
      <4>2. o # y
        BY <1>2, <1>5, <3>4 DEF N
      <4> QED BY <1>13, <1>25, <3>1, <4>1, <4>2 DEF Places, N
    <3>6. u.at[z][s] = y /\ u.at[z][r] = o
      <4>1. u.at[z][s] = Cell(z, s) /\ u.at[z][r] = Cell(z, r)
        BY <1>12, <3>1
      <4>2. t.at[z][r] = o /\ s = SideOf(t, x)
        BY DEF o, r, s
      <4> QED BY ONLY <1>25, <2>1, <3>1, <4>1, <4>2
    <3>7. o # NULL => u.at[o]["parent"] = z
      <4>1. SUFFICES ASSUME o # NULL PROVE u.at[o]["parent"] = z
        OBVIOUS
      <4>2. u.at[o]["parent"] = Cell(o, "parent")
        BY <1>1, <1>12, <3>3, <4>1
      <4>3. p # NULL => SideOf(t, x) # "parent"
        BY <1>9, SidesAre
      <4> QED BY ONLY <1>1, <3>1, <3>2, <3>4, <4>1, <4>2, <4>3
    <3>8. Parted(u, b, less, z, s)
      BY ONLY <1>18, <2>1, <3>2, <3>5, <3>6, <3>7 DEF Parted, r
    <3> QED BY <3>1, <3>8
  <2>2. CASE ~ (p # NULL /\ z = p)
    <3> DEFINE k == t.at[z][side]
               o == t.at[z][opp]
    <3>1. /\ below[z] = {z} \cup below[k] \cup below[o]
          /\ z \notin below[k] /\ z \notin below[o] /\ below[k] \cap below[o] = {}
          /\ \A w \in below[k] : Apart(less, side, w, z)
          /\ \A w \in below[o] : Apart(less, side, z, w)
          /\ k # NULL => t.at[k]["parent"] = z
          /\ o # NULL => t.at[o]["parent"] = z
      <4>1. Parted(t, below, less, z, side)
        BY KidIs DEF N
      <4> QED BY <4>1 DEF Parted, opp
    <3>2. k \in Places(t) /\ o \in Places(t)
      BY <1>1, KidIs DEF N
    <3> HIDE DEF k, o
    <3>3. /\ t.at[x]["parent"] = p /\ t.at[y]["parent"] = x
          /\ m # NULL => t.at[m]["parent"] = y
      BY <1>2, <1>6 DEF p
    <3>4. /\ k # NULL => k # x /\ k # y /\ (m # NULL => k # m)
          /\ o # NULL => o # x /\ o # y /\ (m # NULL => o # m)
      <4>0. z # NULL
        BY <1>5
      <4>1. k # NULL => t.at[k]["parent"] = z
        BY <3>1
      <4>2. o # NULL => t.at[o]["parent"] = z
        BY <3>1
      <4>3. k # NULL => k # x /\ k # y /\ (m # NULL => k # m)
        BY ONLY <1>25, <2>2, <3>3, <4>0, <4>1
      <4>4. o # NULL => o # x /\ o # y /\ (m # NULL => o # m)
        BY ONLY <1>25, <2>2, <3>3, <4>0, <4>2
      <4> QED BY <4>3, <4>4
    <3>5. x # NULL /\ y # NULL
      BY <1>2, <1>5 DEF N
    <3>6. b[z] = below[z] /\ b[k] = below[k] /\ b[o] = below[o]
      <4>1. z \in Places(t) /\ k # x /\ k # y /\ o # x /\ o # y
        BY <3>4, <3>5 DEF Places, N
      <4> QED BY ONLY <1>13, <1>25, <3>2, <4>1
    <3>7. u.at[z][side] = k /\ u.at[z][opp] = o
      <4>1. u.at[z][side] = Cell(z, side) /\ u.at[z][opp] = Cell(z, opp)
        BY <1>1, <1>12 DEF opp
      <4>2. t.at[z][side] = k /\ t.at[z][opp] = o
        BY DEF k, o
      <4>3. side # "parent" /\ opp # "parent"
        BY <1>1 DEF opp
      <4> QED BY ONLY <1>25, <2>2, <4>1, <4>2, <4>3
    <3>8. ASSUME NEW w \in {k, o}, w # NULL PROVE u.at[w]["parent"] = z
      <4>1. w \in N /\ w # x /\ w # y /\ (m # NULL => w # m) /\ t.at[w]["parent"] = z
        BY <3>1, <3>2, <3>4, <3>8 DEF Places, N
      <4>2. u.at[w]["parent"] = Cell(w, "parent")
        BY <1>1, <1>12, <4>1
      <4>3. p # NULL => SideOf(t, x) # "parent"
        BY <1>9, SidesAre
      <4> QED BY ONLY <1>1, <4>1, <4>2, <4>3
    <3>9. Parted(u, b, less, z, side)
      BY ONLY <3>1, <3>6, <3>7, <3>8 DEF Parted, opp
    <3> QED BY <3>9
  <2> QED BY <2>1, <2>2
<1>26. ASSUME NEW z \in N, z # x, z # y PROVE HasParent(u, z)
  <2> DEFINE q == t.at[z]["parent"]
  <2>1. HasParent(t, z) /\ q \in Places(t)
    BY KidIs DEF N
  <2>2. p # NULL => SideOf(t, x) # "parent"
    BY <1>9, SidesAre
  <2>3. CASE m # NULL /\ z = m
    <3>1. u.at[z]["parent"] = x /\ u.at[x][opp] = z /\ t.at[z]["parent"] = y
      BY <1>6, <1>18, <2>3
    <3>2. z # t.top /\ x # NULL
      BY <1>2, <1>5, <2>1, <3>1 DEF HasParent, N
    <3>3. z # u.top
      BY <1>12, <1>26, <3>2
    <3> QED BY <1>1, <3>1, <3>2, <3>3 DEF HasParent, opp
  <2>4. CASE ~ (m # NULL /\ z = m)
    <3>1. u.at[z]["parent"] = Cell(z, "parent")
      BY <1>1, <1>12
    <3>2. u.at[z]["parent"] = q
      BY ONLY <1>1, <1>26, <2>2, <2>4, <3>1 DEF q
    <3>3. q = NULL <=> z = u.top
      <4>1. q = NULL <=> z = t.top
        BY <2>1 DEF HasParent
      <4>2. p = NULL => t.top = x
        BY <1>3 DEF HasParent, p
      <4> QED BY <1>12, <1>26, <4>1, <4>2
    <3>4. ASSUME q # NULL PROVE \E s \in Sides : u.at[q][s] = z
      <4>1. PICK s \in Sides : t.at[q][s] = z
        BY <2>1, <3>4 DEF HasParent
      <4>2. q \in N
        BY <2>1, <3>4 DEF Places, N
      <4>3. u.at[q][s] = Cell(q, s) /\ s \in {side, opp} /\ s # "parent"
        BY <1>12, <4>1, <4>2, SidesAre DEF opp
      <4>4. /\ t.at[x][opp] = y /\ t.at[y][side] = m
            /\ p # NULL => t.at[p][SideOf(t, x)] = x
        BY <1>9 DEF opp, m, p
      <4>5. z # NULL
        BY <1>5
      <4>6. ~ (q = x /\ s = opp)
        BY ONLY <1>26, <4>1, <4>4
      <4>7. ~ (q = y /\ s = side)
        BY ONLY <2>4, <4>1, <4>4, <4>5
      <4>8. ~ (p # NULL /\ q = p /\ s = SideOf(t, x))
        BY ONLY <1>26, <4>1, <4>4
      <4>9. u.at[q][s] = z
        BY ONLY <4>1, <4>3, <4>6, <4>7, <4>8
      <4> QED BY <4>9
    <3> QED BY ONLY <3>2, <3>3, <3>4 DEF HasParent
  <2> QED BY <2>3, <2>4
<1>27. ASSUME NEW z \in N PROVE Hangs(u, b, z) /\ Sorted(u, b, less, z)
  <2>1. \E s \in Sides : Parted(u, b, less, z, s)
    BY <1>22, <1>23, <1>25
  <2>2. HasParent(u, z)
    BY <1>22, <1>24, <1>26
  <2> QED BY <2>1, <2>2, PartedIs
<1>28. b \in [Places(u) -> SUBSET Nodes(u)]
  BY <1>12, <1>13, <1>14
<1>29. Search(u, b, less)
  BY <1>12, <1>15, <1>16, <1>27, <1>28 DEF Search, IsSearchTree
<1> QED BY <1>11, <1>29 DEF m, p

-----------------------------------------------------------------------------
(* Colours.                                                                *)

(* u is t with other colours.                                              *)
Recoloured(t, u) ==
  /\ IsForm(u) /\ Nodes(u) = Nodes(t) /\ u.top = t.top
  /\ \A z \in Nodes(t) : u.at[z].is_red \in BOOLEAN
  /\ \A z \in Nodes(t), g \in Fields \ {"is_red"} : u.at[z][g] = t.at[z][g]

LEMMA RecolouringKeeps ==
  ASSUME NEW t, NEW below, NEW less, Search(t, below, less), NEW u, Recoloured(t, u)
  PROVE  Search(u, below, less)
<1>1. \A z \in Nodes(t), f \in Links : u.at[z][f] = t.at[z][f]
  BY DEF Recoloured, Fields, Links
<1>2. Nodes(u) = Nodes(t) /\ Places(u) = Places(t) /\ u.top = t.top /\ IsForm(u)
  BY DEF Recoloured, Places
<1>3. IsTree(u)
  BY <1>1, <1>2 DEF Recoloured, Search, IsTree
<1>4. ASSUME NEW x \in Nodes(t) PROVE Hangs(u, below, x) /\ Sorted(u, below, less, x)
  <2> DEFINE side == "left"
  <2>1. side \in Sides /\ Opposite(side) \in Sides /\ Sides \subseteq Links /\ "parent" \in Links
    BY DEF Sides, Opposite, Links
  <2> HIDE DEF side
  <2>2. Parted(t, below, less, x, side) /\ HasParent(t, x)
    BY <2>1, KidIs
  <2>3. t.at[x][side] \in Places(t) /\ t.at[x][Opposite(side)] \in Places(t) /\ t.at[x]["parent"] \in Places(t)
    BY <2>1, KidIs
  <2>4. /\ u.at[x][side] = t.at[x][side] /\ u.at[x][Opposite(side)] = t.at[x][Opposite(side)]
        /\ u.at[x]["parent"] = t.at[x]["parent"]
    BY <1>1, <2>1
  <2>5. \A z \in Places(t) : z # NULL => u.at[z]["parent"] = t.at[z]["parent"]
    BY <1>1, <2>1 DEF Places
  <2>6. Parted(u, below, less, x, side)
    BY ONLY <2>2, <2>3, <2>4, <2>5 DEF Parted
  <2>7. \A s \in Sides : t.at[x].parent # NULL =>
          u.at[t.at[x].parent][s] = t.at[t.at[x].parent][s]
    BY <1>1, <2>1, <2>3 DEF Places
  <2>8. HasParent(u, x)
    BY ONLY <1>2, <2>2, <2>4, <2>7 DEF HasParent
  <2> QED BY <2>1, <2>6, <2>8, PartedIs
<1>5. IsSearchTree(u, below, less)
  BY <1>2, <1>4 DEF Search, IsSearchTree
<1> QED BY <1>2, <1>3, <1>5 DEF Search

(* Painting a node is a recolouring, and recolourings add up.              *)
Blackened(t, s, x, u) == \A z \in Nodes(t) : IsRed(u, z) <=> z # x /\ IsRed(s, z)
Reddened(t, s, x, u) == \A z \in Nodes(t) : IsRed(u, z) <=> z = x \/ IsRed(s, z)

LEMMA PaintRecolours ==
  ASSUME NEW t, IsTree(t), NEW s, Recoloured(t, s), NEW x \in Nodes(t)
  PROVE  /\ Recoloured(t, Paint(s, x, FALSE)) /\ Blackened(t, s, x, Paint(s, x, FALSE))
         /\ Recoloured(t, Paint(s, x, TRUE)) /\ Reddened(t, s, x, Paint(s, x, TRUE))
<1>1. ASSUME NEW red \in BOOLEAN, NEW u, u = Paint(s, x, red)
      PROVE  /\ Recoloured(t, u) /\ u.at[x].is_red = red
             /\ \A z \in Nodes(t) : z # x => u.at[z].is_red = s.at[z].is_red
  <2>1. Altered(s, x, "is_red", red, u)
    BY <1>1, PaintAlters DEF Recoloured
  <2>2. Nodes(s) = Nodes(t) /\ s.top = t.top /\ "is_red" \in Fields
    BY DEF Recoloured, Fields
  <2>3. u.at[x]["is_red"] = red /\ \A z \in Nodes(t) : z # x => u.at[z]["is_red"] = s.at[z]["is_red"]
    BY <2>1, <2>2 DEF Altered
  <2>4. \A z \in Nodes(t), g \in Fields \ {"is_red"} : u.at[z][g] = s.at[z][g]
    BY <2>1, <2>2 DEF Altered
  <2>5. ASSUME NEW z \in Nodes(t) PROVE u.at[z].is_red \in BOOLEAN
    <3>1. CASE z = x
      BY <2>3, <3>1
    <3>2. CASE z # x
      BY <2>3, <3>2 DEF Recoloured
    <3> QED BY <3>1, <3>2
  <2>6. IsForm(u) /\ Nodes(u) = Nodes(t) /\ u.top = t.top
    BY <2>1, <2>2 DEF Altered
  <2>7. Recoloured(t, u)
    BY <2>4, <2>5, <2>6 DEF Recoloured
  <2> QED BY <2>3, <2>7
<1>2. NULL \notin Nodes(t)
  BY DEF IsTree
<1>3. ASSUME NEW u, u = Paint(s, x, FALSE) PROVE Recoloured(t, u) /\ Blackened(t, s, x, u)
  <2>1. /\ Recoloured(t, u) /\ u.at[x].is_red = FALSE
        /\ \A z \in Nodes(t) : z # x => u.at[z].is_red = s.at[z].is_red
    BY <1>1, <1>3
  <2>2. ~ u.at[x].is_red
    BY <2>1
  <2> QED BY <1>2, <2>1, <2>2 DEF Blackened, IsRed
<1>4. ASSUME NEW u, u = Paint(s, x, TRUE) PROVE Recoloured(t, u) /\ Reddened(t, s, x, u)
  <2>1. /\ Recoloured(t, u) /\ u.at[x].is_red = TRUE
        /\ \A z \in Nodes(t) : z # x => u.at[z].is_red = s.at[z].is_red
    BY <1>1, <1>4
  <2>2. u.at[x].is_red
    BY <2>1
  <2> QED BY <1>2, <2>1, <2>2 DEF Reddened, IsRed
<1> QED BY <1>3, <1>4

LEMMA Unpainted == ASSUME NEW t, IsTree(t) PROVE Recoloured(t, t)
  BY DEF IsTree, Recoloured

(* The black nodes are counted, the same number on every way down.         *)
Counted(t, black, x) ==
  /\ black[t.at[x].left] = black[t.at[x].right]
  /\ black[x] = black[t.at[x].left] + (IF IsRed(t, x) THEN 0 ELSE 1)
Even(t, black) ==
  /\ black \in [Places(t) -> Int] /\ black[NULL] = 0
  /\ \A x \in Nodes(t) : Counted(t, black, x)

(* What holds while the colours are restored: x is red, and nothing is     *)
(* wrong but that its parent may be red, or that it is the top.            *)
RedPairsAt(t, x) == \A z \in Nodes(t) : IsRed(t, z) /\ IsRed(t, t.at[z].parent) => z = x
Mending(t, below, black, less, x) ==
  /\ Search(t, below, less) /\ Even(t, black)
  /\ x \in Nodes(t) /\ IsRed(t, x) /\ RedPairsAt(t, x)
  /\ IsRed(t, t.top) => t.top = x

(* There is more to mend, under the grandparent g of x.                    *)
Broken(t, below, black, less, x, p, g) ==
  /\ Mending(t, below, black, less, x)
  /\ t.top # x /\ p = t.at[x].parent /\ IsRed(t, p) /\ g = t.at[p].parent

(* Counting does not care for the sides.                                   *)
CountedFrom(t, black, x, side) ==
  /\ black[t.at[x][side]] = black[t.at[x][Opposite(side)]]
  /\ black[x] = black[t.at[x][side]] + (IF IsRed(t, x) THEN 0 ELSE 1)

LEMMA CountedIs ==
  ASSUME NEW t, NEW black, NEW x, NEW side \in Sides
  PROVE  Counted(t, black, x) <=> CountedFrom(t, black, x, side)
<1>1. CASE side = "left"
  <2>1. Opposite(side) = "right"
    BY <1>1 DEF Opposite
  <2> QED BY <1>1, <2>1 DEF Counted, CountedFrom
<1>2. CASE side = "right"
  <2>1. Opposite(side) = "left"
    BY <1>2 DEF Opposite
  <2> QED BY <1>2, <2>1 DEF Counted, CountedFrom
<1> QED BY <1>1, <1>2 DEF Sides

(* Above a red node with a red parent there is a black grandparent.        *)
Family(t, below, less, x, p, g) ==
  /\ Search(t, below, less) /\ IsTree(t) /\ NULL \notin Nodes(t)
  /\ x \in Nodes(t) /\ IsRed(t, x) /\ x # t.top
  /\ p \in Nodes(t) /\ IsRed(t, p) /\ p # x /\ p # t.top /\ t.at[x].parent = p
  /\ g \in Nodes(t) /\ ~IsRed(t, g) /\ g # p /\ g # x /\ t.at[p].parent = g
  /\ SideOf(t, p) \in Sides /\ t.at[g][SideOf(t, p)] = p
  /\ SideOf(t, x) \in Sides /\ t.at[p][SideOf(t, x)] = x
  /\ below[x] \subseteq below[g] /\ g \notin below[x] /\ g \in below[g]
  /\ ~IsRed(t, t.top)

LEMMA FamilyIs ==
  ASSUME NEW t, NEW below, NEW black, NEW less, NEW x, NEW p, NEW g,
         Broken(t, below, black, less, x, p, g)
  PROVE  Family(t, below, less, x, p, g)
<1>1. /\ IsRed(t, p) /\ x # t.top /\ ~IsRed(t, t.top) /\ x \in Nodes(t)
      /\ Search(t, below, less) /\ p = t.at[x].parent /\ g = t.at[p].parent
  BY DEF Broken, Mending
<1>2. p # NULL
  BY <1>1 DEF IsRed
<1>3. /\ p \in Nodes(t) /\ p # x /\ SideOf(t, x) \in Sides /\ t.at[p][SideOf(t, x)] = x
      /\ p \notin below[x]
  BY <1>1, <1>2, ParentIs
<1>4. p # t.top
  BY <1>1
<1>5. g # NULL
  BY <1>1, <1>3, <1>4, KidIs DEF HasParent, Sides
<1>6. /\ g \in Nodes(t) /\ g # p /\ SideOf(t, p) \in Sides /\ t.at[g][SideOf(t, p)] = p
      /\ g \notin below[p]
  BY <1>1, <1>3, <1>5, ParentIs
<1>7. ~IsRed(t, g)
  BY <1>1, <1>3 DEF Broken, Mending, RedPairsAt
<1>8. x # NULL /\ IsTree(t) /\ NULL \notin Nodes(t)
  BY <1>1 DEF Search, IsTree
<1>9. below[x] \subseteq below[p] /\ x \in below[x]
  BY <1>1, <1>2, <1>3, <1>8, KidsApart
<1>10. below[p] \subseteq below[g] /\ g \in below[g]
  <2>1. below[p] \subseteq below[g]
    <3> DEFINE side == SideOf(t, p)
    <3>1. Search(t, below, less) /\ g \in Nodes(t) /\ side \in Sides /\ p = t.at[g][side] /\ p # NULL
      BY <1>1, <1>2, <1>6
    <3> HIDE DEF side
    <3> QED BY ONLY <3>1, KidsApart
  <2>2. g \in below[g]
    BY <1>1, <1>6, KidIs
  <2> QED BY <2>1, <2>2
<1> QED BY <1>1, <1>3, <1>4, <1>6, <1>7, <1>8, <1>9, <1>10 DEF Broken, Mending, Family

(* A red uncle: the colours move up, and x with them.                      *)
LEMMA RecolourTurn ==
  ASSUME NEW t, NEW below, NEW black, NEW less, NEW x, NEW p, NEW g,
         Broken(t, below, black, less, x, p, g),
         NEW k, k = t.at[g][Opposite(SideOf(t, p))], IsRed(t, k),
         NEW u, u = Paint(Paint(Paint(t, p, FALSE), g, TRUE), k, FALSE)
  PROVE  Recoloured(t, u) /\ \E h : Mending(u, below, h, less, g)
<1>0. Family(t, below, less, x, p, g)
  BY FamilyIs
<1>1. /\ p \in Nodes(t) /\ IsRed(t, p) /\ p # x /\ p # t.top /\ x # t.top
      /\ g \in Nodes(t) /\ ~IsRed(t, g) /\ g # p /\ g # x /\ ~IsRed(t, t.top)
      /\ SideOf(t, p) \in Sides /\ t.at[g][SideOf(t, p)] = p /\ t.at[p].parent = g
      /\ t.at[x].parent = p
  BY <1>0 DEF Family
<1>2. Search(t, below, less) /\ IsTree(t) /\ NULL \notin Nodes(t) /\ x \in Nodes(t)
  BY <1>0 DEF Family
<1>3. k # NULL
  BY DEF IsRed
<1>4. k \in Nodes(t) /\ k # g /\ k # p /\ t.at[k].parent = g
  <2> DEFINE opp == Opposite(SideOf(t, p))
  <2>1. opp \in Sides /\ Opposite(opp) = SideOf(t, p) /\ k = t.at[g][opp]
    BY <1>1, SidesAre
  <2> HIDE DEF opp
  <2> QED BY <1>1, <1>2, <1>3, <2>1, KidsApart
<1>5. /\ Recoloured(t, u)
      /\ \A z \in Nodes(t) : IsRed(u, z) <=> z # k /\ (z = g \/ (z # p /\ IsRed(t, z)))
  <2> DEFINE s1 == Paint(t, p, FALSE)
             s2 == Paint(s1, g, TRUE)
  <2>1. Recoloured(t, s1) /\ Blackened(t, t, p, s1)
    BY <1>1, <1>2, Unpainted, PaintRecolours
  <2> HIDE DEF s1
  <2>2. Recoloured(t, s2) /\ Reddened(t, s1, g, s2)
    BY <1>1, <1>2, <2>1, PaintRecolours
  <2> HIDE DEF s2
  <2>3. Recoloured(t, Paint(s2, k, FALSE)) /\ Blackened(t, s2, k, Paint(s2, k, FALSE))
    BY <1>2, <1>4, <2>2, PaintRecolours
  <2>4. u = Paint(s2, k, FALSE)
    BY DEF s1, s2
  <2> QED BY <2>1, <2>2, <2>3, <2>4 DEF Blackened, Reddened
<1>6. Search(u, below, less) /\ Nodes(u) = Nodes(t) /\ u.top = t.top /\ Places(u) = Places(t)
  <2>1. Search(u, below, less)
    BY <1>2, <1>5, RecolouringKeeps
  <2> QED BY <1>5, <2>1 DEF Recoloured, Places
<1>7. \A z \in Nodes(t) : /\ u.at[z].left = t.at[z].left /\ u.at[z].right = t.at[z].right
                          /\ u.at[z].parent = t.at[z].parent
  <2>1. {"left", "right", "parent"} \subseteq Fields \ {"is_red"}
    BY DEF Fields
  <2> QED BY <1>5, <2>1 DEF Recoloured
<1> DEFINE h == [z \in Places(t) |-> IF z = p \/ z = k THEN black[z] + 1 ELSE black[z]]
<1>8. Even(u, h)
  <2>1. Even(t, black)
    BY DEF Broken, Mending
  <2>2. h \in [Places(u) -> Int] /\ h[NULL] = 0
    <3>1. NULL \in Places(t) /\ NULL # p /\ NULL # k /\ black \in [Places(t) -> Int] /\ black[NULL] = 0
      BY <1>1, <1>2, <1>3, <2>1 DEF Even, Places
    <3>2. \A z \in Places(t) : h[z] = (IF z = p \/ z = k THEN black[z] + 1 ELSE black[z]) /\ h[z] \in Int
      BY <3>1
    <3>3. h \in [Places(t) -> Int]
      BY <3>2
    <3> HIDE DEF h
    <3> QED BY <1>6, <3>1, <3>2, <3>3
  <2>3. ASSUME NEW z \in Nodes(t) PROVE Counted(u, h, z)
    <3>1. t.at[z].left \in Places(t) /\ t.at[z].right \in Places(t) /\ z \in Places(t)
      BY <1>2 DEF IsTree, Links, Places
    <3>2. black[t.at[z].left] = black[t.at[z].right]
          /\ black[z] = black[t.at[z].left] + (IF IsRed(t, z) THEN 0 ELSE 1)
          /\ black[z] \in Int /\ black[t.at[z].left] \in Int
      BY <2>1, <3>1 DEF Even, Counted
    <3>3. CASE z = g
      <4>1. t.at[g].left \in {p, k} /\ t.at[g].right \in {p, k}
        BY <1>1 DEF Sides, Opposite
      <4>2. IsRed(u, g) /\ ~IsRed(t, g)
        BY <1>1, <1>4, <1>5
      <4>3. h[t.at[g].left] = black[t.at[g].left] + 1 /\ h[t.at[g].right] = black[t.at[g].right] + 1
            /\ h[g] = black[g]
        BY <1>1, <1>4, <3>1, <3>3, <4>1
      <4> HIDE DEF h
      <4> QED BY ONLY <1>7, <2>3, <3>2, <3>3, <4>2, <4>3 DEF Counted
    <3>4. CASE z # g
      <4>1. t.at[z].left \notin {p, k} /\ t.at[z].right \notin {p, k}
        <5>1. "left" \in Sides /\ Opposite("left") = "right"
          BY DEF Sides, Opposite
        <5>2. Parted(t, below, less, z, "left")
          BY <1>2, <5>1, KidIs
        <5>3. /\ t.at[z].left # NULL => t.at[t.at[z].left].parent = z
              /\ t.at[z].right # NULL => t.at[t.at[z].right].parent = z
          BY <5>1, <5>2 DEF Parted
        <5>4. t.at[p].parent = g /\ t.at[k].parent = g /\ p # NULL /\ k # NULL
          BY <1>1, <1>2, <1>4
        <5> QED BY ONLY <3>4, <5>3, <5>4
      <4>2. h[t.at[z].left] = black[t.at[z].left] /\ h[t.at[z].right] = black[t.at[z].right]
        BY <3>1, <4>1
      <4>3. h[z] = IF z = p \/ z = k THEN black[z] + 1 ELSE black[z]
        BY <3>1
      <4>4. IsRed(u, z) <=> z # k /\ z # p /\ IsRed(t, z)
        BY <1>5, <3>4
      <4>5. IsRed(t, p) /\ IsRed(t, k)
        BY <1>1
      <4> HIDE DEF h
      <4> QED BY ONLY <1>7, <2>3, <3>2, <4>2, <4>3, <4>4, <4>5 DEF Counted
    <3> QED BY <3>3, <3>4
  <2> HIDE DEF h
  <2> QED BY <1>6, <2>2, <2>3 DEF Even
<1>9. IsRed(u, g) /\ g \in Nodes(u)
  BY <1>1, <1>4, <1>5, <1>6
<1>10. ASSUME NEW z \in Nodes(u), IsRed(u, z), IsRed(u, u.at[z].parent) PROVE z = g
  <2> DEFINE q == t.at[z].parent
  <2>1. q = u.at[z].parent /\ z \in Nodes(t) /\ z # k /\ (z = g \/ (z # p /\ IsRed(t, z)))
    BY <1>5, <1>6, <1>7, <1>10
  <2>2. q # NULL
    BY <1>10, <2>1 DEF IsRed
  <2>0. q = t.at[z].parent
    OBVIOUS
  <2> HIDE DEF q
  <2>3. q \in Nodes(t) /\ SideOf(t, z) \in Sides /\ t.at[q][SideOf(t, z)] = z
    <3>1. Search(t, below, less) /\ z \in Nodes(t)
      BY <1>2, <2>1
    <3> QED BY ONLY <2>0, <2>2, <3>1, ParentIs
  <2>4. q # k /\ (q = g \/ (q # p /\ IsRed(t, q)))
    BY <1>5, <1>10, <2>1, <2>3
  <2>5. q = g => z \in {p, k}
    BY <1>1, <2>3 DEF Sides, Opposite
  <2>6. z # g => z = x
    <3>1. z # g => q # g
      BY <1>1, <2>1, <2>5
    <3>2. z # g => IsRed(t, z) /\ IsRed(t, q)
      BY <2>1, <2>4, <3>1
    <3> QED BY <2>1, <3>2 DEF Broken, Mending, RedPairsAt, q
  <2> QED BY <1>1, <1>10, <2>1, <2>4, <2>6 DEF q
<1>11. IsRed(u, u.top) => u.top = g
  <2>1. t.top \in Places(t)
    BY <1>2 DEF IsTree
  <2>2. t.top = NULL => ~IsRed(u, t.top)
    BY DEF IsRed
  <2> QED BY <1>1, <1>5, <1>6, <2>1, <2>2 DEF Places
<1> HIDE DEF h
<1>12. Mending(u, below, h, less, g)
  BY <1>6, <1>8, <1>9, <1>10, <1>11 DEF Mending, RedPairsAt
<1> QED BY <1>5, <1>12

(* A rotation, link by link.                                               *)
Turned(t, x, side, y, m, p, u) ==
  /\ \A z \in Places(t) : IsRed(u, z) <=> IsRed(t, z)
  /\ \A z \in Nodes(t) : u.at[z].entry = t.at[z].entry
  /\ u.at[x][side] = t.at[x][side] /\ u.at[x][Opposite(side)] = m
  /\ u.at[y][side] = x /\ u.at[y][Opposite(side)] = t.at[y][Opposite(side)]
  /\ u.at[x]["parent"] = y /\ u.at[y]["parent"] = p
  /\ m # NULL => u.at[m]["parent"] = x
  /\ p # NULL => u.at[p][SideOf(t, x)] = y
  /\ \A z \in Nodes(t), s \in Sides :
       z # x /\ z # y /\ ~(p # NULL /\ z = p /\ s = SideOf(t, x)) => u.at[z][s] = t.at[z][s]
  /\ \A z \in Nodes(t) : z # x /\ z # y /\ z # m => u.at[z]["parent"] = t.at[z]["parent"]

LEMMA RotateTurns ==
  ASSUME NEW t, IsTree(t), NEW x \in Nodes(t), NEW y \in Nodes(t), NEW side \in Sides,
         NEW m \in Places(t), NEW p \in Places(t), NEW u, Rotated(t, x, side, y, m, p, u),
         x # y, x # p, y # p, m # x, m # y, SideOf(t, x) \in Sides, m # NULL => p # m
  PROVE  Turned(t, x, side, y, m, p, u)
<1> DEFINE opp == Opposite(side)
           at == SideOf(t, x)
           Cell(z, g) ==
             IF z = x /\ g = "parent" THEN y
             ELSE IF z = y /\ g = side THEN x
             ELSE IF p # NULL /\ z = p /\ g = at THEN y
             ELSE IF z = y /\ g = "parent" THEN p
             ELSE IF m # NULL /\ z = m /\ g = "parent" THEN x
             ELSE IF z = x /\ g = opp THEN m
             ELSE t.at[z][g]
<1>1. \A z \in Nodes(t), g \in Fields : u.at[z][g] = Cell(z, g)
  BY DEF Rotated
<1>2. /\ opp \in Sides /\ opp # side /\ Sides \subseteq Fields /\ "parent" \notin Sides
      /\ "is_red" \notin Sides /\ "entry" \notin Sides /\ Sides = {side, opp}
      /\ {"parent", "is_red", "entry"} \subseteq Fields /\ at \in Sides
      /\ side \in Fields /\ opp \in Fields /\ "parent" \in Fields /\ at \in Fields
      /\ NULL \notin Nodes(t)
  <2>1. /\ Sides \subseteq Fields /\ "parent" \notin Sides /\ "is_red" \notin Sides
        /\ "entry" \notin Sides /\ {"parent", "is_red", "entry"} \subseteq Fields
    BY DEF Sides, Fields
  <2>2. opp \in Sides /\ opp # side /\ Sides = {side, opp}
    BY SidesAre
  <2> QED BY <2>1, <2>2 DEF IsTree
<1> HIDE DEF opp, at
<1>3. ASSUME NEW z \in Nodes(t), NEW g \in {"is_red", "entry"} PROVE u.at[z][g] = t.at[z][g]
  <2>1. u.at[z][g] = Cell(z, g) /\ g # "parent" /\ g # side /\ g # opp /\ g # at
    BY <1>1, <1>2
  <2> QED BY ONLY <2>1
<1>4. \A z \in Places(t) : IsRed(u, z) <=> IsRed(t, z)
  <2>1. \A z \in Nodes(t) : u.at[z]["is_red"] = t.at[z]["is_red"]
    BY <1>3
  <2> QED BY <2>1 DEF IsRed, Places
<1>5. \A z \in Nodes(t) : u.at[z].entry = t.at[z].entry
  <2>1. \A z \in Nodes(t) : u.at[z]["entry"] = t.at[z]["entry"]
    BY <1>3
  <2> QED BY <2>1
<1>6. ASSUME NEW z \in Nodes(t), NEW s \in Sides, z # x, z # y, ~(p # NULL /\ z = p /\ s = at)
      PROVE  u.at[z][s] = t.at[z][s]
  <2>1. u.at[z][s] = Cell(z, s) /\ s # "parent"
    BY <1>1, <1>2
  <2> QED BY ONLY <1>6, <2>1
<1>7. ASSUME NEW z \in Nodes(t), z # x, z # y, z # m PROVE u.at[z]["parent"] = t.at[z]["parent"]
  <2>1. u.at[z]["parent"] = Cell(z, "parent") /\ side # "parent" /\ opp # "parent" /\ at # "parent"
    BY <1>1, <1>2
  <2> QED BY ONLY <1>7, <2>1
<1>8. /\ u.at[x][side] = t.at[x][side] /\ u.at[x][opp] = m
      /\ u.at[x]["parent"] = y
  <2>1. /\ u.at[x][side] = Cell(x, side) /\ u.at[x][opp] = Cell(x, opp)
        /\ u.at[x]["parent"] = Cell(x, "parent")
        /\ side # "parent" /\ opp # "parent" /\ at # "parent" /\ side # opp
    BY <1>1, <1>2
  <2> QED BY <2>1
<1>9. /\ u.at[y][side] = x /\ u.at[y][opp] = t.at[y][opp]
      /\ u.at[y]["parent"] = p
  <2>1. /\ u.at[y][side] = Cell(y, side) /\ u.at[y][opp] = Cell(y, opp)
        /\ u.at[y]["parent"] = Cell(y, "parent")
        /\ side # "parent" /\ opp # "parent" /\ at # "parent" /\ side # opp
    BY <1>1, <1>2
  <2> QED BY <2>1
<1>10. p # NULL => u.at[p][at] = y
  <2>1. p # NULL => u.at[p][at] = Cell(p, at) /\ at # "parent"
    BY <1>1, <1>2 DEF Places
  <2> QED BY <2>1
<1>11. m # NULL => u.at[m]["parent"] = x
  <2>1. m # NULL => u.at[m]["parent"] = Cell(m, "parent") /\ at # "parent" /\ side # "parent"
    BY <1>1, <1>2 DEF Places
  <2> QED BY <2>1
<1> QED BY <1>4, <1>5, <1>6, <1>7, <1>8, <1>9, <1>10, <1>11 DEF Turned, opp, at

(* Around a rotation the black nodes are counted as before; the two nodes  *)
(* that change places have to be looked at.                                *)
LEMMA RotateCounts ==
  ASSUME NEW t, NEW below, NEW less, Search(t, below, less),
         NEW x \in Nodes(t), NEW y \in Nodes(t), NEW side \in Sides,
         NEW m \in Places(t), NEW p \in Places(t), NEW u,
         Turned(t, x, side, y, m, p, u), Places(u) = Places(t), Nodes(u) = Nodes(t),
         p = t.at[x].parent, y = t.at[x][Opposite(side)], x # y,
         NEW black \in [Places(t) -> Int], black[NULL] = 0,
         \A z \in Nodes(t) : z # x /\ z # y => Counted(t, black, z),
         NEW h \in [Places(t) -> Int], h[y] = black[x],
         \A z \in Places(t) : z # x /\ z # y => h[z] = black[z],
         Counted(u, h, x), Counted(u, h, y)
  PROVE  Even(u, h)
<1>1. NULL \notin Nodes(t) /\ NULL \in Places(t)
  BY DEF Search, IsTree, Places
<1>2. ASSUME NEW z \in Nodes(t), z # x, z # y PROVE Counted(u, h, z)
  <2>1. z \in Places(t) /\ (IsRed(u, z) <=> IsRed(t, z)) /\ h[z] = black[z]
    BY <1>2 DEF Turned, Places
  <2>2. CASE p # NULL /\ z = p
    <3> DEFINE s == SideOf(t, x)
               o == t.at[z][Opposite(s)]
    <3>1. s \in Sides /\ t.at[z][s] = x /\ o # x
      BY <2>2, ParentIs
    <3>2. Opposite(s) \in Sides /\ Opposite(s) # s
      BY <3>1, SidesAre
    <3>3. o \in Places(t) /\ (o # NULL => t.at[o].parent = z)
      <4> HIDE DEF s
      <4> QED BY <3>1, <3>2, KidIs DEF Parted
    <3>4. o # y
      <4>1. Opposite(side) \in Sides /\ y # NULL
        BY <1>1, SidesAre
      <4>2. t.at[y].parent = x
        BY <4>1, KidsApart
      <4> QED BY <1>2, <3>3, <4>1, <4>2
    <3>5. u.at[z][s] = y /\ u.at[z][Opposite(s)] = o
      BY <1>2, <2>2, <3>2 DEF Turned
    <3>6. Counted(t, black, z)
      BY <1>2
    <3>7. h[o] = black[o]
      BY <3>1, <3>3, <3>4
    <3> HIDE DEF o, s
    <3>8. black[x] = black[o] /\ black[z] = black[x] + (IF IsRed(t, z) THEN 0 ELSE 1)
      <4>1. CountedFrom(t, black, z, s)
        BY ONLY <3>1, <3>6, CountedIs
      <4> QED BY ONLY <3>1, <4>1 DEF CountedFrom, o
    <3>9. CountedFrom(u, h, z, s)
      BY ONLY h[y] = black[x], <2>1, <3>5, <3>7, <3>8 DEF CountedFrom
    <3> QED BY ONLY <3>1, <3>9, CountedIs
  <2>3. CASE ~(p # NULL /\ z = p)
    <3>1. u.at[z].left = t.at[z].left /\ u.at[z].right = t.at[z].right
      <4>1. \A s \in Sides : u.at[z][s] = t.at[z][s]
        BY <1>2, <2>3 DEF Turned
      <4> QED BY <4>1 DEF Sides
    <3>2. ASSUME NEW s \in Sides PROVE t.at[z][s] # x /\ t.at[z][s] # y /\ t.at[z][s] \in Places(t)
      <4>1. t.at[z][s] # NULL => t.at[t.at[z][s]].parent = z
        BY KidsApart
      <4>2. y # NULL /\ x # NULL
        BY <1>1
      <4>3. t.at[y].parent = x
        BY <4>2, SidesAre, KidsApart
      <4>4. z # NULL
        BY <1>1
      <4> QED BY <1>2, <2>3, <4>1, <4>2, <4>3, <4>4, KidIs
    <3>3. h[t.at[z].left] = black[t.at[z].left] /\ h[t.at[z].right] = black[t.at[z].right]
      BY <3>2 DEF Sides
    <3>4. Counted(t, black, z)
      BY <1>2
    <3> QED BY ONLY <2>1, <3>1, <3>3, <3>4 DEF Counted
  <2> QED BY <2>2, <2>3
<1>3. h[NULL] = 0
  BY <1>1
<1> QED BY <1>2, <1>3 DEF Even

(* All of a rotation.                                                      *)
LEMMA RotateDoes ==
  ASSUME NEW t, NEW below, NEW less, Search(t, below, less), IsOrder(less),
         NEW x \in Nodes(t), NEW side \in Sides,
         NEW y, y = t.at[x][Opposite(side)], y # NULL,
         NEW m, m = t.at[y][side], NEW p, p = t.at[x].parent,
         NEW u, u = Rotate(t, x, side)
  PROVE  /\ \E b : Search(u, b, less)
         /\ Turned(t, x, side, y, m, p, u)
         /\ Nodes(u) = Nodes(t) /\ Places(u) = Places(t)
         /\ u.top = IF p = NULL THEN y ELSE t.top
         /\ x # y /\ x # p /\ y # p /\ m # x /\ m # y /\ (m # NULL => p # m)
         /\ y \in Nodes(t) /\ m \in Places(t) /\ p \in Places(t)
<1> DEFINE b == Lifted(t, below, x, side, y)
<1>1. Search(u, b, less) /\ Rotated(t, x, side, y, t.at[y][side], t.at[x].parent, u)
  BY RotateKeeps
<1> HIDE DEF b
<1>2. IsTree(t) /\ NULL \notin Nodes(t) /\ Opposite(side) \in Sides
  BY SidesAre DEF Search, IsTree
<1>3. y \in Nodes(t) /\ x # y /\ t.at[y].parent = x /\ y \in below[x] /\ x \notin below[y]
      /\ below[y] \subseteq below[x]
  BY <1>2, KidsApart
<1>4. m \in Places(t) /\ p \in Places(t)
  <2>1. t.at[x]["parent"] \in Places(t)
    BY KidIs
  <2> QED BY <1>3, <2>1, KidIs
<1>5. m # NULL => m # y /\ m \in below[y] /\ m # x
  <2>1. m # NULL => m # y /\ m \in below[m] /\ below[m] \subseteq below[y]
    BY <1>3, KidsApart
  <2> QED BY <1>3, <2>1
<1>6. p # NULL => p # x /\ p \notin below[x]
  BY ParentIs
<1>7. /\ x # y /\ x # p /\ y # p /\ m # x /\ m # y /\ (m # NULL => p # m)
  BY <1>2, <1>3, <1>5, <1>6
<1>8. SideOf(t, x) \in Sides
  BY DEF SideOf, Sides
<1>9. Turned(t, x, side, y, m, p, u)
  BY <1>1, <1>2, <1>3, <1>4, <1>7, <1>8, RotateTurns
<1> QED BY <1>1, <1>3, <1>4, <1>7, <1>9 DEF Rotated, Places

(* A bent pair is made straight: the lower of the two red nodes comes up.  *)
Straight(t, below, black, less, x, p, g, side, k) ==
  /\ Broken(t, below, black, less, x, p, g)
  /\ side \in Sides /\ t.at[g][side] = p /\ t.at[p][side] = x
  /\ t.at[g][Opposite(side)] = k /\ ~IsRed(t, k)

Bent(t, below, black, less, x, p, g, side, k) ==
  /\ Broken(t, below, black, less, x, p, g)
  /\ side = SideOf(t, p) /\ t.at[p][Opposite(side)] = x
  /\ t.at[g][Opposite(side)] = k /\ ~IsRed(t, k)

LEMMA BentTurn ==
  ASSUME NEW t, NEW below, NEW black, NEW less, IsOrder(less), NEW x, NEW p, NEW g,
         NEW side, NEW k, Bent(t, below, black, less, x, p, g, side, k),
         NEW u, u = Rotate(t, p, side)
  PROVE  /\ \E b : Straight(u, b, black, less, p, x, g, side, k)
         /\ Nodes(u) = Nodes(t) /\ \A z \in Nodes(t) : u.at[z].entry = t.at[z].entry
<1>a. /\ Broken(t, below, black, less, x, p, g)
      /\ side = SideOf(t, p) /\ x = t.at[p][Opposite(side)]
      /\ k = t.at[g][Opposite(side)] /\ ~IsRed(t, k)
  BY DEF Bent
<1>0. Family(t, below, less, x, p, g)
  BY <1>a, FamilyIs
<1>1. /\ Search(t, below, less) /\ x \in Nodes(t) /\ p \in Nodes(t) /\ g \in Nodes(t)
      /\ p # x /\ g # p /\ g # x /\ t.at[p].parent = g /\ side \in Sides
      /\ t.at[g][side] = p /\ p # t.top /\ x # t.top /\ NULL \notin Nodes(t)
      /\ IsRed(t, x) /\ IsRed(t, p) /\ ~IsRed(t, g) /\ ~IsRed(t, t.top)
  BY <1>0, <1>a DEF Family
<1>2. Even(t, black) /\ RedPairsAt(t, x)
  BY <1>a DEF Broken, Mending
<1> DEFINE m == t.at[x][side]
           opp == Opposite(side)
<1>3. /\ \E b : Search(u, b, less)
      /\ Turned(t, p, side, x, m, g, u)
      /\ Nodes(u) = Nodes(t) /\ Places(u) = Places(t) /\ u.top = t.top
      /\ p # x /\ g # p /\ g # x /\ m # p /\ m # x /\ (m # NULL => g # m)
      /\ m \in Places(t)
  BY <1>1, <1>a, RotateDoes
<1>4. opp \in Sides /\ opp # side
  BY <1>1, SidesAre
<1> HIDE DEF m, opp
<1>5. /\ \A z \in Places(t) : IsRed(u, z) <=> IsRed(t, z)
      /\ u.at[p][side] = t.at[p][side] /\ u.at[p][opp] = m
      /\ u.at[x][side] = p /\ u.at[x][opp] = t.at[x][opp]
      /\ u.at[p]["parent"] = x /\ u.at[x]["parent"] = g
      /\ m # NULL => u.at[m]["parent"] = p
      /\ u.at[g][side] = x /\ u.at[g][opp] = t.at[g][opp]
      /\ \A z \in Nodes(t) : z # p /\ z # x /\ z # m => u.at[z]["parent"] = t.at[z]["parent"]
  <2>1. u.at[g][side] = x
    BY <1>1, <1>3, <1>a DEF Turned
  <2>2. u.at[g][opp] = t.at[g][opp]
    BY <1>1, <1>3, <1>4, <1>a DEF Turned
  <2> QED BY <1>3, <2>1, <2>2 DEF Turned, opp
<1>6. /\ Even(u, black)
  <2>1. CountedFrom(t, black, p, side) /\ CountedFrom(t, black, x, side)
    <3>1. Counted(t, black, p) /\ Counted(t, black, x)
      BY <1>1, <1>2 DEF Even
    <3> QED BY <1>1, <3>1, CountedIs
  <2>2. t.at[p][opp] = x /\ t.at[x][side] = m
    BY <1>a DEF opp, m
  <2>3. /\ black[t.at[p][side]] = black[x] /\ black[p] = black[t.at[p][side]] + 0
        /\ black[m] = black[t.at[x][opp]] /\ black[x] = black[m] + 0
    BY ONLY <1>1, <2>1, <2>2 DEF CountedFrom, opp
  <2>4. black \in [Places(t) -> Int] /\ black[NULL] = 0
        /\ p \in Places(t) /\ x \in Places(t) /\ m \in Places(t) /\ t.at[p][side] \in Places(t)
    BY <1>1, <1>2, <1>3, KidIs DEF Even, Places
  <2>5. black[t.at[p][side]] \in Int /\ black[m] \in Int /\ black[p] \in Int /\ black[x] \in Int
    BY <2>4
  <2>6. black[p] = black[x] /\ black[m] = black[x] /\ black[t.at[p][side]] = black[x]
        /\ black[t.at[x][opp]] = black[x] /\ black[x] = black[x] + 0
    BY ONLY <2>3, <2>5
  <2>7. IsRed(u, p) /\ IsRed(u, x)
    BY <1>1, <1>5, <2>4
  <2>8. CountedFrom(u, black, p, side) /\ CountedFrom(u, black, x, side)
    BY ONLY <1>5, <2>6, <2>7 DEF CountedFrom, opp
  <2>9. Counted(u, black, p) /\ Counted(u, black, x)
    BY <1>1, <2>8, CountedIs
  <2>10. \A z \in Nodes(t) : Counted(t, black, z)
    BY <1>2 DEF Even
  <2>11. g \in Places(t) /\ g = t.at[p].parent /\ x = t.at[p][Opposite(side)]
    BY <1>1, <1>a DEF Places
  <2> QED BY <1>1, <1>3, <2>4, <2>6, <2>9, <2>10, <2>11, RotateCounts
<1>7. RedPairsAt(u, p)
  <2> SUFFICES ASSUME NEW z \in Nodes(t), IsRed(u, z), IsRed(u, u.at[z].parent), z # p
               PROVE  FALSE
    BY <1>3 DEF RedPairsAt
  <2>1. IsRed(t, z)
    BY <1>5 DEF Places
  <2>2. z # x
    BY <1>1, <1>5 DEF Places
  <2>3. z # m
    <3>1. m # NULL => t.at[m].parent = x
      BY <1>1, KidsApart DEF m
    <3>2. z = m => IsRed(t, m) /\ m # NULL
      BY <1>1, <2>1
    <3> QED BY <1>1, <1>2, <1>3, <3>1, <3>2 DEF RedPairsAt
  <2>4. u.at[z]["parent"] = t.at[z]["parent"] /\ t.at[z]["parent"] \in Places(t)
    BY <1>1, <1>5, <2>2, <2>3, KidIs
  <2>5. IsRed(t, t.at[z].parent)
    BY <1>5, <2>4
  <2> QED BY <1>2, <2>1, <2>2, <2>5 DEF RedPairsAt
<1>8. IsRed(u, p) /\ IsRed(u, x) /\ u.top # p /\ ~IsRed(u, u.top) /\ p \in Nodes(u)
  <2>1. t.top \in Places(t)
    BY <1>1 DEF Search, IsTree
  <2> QED BY <1>1, <1>3, <1>5, <2>1 DEF Places
<1>9. ~IsRed(u, k) /\ u.at[g][opp] = k
  <2>1. k \in Places(t) /\ k = t.at[g][opp]
    <3>1. t.at[g][opp] \in Places(t)
      BY <1>1, <1>4, KidIs
    <3> QED BY <1>a, <3>1 DEF opp
  <2> QED BY <1>a, <1>5, <2>1
<1>10. PICK b : Search(u, b, less)
  BY <1>3
<1>11. Mending(u, b, black, less, p)
  BY <1>6, <1>7, <1>8, <1>10 DEF Mending
<1>12. Broken(u, b, black, less, p, x, g)
  BY <1>5, <1>8, <1>11 DEF Broken
<1>13. Straight(u, b, black, less, p, x, g, side, k)
  BY <1>1, <1>5, <1>9, <1>12 DEF Straight, opp
<1> QED BY <1>3, <1>13 DEF Turned

(* A straight pair: the grandparent goes down on the other side, and the   *)
(* colours are right.                                                      *)
Mended(t, u, less, x) ==
  /\ \E b, h : Mending(u, b, h, less, x)
  /\ ~IsRed(u, u.at[x].parent)
  /\ Nodes(u) = Nodes(t) /\ \A z \in Nodes(t) : u.at[z].entry = t.at[z].entry

LEMMA StraightTurn ==
  ASSUME NEW t, NEW below, NEW black, NEW less, IsOrder(less), NEW x, NEW p, NEW g,
         NEW side, NEW k, Straight(t, below, black, less, x, p, g, side, k),
         NEW u, u = Rotate(Paint(Paint(t, p, FALSE), g, TRUE), g, Opposite(side))
  PROVE  Mended(t, u, less, x)
<1> DEFINE s == Paint(Paint(t, p, FALSE), g, TRUE)
<1>a. u = Rotate(s, g, Opposite(side)) /\ s = Paint(Paint(t, p, FALSE), g, TRUE)
  OBVIOUS
<1> HIDE DEF s
<1>0. Broken(t, below, black, less, x, p, g) /\ Family(t, below, less, x, p, g)
  BY FamilyIs DEF Straight
<1>1. /\ Search(t, below, less) /\ x \in Nodes(t) /\ p \in Nodes(t) /\ g \in Nodes(t)
      /\ p # x /\ g # p /\ g # x /\ t.at[p].parent = g /\ t.at[x].parent = p
      /\ p # t.top /\ x # t.top /\ NULL \notin Nodes(t) /\ IsTree(t)
      /\ IsRed(t, x) /\ IsRed(t, p) /\ ~IsRed(t, g) /\ ~IsRed(t, t.top)
  BY <1>0 DEF Family
<1>2. /\ side \in Sides /\ t.at[g][side] = p /\ t.at[p][side] = x
      /\ t.at[g][Opposite(side)] = k /\ ~IsRed(t, k) /\ Even(t, black) /\ RedPairsAt(t, x)
  BY DEF Straight, Broken, Mending
<1> DEFINE opp == Opposite(side)
           m == t.at[p][opp]
           pp == t.at[g]["parent"]
<1>3. opp \in Sides /\ opp # side /\ Opposite(opp) = side /\ side # "is_red" /\ opp # "is_red"
      /\ {side, opp} \subseteq Fields \ {"is_red"} /\ {"parent", "entry"} \subseteq Fields \ {"is_red"}
      /\ side \in Links /\ opp \in Links /\ "parent" \in Links
  BY <1>2, SidesAre DEF Fields
<1> HIDE DEF m, opp, pp
<1>4. /\ Recoloured(t, s)
      /\ \A z \in Nodes(t) : IsRed(s, z) <=> z = g \/ (z # p /\ IsRed(t, z))
  <2> DEFINE s1 == Paint(t, p, FALSE)
  <2>1. Recoloured(t, s1) /\ Blackened(t, t, p, s1)
    BY <1>1, Unpainted, PaintRecolours
  <2> HIDE DEF s1
  <2>2. Recoloured(t, Paint(s1, g, TRUE)) /\ Reddened(t, s1, g, Paint(s1, g, TRUE))
    BY <1>1, <2>1, PaintRecolours
  <2>3. s = Paint(s1, g, TRUE)
    BY <1>a DEF s1
  <2> QED BY <2>1, <2>2, <2>3 DEF Blackened, Reddened
<1>5. /\ Search(s, below, less) /\ Nodes(s) = Nodes(t) /\ s.top = t.top /\ Places(s) = Places(t)
      /\ \A z \in Nodes(t) : \A f \in {side, opp, "parent", "entry"} : s.at[z][f] = t.at[z][f]
  <2>1. Search(s, below, less)
    BY <1>1, <1>4, RecolouringKeeps
  <2> QED BY <1>3, <1>4, <2>1 DEF Recoloured, Places
<1>6. /\ s.at[g][Opposite(opp)] = p /\ s.at[p][opp] = m /\ s.at[g]["parent"] = pp /\ p # NULL
      /\ s.at[g][opp] = k /\ s.at[p][side] = x
  <2>1. t.at[p][opp] = m /\ t.at[g]["parent"] = pp
    BY DEF m, pp
  <2>2. t.at[g][opp] = k
    BY <1>2 DEF opp
  <2> QED BY ONLY <1>1, <1>2, <1>3, <1>5, <2>1, <2>2
<1>7. /\ \E b : Search(u, b, less)
      /\ Turned(s, g, opp, p, m, pp, u)
      /\ Nodes(u) = Nodes(t) /\ Places(u) = Places(t)
      /\ u.top = IF pp = NULL THEN p ELSE t.top
      /\ m # g /\ m # p /\ m \in Places(t) /\ pp \in Places(t) /\ pp # p /\ pp # g
  <2>1. /\ \E b : Search(u, b, less)
        /\ Turned(s, g, opp, p, m, pp, u)
        /\ Nodes(u) = Nodes(s) /\ Places(u) = Places(s)
        /\ u.top = IF pp = NULL THEN p ELSE s.top
        /\ m # g /\ m # p /\ m \in Places(s) /\ pp \in Places(s) /\ p # pp /\ g # pp
    <3>1. g \in Nodes(s) /\ u = Rotate(s, g, opp)
      BY <1>a, <1>1, <1>5 DEF opp
    <3>2. p = s.at[g][Opposite(opp)] /\ m = s.at[p][opp] /\ pp = s.at[g].parent
      BY <1>6
    <3>3. Search(s, below, less) /\ IsOrder(less) /\ opp \in Sides /\ p # NULL
      BY <1>3, <1>5, <1>6
    <3> QED BY ONLY <3>1, <3>2, <3>3, RotateDoes
  <2> QED BY <1>5, <2>1
<1>8. /\ \A z \in Places(t) : IsRed(u, z) <=> IsRed(s, z)
      /\ u.at[g][opp] = k /\ u.at[g][side] = m /\ u.at[g]["parent"] = p
      /\ u.at[p][opp] = g /\ u.at[p][side] = x /\ u.at[p]["parent"] = pp
      /\ m # NULL => u.at[m]["parent"] = g
      /\ \A z \in Nodes(t) : z # p /\ z # g /\ z # m => u.at[z]["parent"] = t.at[z]["parent"]
      /\ \A z \in Nodes(t) : u.at[z].entry = t.at[z].entry
  <2>1. /\ \A z \in Places(t) : IsRed(u, z) <=> IsRed(s, z)
        /\ u.at[g][opp] = k /\ u.at[g][side] = m /\ u.at[g]["parent"] = p
        /\ u.at[p][opp] = g /\ u.at[p][side] = x /\ u.at[p]["parent"] = pp
        /\ m # NULL => u.at[m]["parent"] = g
    BY ONLY <1>3, <1>5, <1>6, <1>7 DEF Turned
  <2>2. ASSUME NEW z \in Nodes(t), z # p, z # g, z # m
        PROVE  u.at[z]["parent"] = t.at[z]["parent"]
    BY ONLY <1>5, <1>7, <2>2 DEF Turned
  <2>3. ASSUME NEW z \in Nodes(t) PROVE u.at[z].entry = t.at[z].entry
    <3>1. s.at[z]["entry"] = t.at[z]["entry"] /\ u.at[z].entry = s.at[z].entry
      BY ONLY <1>5, <1>7, <2>3 DEF Turned
    <3> QED BY <3>1
  <2> QED BY <2>1, <2>2, <2>3
<1>9. /\ k \in Places(t) /\ k # p /\ k # g /\ x # m /\ NULL \in Places(t)
      /\ m # NULL => t.at[m].parent = p
  <2>1. k \in Places(t)
    BY <1>1, <1>2, <1>3, KidIs DEF opp
  <2>2. k # p
    <3>1. p # t.at[g][Opposite(side)]
      BY <1>1, <1>2, <1>6, KidsApart
    <3> QED BY <1>2, <3>1
  <2>3. k # NULL => k # g
    BY <1>1, <1>2, <1>3, KidsApart DEF opp
  <2>4. x # m
    <3>1. x # NULL /\ x = t.at[p][side]
      BY <1>1, <1>2
    <3>2. x # t.at[p][Opposite(side)]
      BY <1>1, <1>2, <3>1, KidsApart
    <3> QED BY <3>2 DEF m, opp
  <2>5. m # NULL => t.at[m].parent = p
    BY <1>1, <1>3, KidsApart DEF m
  <2> QED BY <1>1, <2>1, <2>2, <2>3, <2>4, <2>5 DEF Places
<1>10. \A z \in Places(t) : IsRed(u, z) <=> z = g \/ (z # p /\ IsRed(t, z))
  <2>1. ~IsRed(u, NULL) /\ ~IsRed(t, NULL) /\ NULL # g
    BY <1>1 DEF IsRed
  <2> QED BY <1>4, <1>8, <2>1 DEF Places
<1> DEFINE h == [z \in Places(t) |-> IF z = p THEN black[g] ELSE IF z = g THEN black[p] ELSE black[z]]
<1>11. /\ p \in Places(t) /\ g \in Places(t) /\ x \in Places(t)
       /\ black \in [Places(t) -> Int] /\ black[NULL] = 0
       /\ \A z \in Places(t) : black[z] \in Int
  BY <1>1, <1>2 DEF Places, Even
<1>12. \A z \in Places(t) :
         h[z] = (IF z = p THEN black[g] ELSE IF z = g THEN black[p] ELSE black[z]) /\ h[z] \in Int
  BY <1>11
<1>13. h \in [Places(t) -> Int]
  BY <1>12
<1> HIDE DEF h
<1>14. Even(u, h)
  <2>1. CountedFrom(t, black, g, side) /\ CountedFrom(t, black, p, side)
    <3>1. Counted(t, black, p) /\ Counted(t, black, g)
      BY <1>1, <1>2 DEF Even
    <3> QED BY <1>2, <3>1, CountedIs
  <2>2. /\ black[p] = black[k] /\ black[g] = black[p] + 1
        /\ black[x] = black[m] /\ black[p] = black[x] + 0
    BY ONLY <1>1, <1>2, <2>1 DEF CountedFrom, opp, m
  <2>3. black[k] = black[x] /\ black[m] = black[x] /\ black[p] = black[x] /\ black[g] = black[x] + 1
        /\ black[x] = black[x] + 0
    BY ONLY <1>7, <1>9, <1>11, <2>2
  <2>4. h[k] = black[k] /\ h[m] = black[m] /\ h[x] = black[x] /\ h[p] = black[g] /\ h[g] = black[p]
    BY ONLY <1>1, <1>7, <1>9, <1>11, <1>12
  <2>5. IsRed(u, g) /\ ~IsRed(u, p)
    BY <1>1, <1>10, <1>11
  <2>6. CountedFrom(u, h, g, side)
    BY ONLY <1>8, <2>3, <2>4, <2>5 DEF CountedFrom, opp
  <2>7. CountedFrom(u, h, p, side)
    BY ONLY <1>8, <2>3, <2>4, <2>5 DEF CountedFrom, opp
  <2>8. Counted(u, h, p) /\ Counted(u, h, g)
    BY <1>2, <2>6, <2>7, CountedIs
  <2>9. ASSUME NEW z \in Nodes(s), z # g, z # p PROVE Counted(s, black, z)
    <3>1. Counted(t, black, z) /\ z \in Nodes(t)
      BY <1>2, <1>5, <2>9 DEF Even
    <3>2. s.at[z][side] = t.at[z][side] /\ s.at[z][opp] = t.at[z][opp]
      BY <1>5, <3>1
    <3>3. IsRed(s, z) <=> IsRed(t, z)
      BY <1>4, <2>9, <3>1
    <3>4. CountedFrom(t, black, z, side)
      BY <1>2, <3>1, CountedIs
    <3>5. CountedFrom(s, black, z, side)
      BY ONLY <3>2, <3>3, <3>4 DEF CountedFrom, opp
    <3> QED BY <1>2, <3>5, CountedIs
  <2>10. /\ g \in Nodes(s) /\ p \in Nodes(s) /\ m \in Places(s) /\ pp \in Places(s)
         /\ Places(u) = Places(s) /\ Nodes(u) = Nodes(s)
         /\ pp = s.at[g].parent /\ p = s.at[g][Opposite(opp)] /\ g # p
         /\ black \in [Places(s) -> Int] /\ h \in [Places(s) -> Int] /\ h[p] = black[g]
         /\ \A z \in Places(s) : z # g /\ z # p => h[z] = black[z]
    <3>1. /\ g \in Nodes(s) /\ p \in Nodes(s) /\ m \in Places(s) /\ pp \in Places(s)
          /\ Places(u) = Places(s) /\ Nodes(u) = Nodes(s)
          /\ black \in [Places(s) -> Int] /\ h \in [Places(s) -> Int]
      BY ONLY <1>1, <1>5, <1>7, <1>11, <1>13
    <3>2. pp = s.at[g].parent /\ p = s.at[g][Opposite(opp)] /\ g # p
      BY <1>1, <1>6
    <3>3. \A z \in Places(s) : z # g /\ z # p => h[z] = black[z]
      BY ONLY <1>5, <1>12
    <3> QED BY <2>4, <3>1, <3>2, <3>3
  <2>11. /\ Search(s, below, less) /\ opp \in Sides /\ Turned(s, g, opp, p, m, pp, u)
         /\ black[NULL] = 0 /\ Counted(u, h, g) /\ Counted(u, h, p)
    BY <1>3, <1>5, <1>7, <1>11, <2>8
  <2> QED BY ONLY <2>9, <2>10, <2>11, RotateCounts
<1>15. \A z \in Nodes(t) : IsRed(u, z) /\ IsRed(u, u.at[z].parent) => z = x
  <2> SUFFICES ASSUME NEW z \in Nodes(t), IsRed(u, z), IsRed(u, u.at[z].parent), z # x
               PROVE  FALSE
    OBVIOUS
  <2>0. z \in Places(t)
    BY DEF Places
  <2>1. z = g \/ (z # p /\ IsRed(t, z))
    BY <1>10, <2>0
  <2>2. z # g
    <3>1. z = g => IsRed(u, p)
      BY ONLY <1>8, IsRed(u, u.at[z].parent)
    <3> QED BY <1>1, <1>10, <1>11, <3>1
  <2>3. z # m
    <3>1. z = m => m # NULL /\ IsRed(t, m)
      BY <1>1, <2>1, <2>2
    <3> QED BY <1>1, <1>2, <1>9, <3>1 DEF RedPairsAt
  <2>4. u.at[z]["parent"] = t.at[z]["parent"] /\ t.at[z]["parent"] \in Places(t)
    BY <1>1, <1>2, <1>8, <2>1, <2>2, <2>3, KidIs
  <2>5. t.at[z].parent = g \/ IsRed(t, t.at[z].parent)
    BY <1>10, <2>4
  <2>6. t.at[z].parent # g
    <3>1. SUFFICES ASSUME t.at[z].parent = g PROVE FALSE
      OBVIOUS
    <3>2. g # NULL /\ SideOf(t, z) \in Sides /\ t.at[g][SideOf(t, z)] = z
      BY <1>1, <3>1, ParentIs
    <3>3. z \in {p, k}
      BY <1>2, <3>2, SidesAre
    <3> QED BY <1>2, <2>1, <2>2, <3>3
  <2> QED BY <1>2, <2>1, <2>2, <2>5, <2>6 DEF RedPairsAt
<1>16. IsRed(u, x) /\ ~IsRed(u, u.top) /\ x \in Nodes(u)
  <2>1. IsRed(u, x) /\ x \in Nodes(u)
    BY <1>1, <1>7, <1>10, <1>11
  <2>2. CASE pp = NULL
    BY <1>1, <1>7, <1>10, <1>11, <2>2
  <2>3. CASE pp # NULL
    <3>1. t.top \in Places(t) /\ t.top # g
      <4>1. g # t.top
        BY <1>1, <2>3, ParentIs DEF pp
      <4> QED BY <1>1, <4>1 DEF IsTree
    <3>2. u.top = t.top
      BY <1>7, <2>3
    <3>3. IsRed(u, t.top) <=> t.top = g \/ (t.top # p /\ IsRed(t, t.top))
      BY <1>10, <3>1
    <3> QED BY <1>1, <2>1, <3>1, <3>2, <3>3
  <2> QED BY <2>1, <2>2, <2>3
<1>17. ~IsRed(u, u.at[x].parent)
  <2>1. u.at[x]["parent"] = p
    BY <1>1, <1>8, <1>9
  <2> QED BY <1>1, <1>10, <1>11, <2>1
<1>18. PICK b : Search(u, b, less)
  BY <1>7
<1>19. Mending(u, b, h, less, x)
  BY <1>7, <1>14, <1>15, <1>16, <1>18 DEF Mending, RedPairsAt
<1> QED BY <1>7, <1>8, <1>17, <1>19 DEF Mended

(* One turn of the loop, and how it comes to an end.                       *)
Advanced(r, r2, below, less) ==
  /\ Nodes(r2.t) = Nodes(r.t)
  /\ \A z \in Nodes(r.t) : r2.t.at[z].entry = r.t.at[z].entry
  /\ \/ Settled(r2) /\ \E b, h : Mending(r2.t, b, h, less, r2.x)
     \/ /\ \E h : Mending(r2.t, below, h, less, r2.x)
        /\ below[r.x] \subseteq below[r2.x] /\ r2.x \in below[r2.x] /\ r2.x \notin below[r.x]

LEMMA TurnMends ==
  ASSUME NEW less, IsOrder(less), NEW r, NEW below, NEW black,
         Mending(r.t, below, black, less, r.x), ~Settled(r),
         NEW r2, r2 = Turn(r)
  PROVE  Advanced(r, r2, below, less)
<1> DEFINE t == r.t
           x == r.x
           p == t.at[x].parent
           g == t.at[p].parent
           side == SideOf(t, p)
           k == t.at[g][Opposite(side)]
           bent == x = t.at[p][Opposite(side)]
           low == IF bent THEN p ELSE x
           t1 == IF bent THEN Rotate(t, p, side) ELSE t
           painted == Paint(Paint(t1, t1.at[low].parent, FALSE), g, TRUE)
           raised == Paint(Paint(Paint(t, p, FALSE), g, TRUE), k, FALSE)
           turned == Rotate(painted, g, Opposite(side))
<1>1. /\ IsRed(t, k) => r2.t = raised /\ r2.x = g
      /\ ~IsRed(t, k) => r2.t = turned /\ r2.x = low
  <2>1. r2 = IF IsRed(t, k) THEN [t |-> raised, x |-> g] ELSE [t |-> turned, x |-> low]
    BY DEF Turn
  <2> HIDE DEF raised, turned, low, k, g
  <2> QED BY <2>1
<1>2. Broken(t, below, black, less, x, p, g)
  BY DEF Broken, Settled
<1>3. Family(t, below, less, x, p, g)
  BY <1>2, FamilyIs
<1>4. CASE IsRed(t, k)
  <2>1. r2.t = Paint(Paint(Paint(t, p, FALSE), g, TRUE), k, FALSE) /\ r2.x = g
    BY <1>1, <1>4
  <2>2. Recoloured(t, r2.t) /\ \E h : Mending(r2.t, below, h, less, g)
    <3> HIDE DEF t, x, p, g, k
    <3> QED BY <1>2, <1>4, <2>1, RecolourTurn DEF k
  <2>3. Nodes(r2.t) = Nodes(t) /\ \A z \in Nodes(t) : r2.t.at[z]["entry"] = t.at[z]["entry"]
    BY <2>2 DEF Recoloured, Fields
  <2>4. below[x] \subseteq below[g] /\ g \in below[g] /\ g \notin below[x]
    BY <1>3 DEF Family
  <2> QED BY <2>1, <2>2, <2>3, <2>4 DEF Advanced
<1>5. CASE ~IsRed(t, k)
  <2>1. r2.t = Rotate(painted, g, Opposite(side)) /\ r2.x = low
    BY <1>1, <1>5
  <2>2. /\ \E b : Straight(t1, b, black, less, low, t1.at[low].parent, g, side, k)
        /\ Nodes(t1) = Nodes(t) /\ \A z \in Nodes(t) : t1.at[z].entry = t.at[z].entry
    <3>1. CASE bent
      <4>1. /\ \E b : Straight(t1, b, black, less, p, x, g, side, k)
            /\ Nodes(t1) = Nodes(t) /\ \A z \in Nodes(t) : t1.at[z].entry = t.at[z].entry
        <5>1. t1 = Rotate(t, p, side) /\ x = t.at[p][Opposite(side)]
          BY <3>1
        <5>2. Bent(t, below, black, less, x, p, g, side, k) /\ IsOrder(less)
          BY <1>2, <1>5, <5>1 DEF Bent
        <5> HIDE DEF t1, t, x, p, g, k, side
        <5> QED BY ONLY <5>1, <5>2, BentTurn
      <4>2. low = p /\ t1.at[p].parent = x
        BY <3>1, <4>1 DEF Straight, Broken
      <4> QED BY <4>1, <4>2
    <3>2. CASE ~bent
      <4>1. t1 = t /\ low = x /\ x = t.at[p][side]
        <5>1. side \in Sides /\ SideOf(t, x) \in Sides /\ t.at[p][SideOf(t, x)] = x
          BY <1>3 DEF Family
        <5> QED BY <3>2, <5>1 DEF Sides, Opposite
      <4>2. Straight(t, below, black, less, x, p, g, side, k)
        BY <1>2, <1>3, <1>5, <4>1 DEF Family, Straight
      <4> QED BY <4>1, <4>2
    <3> QED BY <3>1, <3>2
  <2>3. PICK b : Straight(t1, b, black, less, low, t1.at[low].parent, g, side, k)
    BY <2>2
  <2>4. /\ \E b2, h : Mending(r2.t, b2, h, less, low)
        /\ ~IsRed(r2.t, r2.t.at[low].parent)
        /\ Nodes(r2.t) = Nodes(t1) /\ \A z \in Nodes(t1) : r2.t.at[z].entry = t1.at[z].entry
    <3> DEFINE q == t1.at[low].parent
    <3>1. r2.t = Rotate(Paint(Paint(t1, q, FALSE), g, TRUE), g, Opposite(side))
          /\ Straight(t1, b, black, less, low, q, g, side, k) /\ IsOrder(less)
      BY <2>1, <2>3
    <3> HIDE DEF t1, low, g, side, k, q
    <3>2. Mended(t1, r2.t, less, low)
      BY ONLY <3>1, StraightTurn
    <3> QED BY <3>2 DEF Mended
  <2>5. Settled(r2)
    BY <2>1, <2>4 DEF Settled
  <2> QED BY <2>1, <2>2, <2>4, <2>5 DEF Advanced
<1> QED BY <1>4, <1>5

-----------------------------------------------------------------------------
(* The loop comes to an end, and the tree is as it should be.              *)

(* Subtrees have as many nodes as a number tells, fewer than the node      *)
(* above them.                                                             *)
LEMMA BelowCounts ==
  ASSUME NEW t, NEW below, NEW less, Search(t, below, less),
         NEW x \in Nodes(t), NEW y \in Nodes(t), below[x] \subseteq below[y]
  PROVE  /\ Cardinality(below[x]) \in Nat /\ Cardinality(below[y]) \in Nat
         /\ Cardinality(below[y]) <= Cardinality(Nodes(t)) /\ Cardinality(Nodes(t)) \in Nat
         /\ y \notin below[x] => Cardinality(below[x]) < Cardinality(below[y])
<1>1. /\ IsFiniteSet(Nodes(t)) /\ below[x] \in SUBSET Nodes(t) /\ below[y] \in SUBSET Nodes(t)
      /\ y \in below[y]
  <2>1. below \in [Places(t) -> SUBSET Nodes(t)] /\ IsFiniteSet(Nodes(t))
    BY DEF Search, IsTree
  <2>2. "left" \in Sides
    BY DEF Sides
  <2> QED BY <2>1, <2>2, KidIs DEF Places
<1>2. IsFiniteSet(below[x]) /\ IsFiniteSet(below[y]) /\ Cardinality(below[y]) <= Cardinality(Nodes(t))
  BY <1>1, FS_Subset
<1>3. Cardinality(below[x]) \in Nat /\ Cardinality(below[y]) \in Nat /\ Cardinality(Nodes(t)) \in Nat
  BY <1>1, <1>2, FS_CardinalityType
<1>4. Cardinality(below[x]) <= Cardinality(below[y])
      /\ (Cardinality(below[y]) = Cardinality(below[x]) => below[x] = below[y])
  <2>1. below[x] \in SUBSET below[y]
    OBVIOUS
  <2> QED BY <1>2, <2>1, FS_Subset
<1>5. y \notin below[x] => Cardinality(below[x]) < Cardinality(below[y])
  BY <1>1, <1>3, <1>4
<1> QED BY <1>2, <1>3, <1>5

(* The turns one after the other.                                          *)
TurnOrStay(r) == IF Settled(r) THEN r ELSE Turn(r)
Turns(g, t, x, n) ==
  g = [i \in 0 .. n |-> IF i = 0 THEN [t |-> t, x |-> x] ELSE TurnOrStay(g[i - 1])]

LEMMA TurnsExist ==
  ASSUME NEW t, NEW x, NEW n \in Nat
  PROVE  \E g : Turns(g, t, x, n)
<1> DEFINE T == {k \in 0 .. n : \E g : Turns(g, t, x, k)}
<1>1. 0 \in T
  <2> DEFINE g == [i \in 0 .. 0 |-> [t |-> t, x |-> x]]
  <2>1. g = [i \in 0 .. 0 |-> IF i = 0 THEN [t |-> t, x |-> x] ELSE TurnOrStay(g[i - 1])]
    OBVIOUS
  <2>2. Turns(g, t, x, 0)
    BY <2>1 DEF Turns
  <2> QED BY <2>2
<1>2. ASSUME NEW k \in 1 .. n, k - 1 \in T PROVE k \in T
  <2>1. PICK g : Turns(g, t, x, k - 1)
    BY <1>2
  <2> DEFINE h == [i \in 0 .. k |-> IF i = k THEN TurnOrStay(g[k - 1]) ELSE g[i]]
             e == [i \in 0 .. k |-> IF i = 0 THEN [t |-> t, x |-> x] ELSE TurnOrStay(h[i - 1])]
  <2>2. ASSUME NEW i \in 0 .. k PROVE h[i] = e[i]
    <3>1. CASE i = k
      <4>1. k - 1 \in 0 .. k /\ k - 1 # k /\ k # 0 /\ k \in 0 .. k
        OBVIOUS
      <4>2. h[k - 1] = g[k - 1] /\ h[k] = TurnOrStay(g[k - 1])
        BY <4>1
      <4> HIDE DEF h
      <4> QED BY <3>1, <4>1, <4>2
    <3>2. CASE i # k
      <4>1. i \in 0 .. k - 1 /\ h[i] = g[i]
        BY <3>2
      <4>2. g[i] = IF i = 0 THEN [t |-> t, x |-> x] ELSE TurnOrStay(g[i - 1])
        BY <2>1, <4>1 DEF Turns
      <4>3. i # 0 => i - 1 \in 0 .. k /\ i - 1 # k
        BY <3>2
      <4>4. i # 0 => h[i - 1] = g[i - 1]
        BY <4>3
      <4> HIDE DEF h
      <4> QED BY <4>1, <4>2, <4>4
    <3> QED BY <3>1, <3>2
  <2>3. h = e
    <3>1. h = [i \in 0 .. k |-> h[i]] /\ e = [i \in 0 .. k |-> e[i]]
      OBVIOUS
    <3> HIDE DEF h, e
    <3> QED BY <2>2, <3>1
  <2>4. Turns(h, t, x, k)
    BY <2>3 DEF Turns
  <2> HIDE DEF h
  <2> QED BY <2>4
<1>3. 0 .. n \subseteq T
  <2> HIDE DEF T
  <2> QED BY <1>1, <1>2, IndexInduction
<1> QED BY <1>3

LEMMA FixUpTurns ==
  ASSUME NEW t, NEW x, NEW n \in Nat, n = Cardinality(Nodes(t))
  PROVE  \E g : Turns(g, t, x, n) /\ FixUp(t, x) = Paint(g[n].t, g[n].t.top, FALSE)
<1> DEFINE after == CHOOSE g : g = [i \in 0 .. n |->
                      IF i = 0 THEN [t |-> t, x |-> x]
                      ELSE IF Settled(g[i - 1]) THEN g[i - 1] ELSE Turn(g[i - 1])]
<1>1. FixUp(t, x) = Paint(after[n].t, after[n].t.top, FALSE)
  BY DEF FixUp
<1>2. \E g : g = [i \in 0 .. n |->
                      IF i = 0 THEN [t |-> t, x |-> x]
                      ELSE IF Settled(g[i - 1]) THEN g[i - 1] ELSE Turn(g[i - 1])]
  <2>1. PICK g : Turns(g, t, x, n)
    BY TurnsExist
  <2> QED BY <2>1 DEF Turns, TurnOrStay
<1>3. after = [i \in 0 .. n |->
                      IF i = 0 THEN [t |-> t, x |-> x]
                      ELSE IF Settled(after[i - 1]) THEN after[i - 1] ELSE Turn(after[i - 1])]
  BY <1>2
<1> HIDE DEF after
<1>4. Turns(after, t, x, n)
  BY <1>3 DEF Turns, TurnOrStay
<1> QED BY <1>1, <1>4

(* What insert and replace promise of a tree.                              *)
Balanced(t, less) ==
  \E below, black : /\ Search(t, below, less)
                    /\ black \in [Places(t) -> Int] /\ IsBalanced(t, black)
SameNodes(t, u) == Nodes(u) = Nodes(t) /\ \A z \in Nodes(t) : u.at[z].entry = t.at[z].entry

(* The top is black at last.                                               *)
LEMMA TopPainted ==
  ASSUME NEW t, NEW below, NEW black, NEW less, NEW x, Mending(t, below, black, less, x),
         t.top = x \/ ~IsRed(t, t.at[x].parent),
         NEW u, u = Paint(t, t.top, FALSE)
  PROVE  Balanced(u, less) /\ SameNodes(t, u)
<1>1. /\ Search(t, below, less) /\ Even(t, black) /\ x \in Nodes(t) /\ RedPairsAt(t, x)
      /\ IsTree(t) /\ NULL \notin Nodes(t)
  BY DEF Mending, Search, IsTree
<1> DEFINE top == t.top
<1>2. top \in Nodes(t)
  <2>1. below[NULL] = {} /\ below[top] = Nodes(t) /\ top \in Places(t)
    BY <1>1 DEF Search, IsSearchTree, IsTree
  <2> QED BY <1>1, <2>1 DEF Places
<1> HIDE DEF top
<1>3. Recoloured(t, u) /\ Blackened(t, t, top, u)
  BY <1>1, <1>2, Unpainted, PaintRecolours DEF top
<1>4. Search(u, below, less) /\ Nodes(u) = Nodes(t) /\ Places(u) = Places(t) /\ u.top = top
  <2>1. Search(u, below, less)
    BY <1>1, <1>3, RecolouringKeeps
  <2> QED BY <1>3, <2>1 DEF Recoloured, Places, top
<1>5. \A z \in Nodes(t) : \A f \in {"left", "right", "parent", "entry"} : u.at[z][f] = t.at[z][f]
  BY <1>3 DEF Recoloured, Fields
<1> DEFINE k == IF IsRed(t, top) THEN 1 ELSE 0
           h == [z \in Places(t) |-> IF z = top THEN black[z] + k ELSE black[z]]
<1>6. black \in [Places(t) -> Int] /\ black[NULL] = 0 /\ k \in Int
  BY <1>1 DEF Even
<1> HIDE DEF k
<1>7. \A z \in Places(t) : h[z] = (IF z = top THEN black[z] + k ELSE black[z]) /\ h[z] \in Int
  BY <1>6
<1>8. h \in [Places(t) -> Int]
  BY <1>7
<1> HIDE DEF h
<1>9. h[NULL] = 0
  BY <1>1, <1>2, <1>6, <1>7 DEF Places
<1>10. ~IsRed(u, top)
  BY <1>2, <1>3 DEF Blackened
<1>11. ASSUME NEW z \in Nodes(t) PROVE Coloured(u, h, z)
  <2>1. /\ t.at[z].left \in Places(t) /\ t.at[z].right \in Places(t) /\ z \in Places(t)
        /\ t.at[z].left # top /\ t.at[z].right # top
        /\ \A s \in Sides : t.at[z][s] # NULL => t.at[t.at[z][s]].parent = z /\ t.at[z][s] \in Nodes(t)
    <3>1. \A s \in Sides : t.at[z][s] # NULL => t.at[t.at[z][s]].parent = z /\ t.at[z][s] \in Nodes(t)
      BY <1>1, KidsApart
    <3>2. top # NULL /\ t.at[top].parent = NULL
      <4>1. HasParent(t, top)
        BY <1>1, <1>2, KidIs DEF Sides
      <4> QED BY <1>1, <1>2, <4>1 DEF HasParent, top
    <3>3. \A s \in Sides : t.at[z][s] # top
      BY <1>1, <3>1, <3>2
    <3> QED BY <1>1, <3>1, <3>3 DEF IsTree, Links, Places, Sides
  <2>2. u.at[z].left = t.at[z].left /\ u.at[z].right = t.at[z].right
    BY <1>5
  <2>3. h[t.at[z].left] = black[t.at[z].left] /\ h[t.at[z].right] = black[t.at[z].right]
    BY <1>7, <2>1
  <2>4. /\ black[t.at[z].left] = black[t.at[z].right]
        /\ black[z] = black[t.at[z].left] + (IF IsRed(t, z) THEN 0 ELSE 1)
        /\ black[t.at[z].left] \in Int
    BY <1>1, <1>6, <2>1 DEF Even, Counted
  <2>5. h[z] = black[t.at[z].left] + (IF IsRed(u, z) THEN 0 ELSE 1)
    <3>1. CASE z = top
      <4>1. h[z] = black[z] + k
        BY <1>7, <2>1, <3>1
      <4> QED BY <1>10, <2>4, <3>1, <4>1 DEF k
    <3>2. CASE z # top
      BY <1>3, <1>7, <2>1, <2>4, <3>2 DEF Blackened
    <3> QED BY <3>1, <3>2
  <2>6. IsRed(u, z) <=> u.at[z].is_red
    BY <1>1 DEF IsRed
  <2>7. ASSUME NEW s \in Sides, IsRed(u, z), IsRed(u, u.at[z][s]) PROVE FALSE
    <3> DEFINE c == t.at[z][s]
    <3>1. c = u.at[z][s] /\ c # NULL
      <4>1. s \in {"left", "right", "parent", "entry"}
        BY DEF Sides
      <4>2. u.at[z][s] = c
        BY <1>5, <4>1
      <4> QED BY <2>7, <4>2 DEF IsRed
    <3>2. c \in Nodes(t) /\ t.at[c].parent = z
      BY <2>1, <3>1
    <3>3. IsRed(t, c) /\ IsRed(t, z) /\ c # top /\ z # top
      <4> HIDE DEF c
      <4> QED BY <1>3, <2>7, <3>1, <3>2 DEF Blackened
    <3>4. c = x
      <4> HIDE DEF c
      <4> QED BY <1>1, <3>2, <3>3 DEF RedPairsAt
    <3> HIDE DEF c
    <3> QED BY <3>2, <3>3, <3>4 DEF top
  <2> QED BY <2>2, <2>3, <2>4, <2>5, <2>6, <2>7 DEF Coloured
<1>12. IsBalanced(u, h)
  BY <1>4, <1>9, <1>10, <1>11 DEF IsBalanced
<1>13. Balanced(u, less)
  BY <1>4, <1>8, <1>12 DEF Balanced
<1>14. SameNodes(t, u)
  <2>1. \A z \in Nodes(t) : u.at[z]["entry"] = t.at[z]["entry"]
    BY <1>5
  <2> QED BY <1>4, <2>1 DEF SameNodes
<1> QED BY <1>13, <1>14

(* The loop mends what an insertion has broken.                            *)
LEMMA FixUpMends ==
  ASSUME NEW t, NEW below, NEW black, NEW less, IsOrder(less),
         NEW x, Mending(t, below, black, less, x)
  PROVE  Balanced(FixUp(t, x), less) /\ SameNodes(t, FixUp(t, x))
<1> DEFINE n == Cardinality(Nodes(t))
<1>1. n \in Nat
  BY FS_CardinalityType DEF Mending, Search, IsTree
<1> HIDE DEF n
<1>2. PICK g : Turns(g, t, x, n) /\ FixUp(t, x) = Paint(g[n].t, g[n].t.top, FALSE)
  BY <1>1, FixUpTurns DEF n
<1> DEFINE P(i) ==
             LET r == g[i]
             IN /\ SameNodes(t, r.t)
                /\ \E b, h : /\ Mending(r.t, b, h, less, r.x)
                             /\ Settled(r) \/ Cardinality(b[r.x]) >= i + 1
           T == {i \in 0 .. n : P(i)}
<1>3. 0 \in T
  <2>1. g[0] = [t |-> t, x |-> x]
    BY <1>1, <1>2 DEF Turns
  <2>2. g[0].t = t /\ g[0].x = x
    BY <2>1
  <2>3. Cardinality(below[x]) >= 1
    <3>1. Search(t, below, less) /\ x \in Nodes(t) /\ IsFiniteSet(Nodes(t))
      BY DEF Mending, Search, IsTree
    <3>2. x \in below[x] /\ below[x] \in SUBSET Nodes(t)
      BY <3>1, KidIs DEF Sides
    <3>3. IsFiniteSet(below[x]) /\ Cardinality(below[x]) \in Nat
      BY <3>1, <3>2, FS_Subset, FS_CardinalityType
    <3>4. Cardinality(below[x]) # 0
      BY <3>2, <3>3, FS_EmptySet
    <3> QED BY <3>3, <3>4
  <2>4. P(0)
    BY <2>2, <2>3 DEF SameNodes
  <2> HIDE DEF P
  <2> QED BY <1>1, <2>4
<1>4. ASSUME NEW i \in 1 .. n, i - 1 \in T PROVE i \in T
  <2> DEFINE r == g[i - 1]
             r2 == g[i]
  <2>1. r2 = TurnOrStay(r)
    BY <1>1, <1>2 DEF Turns
  <2>2. SameNodes(t, r.t)
    BY <1>4
  <2>3. PICK b, h : /\ Mending(r.t, b, h, less, r.x)
                    /\ Settled(r) \/ Cardinality(b[r.x]) >= (i - 1) + 1
    BY <1>4
  <2>4. (i - 1) + 1 = i /\ i \in Nat
    OBVIOUS
  <2>5. CASE Settled(r)
    <3>1. r2 = r
      BY <2>1, <2>5 DEF TurnOrStay
    <3> QED BY <2>2, <2>3, <2>5, <3>1
  <2>6. CASE ~Settled(r)
    <3>1. r2 = Turn(r)
      BY <2>1, <2>6 DEF TurnOrStay
    <3>2. /\ Nodes(r2.t) = Nodes(r.t)
          /\ \A z \in Nodes(r.t) : r2.t.at[z].entry = r.t.at[z].entry
          /\ \/ Settled(r2) /\ \E b2, h2 : Mending(r2.t, b2, h2, less, r2.x)
             \/ /\ \E h2 : Mending(r2.t, b, h2, less, r2.x)
                /\ b[r.x] \subseteq b[r2.x] /\ r2.x \in b[r2.x] /\ r2.x \notin b[r.x]
      <4> HIDE DEF r, r2
      <4>1. Advanced(r, r2, b, less)
        BY ONLY IsOrder(less), <2>3, <2>6, <3>1, TurnMends
      <4> QED BY ONLY <4>1 DEF Advanced
    <3>3. SameNodes(t, r2.t)
      <4> HIDE DEF r, r2
      <4> QED BY ONLY <2>2, <3>2 DEF SameNodes
    <3>4. CASE Settled(r2) /\ \E b2, h2 : Mending(r2.t, b2, h2, less, r2.x)
      BY <3>3, <3>4
    <3>5. CASE /\ \E h2 : Mending(r2.t, b, h2, less, r2.x)
               /\ b[r.x] \subseteq b[r2.x] /\ r2.x \in b[r2.x] /\ r2.x \notin b[r.x]
      <4> HIDE DEF r, r2
      <4>1. PICK h2 : Mending(r2.t, b, h2, less, r2.x)
        BY <3>5
      <4>2. r.x \in Nodes(r2.t) /\ r2.x \in Nodes(r2.t) /\ Search(r2.t, b, less)
        BY ONLY <2>3, <3>2, <4>1 DEF Mending
      <4>3. Cardinality(b[r.x]) \in Nat /\ Cardinality(b[r2.x]) \in Nat
            /\ Cardinality(b[r.x]) < Cardinality(b[r2.x])
        BY ONLY <3>5, <4>2, BelowCounts
      <4>4. Cardinality(b[r2.x]) >= i + 1
        BY ONLY <2>3, <2>4, <2>6, <4>3
      <4> USE DEF r2
      <4>5. P(i)
        BY <3>3, <4>1, <4>4
      <4> HIDE DEF P
      <4> QED BY <4>5
    <3> QED BY <3>2, <3>4, <3>5
  <2> QED BY <2>5, <2>6
<1>5. n \in T
  <2>1. 0 .. n \subseteq T
    <3> HIDE DEF T
    <3> QED BY <1>1, <1>3, <1>4, IndexInduction
  <2> QED BY <1>1, <2>1
<1>6. SameNodes(t, g[n].t)
  BY <1>5
<1>7. PICK b, h : /\ Mending(g[n].t, b, h, less, g[n].x)
                  /\ Settled(g[n]) \/ Cardinality(b[g[n].x]) >= n + 1
  BY <1>5
<1>8. Settled(g[n])
  <2>1. /\ Search(g[n].t, b, less) /\ g[n].x \in Nodes(g[n].t)
    BY <1>7 DEF Mending
  <2>2. Cardinality(b[g[n].x]) \in Nat /\ Cardinality(b[g[n].x]) <= Cardinality(Nodes(g[n].t))
    BY <2>1, BelowCounts
  <2>3. Cardinality(Nodes(g[n].t)) = n
    BY <1>6 DEF SameNodes, n
  <2> QED BY <1>1, <1>7, <2>2, <2>3
<1>9. Balanced(FixUp(t, x), less) /\ SameNodes(g[n].t, FixUp(t, x))
  BY <1>2, <1>7, <1>8, TopPainted DEF Settled
<1> QED BY <1>6, <1>9 DEF SameNodes

-----------------------------------------------------------------------------
(* Walks down a tree.                                                      *)

(* What is so of a node when it is so of its children is so of every node. *)
LEMMA SubtreeInduction ==
  ASSUME NEW t, NEW below, NEW less, Search(t, below, less), NEW T,
         \A x \in Nodes(t) : (\A side \in Sides : t.at[x][side] # NULL => t.at[x][side] \in T)
                               => x \in T
  PROVE  Nodes(t) \subseteq T
<1> SUFFICES ASSUME NEW w \in Nodes(t), w \notin T PROVE FALSE
  OBVIOUS
<1> DEFINE Sizes == {Cardinality(below[x]) : x \in Nodes(t) \ T}
<1>1. Sizes \in SUBSET Nat /\ Sizes # {}
  BY BelowCounts
<1>2. PICK n \in Sizes : \A m \in Sizes : n <= m
  <2> HIDE DEF Sizes
  <2> QED BY <1>1, NatMin
<1>3. PICK x \in Nodes(t) \ T : n = Cardinality(below[x])
  BY <1>2
<1>4. ASSUME NEW side \in Sides, t.at[x][side] # NULL PROVE t.at[x][side] \in T
  <2> DEFINE k == t.at[x][side]
  <2>1. k \in Nodes(t) /\ below[k] \subseteq below[x] /\ x \notin below[k]
    BY <1>4, KidsApart
  <2>2. Cardinality(below[k]) < n /\ Cardinality(below[k]) \in Nat /\ n \in Nat
    <3> HIDE DEF k
    <3> QED BY <1>3, <2>1, BelowCounts
  <2>3. k \notin T => Cardinality(below[k]) \in Sizes
    BY <2>1
  <2> HIDE DEF k
  <2>4. k \in T
    BY <1>1, <1>2, <2>2, <2>3
  <2> QED BY <2>4 DEF k
<1> QED BY <1>3, <1>4

(* What hangs below a node hangs below all that it hangs from.             *)
LEMMA BelowIsWhole ==
  ASSUME NEW t, NEW below, NEW less, Search(t, below, less)
  PROVE  \A x \in Nodes(t) : \A z \in below[x] : z \in Nodes(t) /\ below[z] \subseteq below[x]
<1> DEFINE T == {x \in Nodes(t) : \A z \in below[x] : z \in Nodes(t) /\ below[z] \subseteq below[x]}
<1>1. ASSUME NEW x \in Nodes(t), \A side \in Sides : t.at[x][side] # NULL => t.at[x][side] \in T
      PROVE  x \in T
  <2>1. "left" \in Sides /\ Opposite("left") = "right" /\ "right" \in Sides
    BY DEF Sides, Opposite
  <2>2. /\ below[x] = {x} \cup below[t.at[x].left] \cup below[t.at[x].right]
    BY <2>1, KidIs DEF Parted
  <2>3. below[NULL] = {}
    BY DEF Search, IsSearchTree
  <2>4. ASSUME NEW z \in below[x], z # x PROVE z \in Nodes(t) /\ below[z] \subseteq below[x]
    <3>1. PICK side \in Sides : z \in below[t.at[x][side]]
      BY <2>1, <2>2, <2>4
    <3>2. t.at[x][side] # NULL
      BY <2>3, <3>1
    <3>3. below[t.at[x][side]] \subseteq below[x] /\ t.at[x][side] \in T
      BY <1>1, <3>2, KidsApart
    <3> QED BY <3>1, <3>3
  <2> QED BY <2>4
<1>2. Nodes(t) \subseteq T
  <2> HIDE DEF T
  <2> QED BY <1>1, SubtreeInduction
<1> QED BY <1>2

(* The descent, one node at a time.                                        *)
SideTo(order, x) == IF order[x] < 0 THEN "left" ELSE "right"
Down(t, order, f, x) ==
  IF order[x] = 0 \/ t.at[x][SideTo(order, x)] = NULL
  THEN [node |-> x, side |-> SideTo(order, x), found |-> order[x] = 0]
  ELSE f[t.at[x][SideTo(order, x)]]
Descends(t, order, f) == f = [x \in Nodes(t) |-> Down(t, order, f, x)]

LEMMA DescentExists ==
  ASSUME NEW t, NEW below, NEW less, Search(t, below, less), NEW order
  PROVE  \E f : Descends(t, order, f)
<1> DEFINE D(n) == {x \in Nodes(t) : Cardinality(below[x]) <= n}
           E(n, f) == f = [x \in D(n) |-> Down(t, order, f, x)]
           N == Cardinality(Nodes(t))
           T == {n \in 0 .. N : \E f : E(n, f)}
<1>1. N \in Nat /\ \A x \in Nodes(t) : Cardinality(below[x]) \in Nat /\ Cardinality(below[x]) <= N
  <2>1. N \in Nat
    BY FS_CardinalityType DEF Search, IsTree
  <2>2. \A x \in Nodes(t) : Cardinality(below[x]) \in Nat /\ Cardinality(below[x]) <= N
    BY BelowCounts
  <2> QED BY <2>1, <2>2
<1>2. ASSUME NEW x \in Nodes(t), NEW k, k = t.at[x][SideTo(order, x)], k # NULL
      PROVE  k \in Nodes(t) /\ Cardinality(below[k]) < Cardinality(below[x])
  <2>1. SideTo(order, x) \in Sides
    BY DEF SideTo, Sides
  <2>2. k \in Nodes(t) /\ below[k] \subseteq below[x] /\ x \notin below[k]
    BY <1>2, <2>1, KidsApart
  <2> QED BY <2>2, BelowCounts
<1>3. 0 \in T
  <2>1. ASSUME NEW x \in D(0) PROVE FALSE
    <3>1. Cardinality(below[x]) = 0 /\ x \in Nodes(t)
      BY <1>1
    <3>2. x \in below[x] /\ below[x] \in SUBSET Nodes(t) /\ IsFiniteSet(Nodes(t))
      BY <3>1, KidIs DEF Sides, Search, IsTree
    <3>3. IsFiniteSet(below[x])
      BY <3>2, FS_Subset
    <3> QED BY <3>1, <3>2, <3>3, FS_EmptySet
  <2> DEFINE f == [x \in D(0) |-> NULL]
  <2>2. f = [x \in D(0) |-> Down(t, order, f, x)]
    <3> HIDE DEF D
    <3> QED BY <2>1
  <2>3. E(0, f)
    BY <2>2
  <2> HIDE DEF E, f
  <2> QED BY <1>1, <2>3
<1>4. ASSUME NEW n \in 1 .. N, n - 1 \in T PROVE n \in T
  <2>1. PICK f : E(n - 1, f)
    BY <1>4
  <2> DEFINE h == [x \in D(n) |-> IF x \in D(n - 1) THEN f[x] ELSE Down(t, order, f, x)]
             e == [x \in D(n) |-> Down(t, order, h, x)]
  <2>2. ASSUME NEW x \in D(n), NEW k, k = t.at[x][SideTo(order, x)], k # NULL
        PROVE  k \in D(n - 1) /\ k \in D(n)
    <3>1. k \in Nodes(t) /\ Cardinality(below[k]) < Cardinality(below[x])
      BY <1>2, <2>2
    <3> QED BY <1>1, <3>1
  <2>3. \A x \in D(n) : h[x] = IF x \in D(n - 1) THEN f[x] ELSE Down(t, order, f, x)
    <3> HIDE DEF D
    <3> QED OBVIOUS
  <2>4. \A x \in D(n - 1) : f[x] = Down(t, order, f, x)
    <3> HIDE DEF D
    <3> QED BY <2>1
  <2> HIDE DEF h, D
  <2>5. ASSUME NEW x \in D(n) PROVE h[x] = Down(t, order, h, x)
    <3> DEFINE k == t.at[x][SideTo(order, x)]
    <3>1. h[x] = Down(t, order, f, x)
      BY <2>3, <2>4
    <3>2. k # NULL => h[k] = f[k]
      BY <2>2, <2>3
    <3>3. Down(t, order, f, x) = Down(t, order, h, x)
      BY <3>2 DEF Down
    <3> QED BY <3>1, <3>3
  <2>6. h = e
    <3>1. h = [x \in D(n) |-> h[x]]
      BY DEF h
    <3> QED BY <2>5, <3>1
  <2>7. E(n, h)
    BY <2>6
  <2> HIDE DEF E
  <2> QED BY <2>7
<1>5. N \in T
  <2>1. 0 .. N \subseteq T
    <3> HIDE DEF T, N
    <3> QED BY <1>1, <1>3, <1>4, IndexInduction
  <2> QED BY <1>1, <2>1
<1>6. D(N) = Nodes(t)
  BY <1>1
<1>7. PICK f : E(N, f)
  BY <1>5
<1> HIDE DEF D, N
<1>8. Descends(t, order, f)
  BY <1>6, <1>7 DEF Descends
<1> QED BY <1>8

(* Where a descent from x ends.                                            *)
EndsWell(t, below, order, x, last) ==
  /\ last.node \in below[x] /\ last.node \in Nodes(t)
  /\ last.found <=> order[last.node] = 0
  /\ last.side = SideTo(order, last.node)
  /\ ~last.found => t.at[last.node][last.side] = NULL
  /\ \A z \in below[x], side \in Sides :
       last.node \in below[t.at[z][side]] => side = SideTo(order, z) /\ order[z] # 0

LEMMA DescentEnds ==
  ASSUME NEW t, NEW below, NEW less, Search(t, below, less), NEW order, t.top # NULL
  PROVE  EndsWell(t, below, order, t.top, Descend(t, order))
<1> DEFINE f == CHOOSE g : g = [x \in Nodes(t) |->
                  IF order[x] = 0 \/ t.at[x][IF order[x] < 0 THEN "left" ELSE "right"] = NULL
                  THEN [node |-> x, side |-> IF order[x] < 0 THEN "left" ELSE "right",
                        found |-> order[x] = 0]
                  ELSE g[t.at[x][IF order[x] < 0 THEN "left" ELSE "right"]]]
<1>1. Descend(t, order) = f[t.top]
  BY DEF Descend
<1>2. Descends(t, order, f)
  <2>1. PICK g : Descends(t, order, g)
    BY DescentExists
  <2>2. \E h : h = [x \in Nodes(t) |->
                  IF order[x] = 0 \/ t.at[x][IF order[x] < 0 THEN "left" ELSE "right"] = NULL
                  THEN [node |-> x, side |-> IF order[x] < 0 THEN "left" ELSE "right",
                        found |-> order[x] = 0]
                  ELSE h[t.at[x][IF order[x] < 0 THEN "left" ELSE "right"]]]
    BY <2>1 DEF Descends, Down, SideTo
  <2>3. f = [x \in Nodes(t) |->
                  IF order[x] = 0 \/ t.at[x][IF order[x] < 0 THEN "left" ELSE "right"] = NULL
                  THEN [node |-> x, side |-> IF order[x] < 0 THEN "left" ELSE "right",
                        found |-> order[x] = 0]
                  ELSE f[t.at[x][IF order[x] < 0 THEN "left" ELSE "right"]]]
    BY <2>2
  <2> HIDE DEF f
  <2> QED BY <2>3 DEF Descends, Down, SideTo
<1> HIDE DEF f
<1>3. \A x \in Nodes(t) : f[x] = Down(t, order, f, x)
  BY <1>2 DEF Descends
<1> DEFINE T == {x \in Nodes(t) : EndsWell(t, below, order, x, f[x])}
<1>4. ASSUME NEW x \in Nodes(t), \A side \in Sides : t.at[x][side] # NULL => t.at[x][side] \in T
      PROVE  x \in T
  <2> DEFINE s == SideTo(order, x)
             k == t.at[x][s]
  <2>1. s \in Sides
    BY DEF SideTo, Sides
  <2>2. Parted(t, below, less, x, s) /\ x \in below[x] /\ below[NULL] = {}
    BY <2>1, KidIs DEF Search, IsSearchTree
  <2> HIDE DEF s
  <2>3. CASE order[x] = 0 \/ k = NULL
    <3>1. f[x] = [node |-> x, side |-> s, found |-> order[x] = 0]
      BY <1>3, <2>3 DEF Down, s
    <3>2. f[x].node = x /\ f[x].side = s /\ (f[x].found <=> order[x] = 0)
      <4>1. f[x].node = x /\ f[x].side = s
        BY <3>1
      <4>2. CASE order[x] = 0
        <5>1. f[x] = [node |-> x, side |-> s, found |-> TRUE]
          BY <3>1, <4>2
        <5>2. f[x].found = TRUE
          BY <5>1
        <5> QED BY <4>1, <4>2, <5>2
      <4>3. CASE order[x] # 0
        <5>1. f[x] = [node |-> x, side |-> s, found |-> FALSE]
          BY <3>1, <4>3
        <5>2. f[x].found = FALSE
          BY <5>1
        <5> QED BY <4>1, <4>3, <5>2
      <4> QED BY <4>2, <4>3
    <3>3. ASSUME NEW z \in below[x], NEW side \in Sides, x \in below[t.at[z][side]] PROVE FALSE
      <4> DEFINE l == t.at[z][side]
      <4>1. z \in Nodes(t) /\ below[z] \subseteq below[x]
        BY BelowIsWhole
      <4>2. l # NULL
        BY <2>2, <3>3
      <4>3. l \in Nodes(t) /\ z \notin below[l]
        BY <4>1, <4>2, KidsApart
      <4> HIDE DEF l
      <4>4. below[x] \subseteq below[l]
        BY <3>3, <4>3, BelowIsWhole DEF l
      <4> QED BY <4>3, <4>4
    <3>4. EndsWell(t, below, order, x, f[x])
      BY <2>2, <2>3, <3>2, <3>3 DEF EndsWell, s
    <3> QED BY <3>4
  <2>4. CASE ~(order[x] = 0 \/ k = NULL)
    <3>1. f[x] = f[k]
      BY <1>3, <2>4 DEF Down, s
    <3>2. EndsWell(t, below, order, k, f[k]) /\ k \in Nodes(t) /\ below[k] \subseteq below[x]
      BY <1>4, <2>1, <2>4, KidsApart
    <3> DEFINE last == f[k]
               o == t.at[x][Opposite(s)]
    <3>3. below[x] = {x} \cup below[k] \cup below[o] /\ below[k] \cap below[o] = {}
          /\ Sides = {s, Opposite(s)}
      BY <2>1, <2>2, SidesAre DEF Parted
    <3> HIDE DEF k, o, last
    <3>4. ASSUME NEW z \in below[x], NEW side \in Sides, last.node \in below[t.at[z][side]]
          PROVE  side = SideTo(order, z) /\ order[z] # 0
      <4>1. CASE z = x
        <5>1. side # s => last.node \in below[o]
          BY <3>3, <3>4, <4>1 DEF o
        <5>2. last.node \in below[k]
          BY <3>2 DEF EndsWell, last
        <5> QED BY <2>4, <3>3, <4>1, <5>1, <5>2 DEF s
      <4>2. CASE z \in below[k]
        BY <3>2, <3>4, <4>2 DEF EndsWell, last
      <4>3. CASE z \in below[o]
        <5>1. t.at[z][side] # NULL /\ o # NULL
          BY <2>2, <3>4, <4>3
        <5>2. z \in Nodes(t) /\ o \in Nodes(t)
          <6>1. z \in Nodes(t)
            BY BelowIsWhole
          <6>2. o \in Nodes(t)
            BY <2>1, <5>1, SidesAre, KidsApart DEF o
          <6> QED BY <6>1, <6>2
        <5>3. below[t.at[z][side]] \subseteq below[z] /\ below[z] \subseteq below[o]
          BY <4>3, <5>1, <5>2, KidsApart, BelowIsWhole
        <5>4. last.node \in below[k]
          BY <3>2 DEF EndsWell, last
        <5> QED BY <3>3, <3>4, <5>3, <5>4
      <4> QED BY <3>3, <4>1, <4>2, <4>3
    <3>5. EndsWell(t, below, order, x, last)
      BY <3>2, <3>4 DEF EndsWell, last
    <3> QED BY <3>1, <3>5 DEF last
  <2> QED BY <2>3, <2>4
<1>5. Nodes(t) \subseteq T
  <2> HIDE DEF T
  <2> QED BY <1>4, SubtreeInduction
<1>6. t.top \in Nodes(t)
  BY DEF Search, IsTree, Places
<1> QED BY <1>1, <1>5, <1>6

(* A lookup finds a node the comparator calls equal, if there is one and   *)
(* the comparator goes along with the order of the tree.                   *)
Equal(t, order) == {y \in Nodes(t) : order[y] = 0}
GoesAlong(t, less, order) ==
  \A y \in Equal(t, order), z \in Nodes(t) :
    /\ <<y, z>> \in less => order[z] < 0
    /\ <<z, y>> \in less => ~(order[z] < 0) /\ order[z] # 0

LEMMA DescentFinds ==
  ASSUME NEW t, NEW below, NEW less, Search(t, below, less), NEW order,
         GoesAlong(t, less, order), NEW last, EndsWell(t, below, order, t.top, last),
         NEW y \in Equal(t, order)
  PROVE  last.found
<1> SUFFICES ASSUME ~last.found PROVE FALSE
  OBVIOUS
<1> DEFINE n == last.node
           T == {x \in Nodes(t) : ~(y \in below[x] /\ n \in below[x])}
<1>1. /\ n \in Nodes(t) /\ order[n] # 0 /\ t.at[n][SideTo(order, n)] = NULL
      /\ \A z \in Nodes(t), side \in Sides :
           n \in below[t.at[z][side]] => side = SideTo(order, z) /\ order[z] # 0
  <2>1. below[t.top] = Nodes(t)
    BY DEF Search, IsSearchTree
  <2> QED BY <2>1 DEF EndsWell
<1>2. y \in Nodes(t) /\ order[y] = 0 /\ below[NULL] = {}
  BY DEF Equal, Search, IsSearchTree
<1> HIDE DEF n
<1>3. ASSUME NEW x \in Nodes(t), NEW side \in Sides, y \in below[t.at[x][side]]
      PROVE  side = SideTo(order, x)
  <2>1. "left" \in Sides /\ Opposite("left") = "right" /\ Sides = {"left", "right"}
    BY DEF Sides, Opposite
  <2>2. Parted(t, below, less, x, "left")
    BY <2>1, KidIs
  <2>3. side = "left" => <<y, x>> \in less
    BY <1>3, <2>2 DEF Parted, Apart
  <2>4. side = "right" => <<x, y>> \in less
    BY <1>3, <2>1, <2>2 DEF Parted, Apart
  <2>5. side = "left" => order[x] < 0
    BY <2>3 DEF GoesAlong
  <2>6. side = "right" => ~(order[x] < 0)
    BY <2>4 DEF GoesAlong
  <2> QED BY <2>1, <2>5, <2>6 DEF SideTo
<1>4. ASSUME NEW x \in Nodes(t), \A side \in Sides : t.at[x][side] # NULL => t.at[x][side] \in T,
             y \in below[x], n \in below[x]
      PROVE  FALSE
  <2> DEFINE s == SideTo(order, x)
  <2>1. "left" \in Sides /\ Opposite("left") = "right" /\ Sides = {"left", "right"}
    BY DEF Sides, Opposite
  <2>2. below[x] = {x} \cup below[t.at[x].left] \cup below[t.at[x].right]
    BY <2>1, KidIs DEF Parted
  <2>3. s \in Sides
    BY DEF SideTo, Sides
  <2>4. n # x => n \in below[t.at[x][s]] /\ order[x] # 0
    BY <1>1, <1>4, <2>1, <2>2
  <2>5. y # x => y \in below[t.at[x][s]]
    BY <1>3, <1>4, <2>1, <2>2
  <2> HIDE DEF s
  <2>6. y # x
    BY <1>1, <1>2, <2>4
  <2>7. t.at[x][s] # NULL
    BY <1>2, <2>5, <2>6
  <2>8. n # x
    BY <1>1, <2>7 DEF s
  <2> QED BY <1>4, <2>3, <2>4, <2>5, <2>6, <2>7, <2>8
<1>5. Nodes(t) \subseteq T
  <2>1. \A x \in Nodes(t) : (\A side \in Sides : t.at[x][side] # NULL => t.at[x][side] \in T) => x \in T
    BY <1>4
  <2> HIDE DEF T
  <2> QED BY <2>1, SubtreeInduction
<1>6. t.top \in Nodes(t) /\ below[t.top] = Nodes(t)
  BY <1>2 DEF Search, IsSearchTree, IsTree, Places
<1> QED BY <1>1, <1>2, <1>5, <1>6

(* DSK_RBTREE_LOOKUP_COMPARATOR returns a node that compares equal, and    *)
(* NULL only if there is none.                                             *)
THEOREM LookupFinds ==
  ASSUME NEW t, NEW less, Balanced(t, less), NEW order, GoesAlong(t, less, order)
  PROVE  IF Equal(t, order) = {} THEN Lookup(t, order) = NULL
         ELSE Lookup(t, order) \in Equal(t, order)
<1>1. PICK below : Search(t, below, less)
  BY DEF Balanced
<1>2. NULL \notin Nodes(t)
  BY <1>1 DEF Search, IsTree
<1>3. CASE t.top = NULL
  <2>1. Nodes(t) = {}
    BY <1>1, <1>3 DEF Search, IsSearchTree
  <2> QED BY <1>3, <2>1 DEF Lookup, Equal
<1>4. CASE t.top # NULL
  <2> DEFINE last == Descend(t, order)
  <2>1. EndsWell(t, below, order, t.top, last)
    BY <1>1, <1>4, DescentEnds
  <2>2. Lookup(t, order) = IF last.found THEN last.node ELSE NULL
    BY <1>4 DEF Lookup
  <2> HIDE DEF last
  <2>3. last.found => last.node \in Equal(t, order)
    BY <2>1 DEF EndsWell, Equal
  <2>4. Equal(t, order) # {} => last.found
    BY <1>1, <2>1, DescentFinds
  <2> QED BY <2>2, <2>3, <2>4
<1> QED BY <1>3, <1>4

-----------------------------------------------------------------------------
(* An insertion.                                                           *)

(* u is t with x hanging from the node n as a red leaf.                    *)
Leaf(own) == [left |-> NULL, right |-> NULL, parent |-> NULL, is_red |-> FALSE, entry |-> own]
Grown(t, x, own) ==
  [t EXCEPT !.at = [y \in Nodes(t) \cup {x} |-> IF y = x THEN Leaf(own) ELSE t.at[y]]]
WithLeaf(t, x, own, n, side, u) ==
  /\ IsForm(u) /\ Nodes(u) = Nodes(t) \cup {x} /\ u.top = t.top
  /\ u.at[x].left = NULL /\ u.at[x].right = NULL /\ u.at[x].parent = n
  /\ u.at[x].is_red = TRUE /\ u.at[x].entry = own
  /\ u.at[n][side] = x
  /\ \A z \in Nodes(t), g \in Fields : ~(z = n /\ g = side) => u.at[z][g] = t.at[z][g]

LEMMA GrownIs ==
  ASSUME NEW t, IsForm(t), NEW x, x \notin Nodes(t), NEW own,
         NEW u, u = Grown(t, x, own)
  PROVE  /\ IsForm(u) /\ Nodes(u) = Nodes(t) \cup {x} /\ u.top = t.top
         /\ u.at[x] = Leaf(own) /\ \A z \in Nodes(t) : u.at[z] = t.at[z]
<1> DEFINE at == [y \in Nodes(t) \cup {x} |-> IF y = x THEN Leaf(own) ELSE t.at[y]]
<1>1. u = [top |-> t.top, at |-> at]
  BY DEF Grown, IsForm
<1>2. /\ DOMAIN at = Nodes(t) \cup {x} /\ at[x] = Leaf(own)
      /\ \A z \in Nodes(t) : at[z] = t.at[z]
      /\ at = [z \in Nodes(t) \cup {x} |-> at[z]]
  OBVIOUS
<1> HIDE DEF at
<1>3. u.top = t.top /\ u.at = at
  BY <1>1
<1>4. Nodes(u) = Nodes(t) \cup {x}
  BY <1>2, <1>3 DEF Nodes
<1>5. Leaf(own) = [f \in Fields |-> Leaf(own)[f]]
  BY DEF Leaf, Fields
<1>6. ASSUME NEW z \in Nodes(u) PROVE u.at[z] = [f \in Fields |-> u.at[z][f]]
  <2>1. CASE z = x
    BY <1>2, <1>3, <1>5, <2>1
  <2>2. CASE z # x
    BY <1>2, <1>3, <1>4, <2>2 DEF IsForm
  <2> QED BY <2>1, <2>2
<1>7. u = [top |-> u.top, at |-> u.at]
  BY <1>1, <1>3
<1>8. u.at = [z \in Nodes(u) |-> u.at[z]]
  <2>1. at = [z \in Nodes(u) |-> at[z]]
    BY ONLY <1>2, <1>4
  <2> QED BY ONLY <1>3, <2>1
<1>9. IsForm(u)
  BY <1>6, <1>7, <1>8 DEF IsForm
<1> QED BY <1>2, <1>3, <1>4, <1>9

LEMMA LeafHangs ==
  ASSUME NEW t, IsForm(t), NEW x, x \notin Nodes(t), NEW own,
         NEW n \in Nodes(t), NEW side \in Sides,
         NEW u, u = Paint(Link(Link(Grown(t, x, own), x, "parent", n), n, side, x), x, TRUE)
  PROVE  WithLeaf(t, x, own, n, side, u)
<1> DEFINE t0 == Grown(t, x, own)
           t1 == Link(t0, x, "parent", n)
           t2 == Link(t1, n, side, x)
<1>1. /\ IsForm(t0) /\ Nodes(t0) = Nodes(t) \cup {x} /\ t0.top = t.top
      /\ t0.at[x] = Leaf(own) /\ \A z \in Nodes(t) : t0.at[z] = t.at[z]
  BY GrownIs
<1>2. u = Paint(t2, x, TRUE)
  OBVIOUS
<1>3. /\ side \in Fields /\ {"left", "right", "parent", "is_red", "entry"} \subseteq Fields
      /\ side # "parent" /\ side # "is_red"
  BY SidesAre DEF Fields
<1> HIDE DEF t0
<1>4. Altered(t0, x, "parent", n, t1)
  BY <1>1, <1>3, LinkAlters
<1> HIDE DEF t1
<1>5. Altered(t1, n, side, x, t2)
  <2>1. IsForm(t1) /\ n \in Nodes(t1)
    BY <1>1, <1>4 DEF Altered
  <2> QED BY <1>3, <2>1, LinkAlters DEF t2
<1> HIDE DEF t2
<1>6. Altered(t2, x, "is_red", TRUE, u)
  <2>1. IsForm(t2) /\ x \in Nodes(t2)
    BY <1>1, <1>4, <1>5 DEF Altered
  <2> QED BY <1>2, <2>1, PaintAlters
<1>7. ASSUME NEW z \in Nodes(t) \cup {x}, NEW g \in Fields
      PROVE  u.at[z][g] = IF z = x /\ g = "is_red" THEN TRUE
                          ELSE IF z = n /\ g = side THEN x
                          ELSE IF z = x /\ g = "parent" THEN n ELSE t0.at[z][g]
  <2>1. z \in Nodes(t0) /\ z \in Nodes(t1) /\ z \in Nodes(t2)
    BY <1>1, <1>4, <1>5 DEF Altered
  <2>2. t1.at[z][g] = IF z = x /\ g = "parent" THEN n ELSE t0.at[z][g]
    BY <1>4, <2>1 DEF Altered
  <2>3. t2.at[z][g] = IF z = n /\ g = side THEN x ELSE t1.at[z][g]
    BY <1>5, <2>1 DEF Altered
  <2>4. u.at[z][g] = IF z = x /\ g = "is_red" THEN TRUE ELSE t2.at[z][g]
    BY <1>6, <2>1 DEF Altered
  <2> QED BY ONLY <2>2, <2>3, <2>4
<1>8. IsForm(u) /\ Nodes(u) = Nodes(t) \cup {x} /\ u.top = t.top
  BY <1>1, <1>4, <1>5, <1>6 DEF Altered
<1>9. /\ t0.at[x]["left"] = NULL /\ t0.at[x]["right"] = NULL /\ t0.at[x]["entry"] = own
  BY <1>1 DEF Leaf
<1>10. /\ u.at[x]["left"] = NULL /\ u.at[x]["right"] = NULL /\ u.at[x]["entry"] = own
       /\ u.at[x]["parent"] = n /\ u.at[x]["is_red"] = TRUE
  <2>1. x # n
    OBVIOUS
  <2> QED BY <1>3, <1>7, <1>9, <2>1
<1>11. u.at[n][side] = x
  <2>1. x # n
    OBVIOUS
  <2> QED BY <1>3, <1>7, <2>1
<1>12. ASSUME NEW z \in Nodes(t), NEW g \in Fields, ~(z = n /\ g = side)
       PROVE  u.at[z][g] = t.at[z][g]
  <2>1. z # x /\ z \in Nodes(t) \cup {x}
    OBVIOUS
  <2>2. u.at[z][g] = IF z = x /\ g = "is_red" THEN TRUE
                     ELSE IF z = n /\ g = side THEN x
                     ELSE IF z = x /\ g = "parent" THEN n ELSE t0.at[z][g]
    BY <1>7, <2>1
  <2>3. t0.at[z] = t.at[z]
    BY <1>1
  <2> QED BY ONLY <1>12, <2>1, <2>2, <2>3
<1> QED BY <1>8, <1>10, <1>11, <1>12 DEF WithLeaf

(* The place under n is free, and x belongs there.                         *)
Belongs(t, below, less, x, n, side) ==
  /\ n \in Nodes(t) /\ side \in Sides /\ t.at[n][side] = NULL
  /\ Apart(less, side, x, n)
  /\ \A z \in Nodes(t), s \in Sides : n \in below[t.at[z][s]] => Apart(less, s, x, z)

LEMMA LeafKeeps ==
  ASSUME NEW t, NEW below, NEW less, Search(t, below, less),
         NEW x, x \notin Nodes(t), x # NULL, NEW own, NEW n, NEW side,
         Belongs(t, below, less, x, n, side), NEW u, WithLeaf(t, x, own, n, side, u)
  PROVE  \E b : Search(u, b, less)
<1> DEFINE N == Nodes(t)
           b == [z \in Places(t) \cup {x} |->
                   IF z = x THEN {x} ELSE IF n \in below[z] THEN below[z] \cup {x} ELSE below[z]]
<1>1. /\ IsTree(t) /\ below \in [Places(t) -> SUBSET N] /\ below[NULL] = {} /\ below[t.top] = N
      /\ NULL \notin N /\ t.top \in Places(t) /\ n \in N /\ side \in Sides /\ t.at[n][side] = NULL
      /\ NULL \in Places(t) /\ n \in Places(t)
  BY DEF Search, IsSearchTree, IsTree, Belongs, Places
<1>2. /\ IsForm(u) /\ Nodes(u) = N \cup {x} /\ u.top = t.top
      /\ u.at[x].left = NULL /\ u.at[x].right = NULL /\ u.at[x].parent = n
      /\ u.at[x].is_red = TRUE /\ u.at[n][side] = x
      /\ \A z \in N, g \in Fields : ~(z = n /\ g = side) => u.at[z][g] = t.at[z][g]
  BY DEF WithLeaf
<1>3. Places(u) = Places(t) \cup {x}
  BY <1>2 DEF Places
<1>4. /\ {"left", "right", "parent", "is_red"} \subseteq Fields /\ Links = {"left", "right", "parent"}
      /\ Sides = {"left", "right"} /\ side \notin {"parent", "is_red"}
      /\ Opposite("left") = "right" /\ Opposite("right") = "left"
      /\ Opposite(side) \in Sides /\ Opposite(side) # side /\ Sides \subseteq Fields
  <2>1. Opposite(side) \in Sides /\ Opposite(side) # side
    BY <1>1, SidesAre
  <2> QED BY <1>1, <2>1 DEF Fields, Links, Sides, Opposite
<1>5. \A z \in N : u.at[z]["parent"] = t.at[z]["parent"] /\ u.at[z]["is_red"] = t.at[z]["is_red"]
  BY <1>2, <1>4
<1>6. IsTree(u)
  <2>1. IsFiniteSet(Nodes(u))
    BY <1>1, <1>2, FS_AddElement DEF IsTree
  <2>2. ASSUME NEW z \in Nodes(u) PROVE u.at[z].is_red \in BOOLEAN
    BY <1>1, <1>2, <1>5 DEF IsTree
  <2>3. ASSUME NEW z \in Nodes(u), NEW f \in Links PROVE u.at[z][f] \in Places(u)
    <3>1. CASE z = x
      BY <1>1, <1>2, <1>3, <1>4, <3>1
    <3>2. CASE z # x
      <4>1. z \in N /\ t.at[z][f] \in Places(t) /\ f \in Fields
        BY <1>1, <1>2, <1>4, <3>2 DEF IsTree
      <4>2. CASE z = n /\ f = side
        BY <1>2, <1>3, <4>2
      <4>3. CASE ~(z = n /\ f = side)
        BY <1>2, <1>3, <4>1, <4>3
      <4> QED BY <4>2, <4>3
    <3> QED BY <3>1, <3>2
  <2>4. NULL \notin Nodes(u) /\ u.top \in Places(u)
    BY <1>1, <1>2, <1>3
  <2> QED BY <1>2, <2>1, <2>2, <2>3, <2>4 DEF IsTree
<1>7. /\ b[x] = {x}
      /\ \A z \in Places(t) : b[z] = IF n \in below[z] THEN below[z] \cup {x} ELSE below[z]
  <2>1. \A z \in Places(t) : z # x
    BY DEF Places
  <2> QED BY <2>1
<1>8. b \in [Places(u) -> SUBSET Nodes(u)]
  <2>1. \A z \in Places(t) \cup {x} : b[z] \in SUBSET (N \cup {x})
    BY <1>1, <1>7
  <2>2. b = [z \in Places(t) \cup {x} |-> b[z]]
    OBVIOUS
  <2> HIDE DEF b
  <2>3. b \in [Places(t) \cup {x} -> SUBSET (N \cup {x})]
    BY <2>1, <2>2
  <2> QED BY <1>2, <1>3, <2>3
<1> HIDE DEF b
<1>9. b[NULL] = {} /\ b[u.top] = Nodes(u)
  <2>1. b[NULL] = IF n \in below[NULL] THEN below[NULL] \cup {x} ELSE below[NULL]
    BY ONLY <1>1, <1>7
  <2>2. b[t.top] = IF n \in below[t.top] THEN below[t.top] \cup {x} ELSE below[t.top]
    BY ONLY <1>1, <1>7
  <2> QED BY ONLY <1>1, <1>2, <2>1, <2>2
<1>10. Parted(u, b, less, x, "left") /\ HasParent(u, x)
  <2>1. Parted(u, b, less, x, "left")
    BY <1>2, <1>4, <1>7, <1>9 DEF Parted
  <2>2. x # u.top /\ n # NULL
    BY <1>1, <1>2 DEF Places
  <2> QED BY <1>1, <1>2, <2>1, <2>2 DEF HasParent
<1>11. ASSUME NEW z \in N PROVE HasParent(u, z)
  <2> DEFINE q == t.at[z]["parent"]
  <2>1. HasParent(t, z) /\ q \in Places(t)
    BY <1>1, KidIs
  <2>2. u.at[z]["parent"] = q
    BY <1>5
  <2>3. ASSUME q # NULL PROVE \E s \in Sides : u.at[q][s] = z
    <3>1. PICK s \in Sides : t.at[q][s] = z
      BY <2>1, <2>3 DEF HasParent
    <3>2. q \in N /\ s \in Fields /\ ~(q = n /\ s = side)
      BY <1>1, <1>4, <2>1, <2>3, <3>1 DEF Places
    <3> HIDE DEF q
    <3>3. u.at[q][s] = z
      BY <1>2, <3>1, <3>2
    <3> QED BY <3>3
  <2> QED BY <1>2, <2>1, <2>2, <2>3 DEF HasParent
<1>12. ASSUME NEW z \in N PROVE \E s \in Sides : Parted(u, b, less, z, s)
  <2>1. CASE z = n
    <3> DEFINE o == t.at[n][Opposite(side)]
    <3>1. /\ Parted(t, below, less, n, side) /\ o \in Places(t)
      BY <1>1, <1>4, KidIs
    <3>2. /\ below[n] = {n} \cup below[o] /\ n \notin below[o]
          /\ \A w \in below[o] : Apart(less, side, n, w)
          /\ o # NULL => t.at[o].parent = n
      BY <1>1, <3>1 DEF Parted
    <3>3. u.at[n][side] = x /\ u.at[n][Opposite(side)] = o
      BY <1>1, <1>2, <1>4
    <3>4. b[n] = below[n] \cup {x} /\ b[o] = below[o] /\ b[x] = {x} /\ x \notin below[o]
      BY <1>1, <1>7, <3>1, <3>2
    <3>5. o # NULL => u.at[o]["parent"] = n
      <4>1. o # NULL => o \in N /\ t.at[o]["parent"] = n
        BY <3>1, <3>2 DEF Places
      <4> QED BY <1>5, <4>1
    <3>6. Apart(less, side, x, n)
      BY DEF Belongs
    <3> HIDE DEF o
    <3>7. Parted(u, b, less, n, side)
      <4>1. n # x
        BY <1>1
      <4> QED BY ONLY <1>2, <3>2, <3>3, <3>4, <3>5, <3>6, <4>1 DEF Parted
    <3> QED BY <1>1, <2>1, <3>7
  <2>2. CASE z # n
    <3> DEFINE s == "left"
               k == t.at[z][s]
               o == t.at[z][Opposite(s)]
    <3>1. s \in Sides /\ Opposite(s) \in Sides /\ s \in Fields /\ Opposite(s) \in Fields
      BY <1>4
    <3> HIDE DEF s
    <3>2. Parted(t, below, less, z, s) /\ k \in Places(t) /\ o \in Places(t) /\ z \in Places(t)
      BY <1>1, <3>1, KidIs DEF Places
    <3>3. /\ below[z] = {z} \cup below[k] \cup below[o]
          /\ z \notin below[k] /\ z \notin below[o] /\ below[k] \cap below[o] = {}
          /\ \A w \in below[k] : Apart(less, s, w, z)
          /\ \A w \in below[o] : Apart(less, s, z, w)
          /\ k # NULL => t.at[k].parent = z
          /\ o # NULL => t.at[o].parent = z
      BY <3>2 DEF Parted
    <3>4. /\ n \in below[k] => Apart(less, s, x, z)
          /\ n \in below[o] => Apart(less, s, z, x)
      <4>1. n \in below[o] => Apart(less, Opposite(s), x, z)
        BY <3>1 DEF Belongs
      <4>2. Apart(less, Opposite(s), x, z) => Apart(less, s, z, x)
        BY <3>1 DEF Apart, Opposite, Sides
      <4> QED BY <3>1, <4>1, <4>2 DEF Belongs
    <3>5. u.at[z][s] = k /\ u.at[z][Opposite(s)] = o
      BY <1>2, <2>2, <3>1
    <3>6. /\ k # NULL => u.at[k]["parent"] = z
          /\ o # NULL => u.at[o]["parent"] = z
      BY <1>5, <3>2, <3>3 DEF Places
    <3> HIDE DEF k, o
    <3>7. /\ b[z] = IF n \in below[z] THEN below[z] \cup {x} ELSE below[z]
          /\ b[k] = IF n \in below[k] THEN below[k] \cup {x} ELSE below[k]
          /\ b[o] = IF n \in below[o] THEN below[o] \cup {x} ELSE below[o]
          /\ x \notin below[k] /\ x \notin below[o] /\ x # z
      BY <1>1, <1>7, <3>2
    <3>8. b[z] = {z} \cup b[k] \cup b[o] /\ z \notin b[k] /\ z \notin b[o] /\ b[k] \cap b[o] = {}
      BY ONLY <2>2, <3>3, <3>7
    <3>9. /\ \A w \in b[k] : Apart(less, s, w, z)
          /\ \A w \in b[o] : Apart(less, s, z, w)
      BY ONLY <3>3, <3>4, <3>7
    <3>10. Parted(u, b, less, z, s)
      BY ONLY <3>5, <3>6, <3>8, <3>9 DEF Parted
    <3> QED BY <3>1, <3>10
  <2> QED BY <2>1, <2>2
<1>13. ASSUME NEW z \in Nodes(u) PROVE Hangs(u, b, z) /\ Sorted(u, b, less, z)
  <2>1. \E s \in Sides : Parted(u, b, less, z, s)
    BY <1>2, <1>4, <1>10, <1>12
  <2>2. HasParent(u, z)
    BY <1>2, <1>10, <1>11
  <2> QED BY <2>1, <2>2, PartedIs
<1>14. Search(u, b, less)
  BY <1>6, <1>8, <1>9, <1>13 DEF Search, IsSearchTree
<1> QED BY <1>14

LEMMA LeafMends ==
  ASSUME NEW t, NEW below, NEW black, NEW less, Search(t, below, less),
         black \in [Places(t) -> Int], IsBalanced(t, black),
         NEW x, x \notin Nodes(t), x # NULL, NEW own, NEW n, NEW side,
         Belongs(t, below, less, x, n, side), NEW u, WithLeaf(t, x, own, n, side, u)
  PROVE  \E b, h : Mending(u, b, h, less, x)
<1>1. PICK b : Search(u, b, less)
  BY LeafKeeps
<1>2. /\ NULL \notin Nodes(t) /\ n \in Nodes(t) /\ side \in Sides /\ t.at[n][side] = NULL
      /\ t.top \in Nodes(t)
  BY DEF Belongs, Search, IsTree, IsSearchTree, Places
<1>3. /\ Nodes(u) = Nodes(t) \cup {x} /\ u.top = t.top
      /\ u.at[x].left = NULL /\ u.at[x].right = NULL /\ u.at[x].parent = n
      /\ u.at[x].is_red = TRUE /\ u.at[n][side] = x
      /\ \A z \in Nodes(t), g \in Fields : ~(z = n /\ g = side) => u.at[z][g] = t.at[z][g]
  BY DEF WithLeaf
<1>4. /\ Sides = {side, Opposite(side)} /\ Opposite(side) # side /\ Sides = {"left", "right"}
      /\ {"left", "right", "parent", "is_red"} \subseteq Fields /\ side # "parent" /\ side # "is_red"
      /\ Opposite(side) \in Fields
  BY <1>2, SidesAre DEF Sides, Fields
<1>5. \A z \in Nodes(t) : IsRed(u, z) <=> IsRed(t, z)
  <2>1. \A z \in Nodes(t) : u.at[z]["is_red"] = t.at[z]["is_red"]
    BY <1>3, <1>4
  <2> QED BY <2>1 DEF IsRed
<1>6. IsRed(u, x) /\ ~IsRed(u, u.top)
  <2>1. ~IsRed(t, t.top)
    BY DEF IsBalanced
  <2> QED BY <1>2, <1>3, <1>5, <2>1 DEF IsRed
<1> DEFINE h == [z \in Places(t) \cup {x} |-> IF z = x THEN 0 ELSE black[z]]
<1>7. /\ Places(u) = Places(t) \cup {x} /\ h[x] = 0 /\ \A z \in Places(t) : h[z] = black[z]
  <2>1. \A z \in Places(t) : z # x
    BY DEF Places
  <2> QED BY <1>3, <2>1 DEF Places
<1>8. h \in [Places(u) -> Int]
  <2>1. \A z \in Places(t) \cup {x} : h[z] \in Int
    BY <1>7
  <2>2. h = [z \in Places(t) \cup {x} |-> h[z]]
    OBVIOUS
  <2> HIDE DEF h
  <2> QED BY <1>7, <2>1, <2>2
<1> HIDE DEF h
<1>9. h[NULL] = 0 /\ black[NULL] = 0
  BY <1>7 DEF IsBalanced, Places
<1>10. ASSUME NEW z \in Nodes(u) PROVE Counted(u, h, z)
  <2>1. CASE z = x
    BY <1>3, <1>6, <1>7, <1>9, <2>1 DEF Counted
  <2>2. CASE z # x
    <3>1. z \in Nodes(t) /\ z \in Places(t)
      BY <1>3, <2>2 DEF Places
    <3>2. /\ t.at[z].left \in Places(t) /\ t.at[z].right \in Places(t)
      BY <3>1 DEF Search, IsTree, Links
    <3>3. Counted(t, black, z)
      <4>1. Coloured(t, black, z)
        BY <3>1 DEF IsBalanced
      <4>2. IsRed(t, z) <=> t.at[z].is_red
        BY <1>2, <3>1 DEF IsRed
      <4> QED BY <4>1, <4>2 DEF Coloured, Counted
    <3>4. CASE z = n
      <4> DEFINE o == t.at[n][Opposite(side)]
      <4>1. CountedFrom(t, black, n, side)
        BY <1>2, <3>3, <3>4, CountedIs
      <4>2. u.at[n][Opposite(side)] = o /\ o \in Places(t)
        BY <1>2, <1>3, <1>4, <3>2, <3>4
      <4>3. black[o] = 0 /\ black[n] = 0 + (IF IsRed(t, n) THEN 0 ELSE 1)
        BY ONLY <1>2, <1>9, <4>1 DEF CountedFrom
      <4>4. h[o] = black[o] /\ h[x] = 0 /\ h[n] = black[n]
        BY <1>7, <3>1, <3>4, <4>2
      <4>5. IsRed(u, n) <=> IsRed(t, n)
        BY <1>2, <1>5
      <4> HIDE DEF o
      <4>6. CountedFrom(u, h, n, side)
        BY ONLY <1>3, <4>2, <4>3, <4>4, <4>5 DEF CountedFrom
      <4> QED BY <1>2, <3>4, <4>6, CountedIs
    <3>5. CASE z # n
      <4>1. u.at[z]["left"] = t.at[z]["left"] /\ u.at[z]["right"] = t.at[z]["right"]
        BY <1>3, <1>4, <3>1, <3>5
      <4>2. /\ h[t.at[z].left] = black[t.at[z].left] /\ h[t.at[z].right] = black[t.at[z].right]
            /\ h[z] = black[z]
        BY <1>7, <3>1, <3>2
      <4>3. IsRed(u, z) <=> IsRed(t, z)
        BY <1>5, <3>1
      <4> QED BY ONLY <3>3, <4>1, <4>2, <4>3 DEF Counted
    <3> QED BY <3>4, <3>5
  <2> QED BY <2>1, <2>2
<1>11. ASSUME NEW z \in Nodes(u), IsRed(u, z), IsRed(u, u.at[z].parent) PROVE z = x
  <2> SUFFICES ASSUME z # x PROVE FALSE
    OBVIOUS
  <2> DEFINE q == t.at[z]["parent"]
  <2>1. z \in Nodes(t) /\ IsRed(t, z)
    BY <1>3, <1>5, <1>11
  <2>2. u.at[z]["parent"] = q
    BY <1>3, <1>4, <2>1
  <2>3. q # NULL /\ t.at[z].parent = q
    BY <1>11, <2>2 DEF IsRed
  <2>4. q \in Nodes(t) /\ SideOf(t, z) \in Sides /\ t.at[q][SideOf(t, z)] = z
    BY <2>1, <2>3, ParentIs
  <2>5. IsRed(t, q)
    BY <1>5, <1>11, <2>2, <2>4
  <2>6. Coloured(t, black, q)
    BY <2>4 DEF IsBalanced
  <2> HIDE DEF q
  <2> QED BY <2>1, <2>4, <2>5, <2>6 DEF Coloured
<1>12. Mending(u, b, h, less, x)
  BY <1>1, <1>3, <1>6, <1>8, <1>9, <1>10, <1>11 DEF Mending, Even, RedPairsAt
<1> QED BY <1>12

(* The comparator of an insertion puts x among the nodes of the tree.      *)
Sorts(t, less, order, x) ==
  \A z \in Nodes(t) : /\ order[z] < 0 => <<x, z>> \in less
                      /\ ~(order[z] < 0) /\ order[z] # 0 => <<z, x>> \in less

(* DSK_RBTREE_INSERT keeps a red-black tree: it adds the node unless one   *)
(* that compares equal is there.                                           *)
THEOREM InsertKeeps ==
  ASSUME NEW t, NEW less, Balanced(t, less), IsOrder(less),
         NEW x, x \notin Nodes(t), x # NULL, NEW own, NEW order,
         Sorts(t, less, order, x), NEW u, u = Insert(t, x, own, order)
  PROVE  /\ Balanced(u, less)
         /\ \A z \in Nodes(t) : z \in Nodes(u) /\ u.at[z].entry = t.at[z].entry
         /\ Equal(t, order) = {} => Nodes(u) = Nodes(t) \cup {x} /\ u.at[x].entry = own
         /\ Nodes(u) \subseteq Nodes(t) \cup {x}
<1>1. PICK below, black : /\ Search(t, below, less)
                          /\ black \in [Places(t) -> Int] /\ IsBalanced(t, black)
  BY DEF Balanced
<1>2. IsTree(t) /\ IsForm(t) /\ NULL \notin Nodes(t)
  BY <1>1 DEF Search, IsTree
<1> DEFINE grown == Grown(t, x, own)
           last == Descend(t, order)
<1>3. u = IF t.top = NULL THEN [grown EXCEPT !.top = x]
          ELSE IF last.found THEN t
          ELSE FixUp(Paint(Link(Link(grown, x, "parent", last.node), last.node, last.side, x),
                           x, TRUE), x)
  BY DEF Insert, Grown, Leaf
<1>4. CASE t.top = NULL
  <2>1. Nodes(t) = {}
    BY <1>1, <1>4 DEF Search, IsSearchTree
  <2>2. /\ IsForm(grown) /\ Nodes(grown) = {x} /\ grown.at[x] = Leaf(own)
    <3>1. Nodes(t) \cup {x} = {x}
      BY <2>1
    <3>2. IsForm(grown) /\ Nodes(grown) = Nodes(t) \cup {x} /\ grown.at[x] = Leaf(own)
      BY <1>2, GrownIs
    <3> QED BY ONLY <3>1, <3>2
  <2>3. u = [grown EXCEPT !.top = x]
    BY <1>3, <1>4
  <2> HIDE DEF grown
  <2>4. IsForm(u) /\ u.top = x /\ Nodes(u) = {x} /\ u.at[x] = Leaf(own)
    BY <2>2, <2>3, TopAlters
  <2>5. /\ u.at[x].left = NULL /\ u.at[x].right = NULL /\ u.at[x].parent = NULL
        /\ u.at[x].is_red = FALSE /\ u.at[x].entry = own
    BY <2>4 DEF Leaf
  <2>6. Places(u) = {x, NULL}
    BY <2>4 DEF Places
  <2> DEFINE b == [z \in {x, NULL} |-> IF z = x THEN {x} ELSE {}]
             h == [z \in {x, NULL} |-> IF z = x THEN 1 ELSE 0]
  <2>7. b[x] = {x} /\ b[NULL] = {} /\ b \in [Places(u) -> SUBSET Nodes(u)]
    BY <2>4, <2>6
  <2>8. h[x] = 1 /\ h[NULL] = 0 /\ h \in [Places(u) -> Int]
    BY <2>6
  <2> HIDE DEF b, h
  <2>9. IsTree(u)
    <3>1. IsFiniteSet({x})
      BY FS_Singleton
    <3>2. \A f \in Links : u.at[x][f] = NULL
      BY <2>5 DEF Links
    <3> QED BY <2>4, <2>5, <2>6, <3>1, <3>2 DEF IsTree
  <2>10. Hangs(u, b, x) /\ Sorted(u, b, less, x)
    <3>1. \A s \in Sides : u.at[x][s] = NULL
      BY <2>5 DEF Sides
    <3> QED BY <2>4, <2>5, <2>7, <3>1 DEF Hangs, Sorted
  <2>11. Search(u, b, less)
    BY <2>4, <2>7, <2>9, <2>10 DEF Search, IsSearchTree
  <2>12. IsBalanced(u, h)
    <3>1. ~IsRed(u, x)
      BY <2>5 DEF IsRed
    <3> QED BY <2>4, <2>5, <2>8, <3>1 DEF IsBalanced, Coloured
  <2>13. Balanced(u, less)
    BY <2>8, <2>11, <2>12 DEF Balanced
  <2> QED BY <2>1, <2>4, <2>5, <2>13
<1>5. CASE t.top # NULL /\ last.found
  <2>1. u = t
    BY <1>3, <1>5
  <2>2. last.node \in Equal(t, order)
    BY <1>1, <1>5, DescentEnds DEF EndsWell, Equal
  <2> QED BY <2>1, <2>2
<1>6. CASE t.top # NULL /\ ~last.found
  <2> DEFINE n == last.node
             side == last.side
             v == Paint(Link(Link(grown, x, "parent", n), n, side, x), x, TRUE)
  <2>1. EndsWell(t, below, order, t.top, last)
    BY <1>1, <1>6, DescentEnds
  <2>2. u = FixUp(v, x)
    BY <1>3, <1>6
  <2> HIDE DEF last
  <2>3. /\ n \in Nodes(t) /\ side = SideTo(order, n) /\ side \in Sides
        /\ order[n] # 0 /\ t.at[n][side] = NULL
        /\ \A z \in Nodes(t), s \in Sides :
             n \in below[t.at[z][s]] => s = SideTo(order, z) /\ order[z] # 0
    <3>1. below[t.top] = Nodes(t)
      BY <1>1 DEF Search, IsSearchTree
    <3>2. SideTo(order, n) \in Sides
      BY DEF SideTo, Sides
    <3> QED BY <1>6, <2>1, <3>1, <3>2 DEF EndsWell
  <2>4. WithLeaf(t, x, own, n, side, v)
    <3> HIDE DEF n, side
    <3> QED BY <1>2, <2>3, LeafHangs
  <2> HIDE DEF v, n, side, grown
  <2>5. ASSUME NEW z \in Nodes(t), order[z] # 0 PROVE Apart(less, SideTo(order, z), x, z)
    BY <2>5 DEF Sorts, Apart, SideTo
  <2>6. Belongs(t, below, less, x, n, side)
    BY <2>3, <2>5 DEF Belongs
  <2>7. \E b, h : Mending(v, b, h, less, x)
    BY <1>1, <2>4, <2>6, LeafMends
  <2>8. Balanced(u, less) /\ SameNodes(v, u)
    BY <2>2, <2>7, FixUpMends
  <2>9. /\ Nodes(v) = Nodes(t) \cup {x} /\ v.at[x].entry = own
        /\ \A z \in Nodes(t) : v.at[z].entry = t.at[z].entry
    <3>1. "entry" \in Fields /\ side # "entry"
      BY <2>3, SidesAre DEF Fields
    <3>2. \A z \in Nodes(t) : v.at[z]["entry"] = t.at[z]["entry"]
      BY <2>4, <3>1 DEF WithLeaf
    <3> QED BY <2>4, <3>2 DEF WithLeaf
  <2> QED BY <2>8, <2>9 DEF SameNodes
<1> QED BY <1>4, <1>5, <1>6

-----------------------------------------------------------------------------
(* What hangs below the nodes of a search tree, and how many of them are   *)
(* black, are the recursive functions of the model.                        *)

LEMMA SubtreesAre ==
  ASSUME NEW t, NEW below, NEW less, Search(t, below, less)
  PROVE  Subtrees(t) = below
<1> DEFINE Body(f) == [x \in Places(t) |->
             IF x = NULL THEN {} ELSE {x} \cup f[t.at[x].left] \cup f[t.at[x].right]]
           sub == CHOOSE f : f = Body(f)
<1>1. Subtrees(t) = sub
  BY DEF Subtrees
<1>2. below \in [Places(t) -> SUBSET Nodes(t)] /\ below[NULL] = {} /\ NULL \notin Nodes(t)
  BY DEF Search, IsSearchTree, IsTree
<1>3. below = Body(below)
  <2>1. ASSUME NEW x \in Places(t)
        PROVE  below[x] = IF x = NULL THEN {}
                          ELSE {x} \cup below[t.at[x].left] \cup below[t.at[x].right]
    <3>1. CASE x = NULL
      BY <1>2, <3>1
    <3>2. CASE x # NULL
      BY <3>2 DEF Search, IsSearchTree, Hangs, Places
    <3> QED BY <3>1, <3>2
  <2>2. below = [x \in Places(t) |-> below[x]]
    BY <1>2
  <2> QED BY <2>1, <2>2
<1>4. sub = Body(sub)
  <2> HIDE DEF Body
  <2> QED BY <1>3
<1> HIDE DEF sub
<1>5. /\ sub = [x \in Places(t) |-> sub[x]]
      /\ sub[NULL] = {}
      /\ \A x \in Nodes(t) : sub[x] = {x} \cup sub[t.at[x].left] \cup sub[t.at[x].right]
  <2>1. \A x \in Places(t) : sub[x] = IF x = NULL THEN {}
                                      ELSE {x} \cup sub[t.at[x].left] \cup sub[t.at[x].right]
    BY <1>4
  <2>2. sub = [x \in Places(t) |-> sub[x]]
    BY <1>4
  <2> QED BY <1>2, <2>1, <2>2 DEF Places
<1> DEFINE T == {x \in Nodes(t) : sub[x] = below[x]}
<1>6. ASSUME NEW x \in Nodes(t), \A side \in Sides : t.at[x][side] # NULL => t.at[x][side] \in T
      PROVE  x \in T
  <2>1. \A side \in Sides : sub[t.at[x][side]] = below[t.at[x][side]]
    BY <1>2, <1>5, <1>6
  <2>2. sub[t.at[x].left] = below[t.at[x].left] /\ sub[t.at[x].right] = below[t.at[x].right]
    BY <2>1 DEF Sides
  <2>3. below[x] = {x} \cup below[t.at[x].left] \cup below[t.at[x].right]
    BY DEF Search, IsSearchTree, Hangs
  <2> QED BY <1>5, <2>2, <2>3
<1>7. Nodes(t) \subseteq T
  <2> HIDE DEF T
  <2> QED BY <1>6, SubtreeInduction
<1>8. \A x \in Places(t) : sub[x] = below[x]
  BY <1>2, <1>5, <1>7 DEF Places
<1>9. sub = below
  <2>1. below = [x \in Places(t) |-> below[x]]
    BY <1>2
  <2> QED BY <1>5, <1>8, <2>1
<1> QED BY <1>1, <1>9

LEMMA BlackHeightsAre ==
  ASSUME NEW t, NEW below, NEW less, Search(t, below, less),
         NEW black \in [Places(t) -> Int], IsBalanced(t, black)
  PROVE  BlackHeights(t) = black
<1> DEFINE Body(f) == [x \in Places(t) |->
             IF x = NULL THEN 0 ELSE f[t.at[x].left] + (IF t.at[x].is_red THEN 0 ELSE 1)]
           num == CHOOSE f : f = Body(f)
<1>1. BlackHeights(t) = num
  BY DEF BlackHeights
<1>2. black[NULL] = 0 /\ NULL \notin Nodes(t)
  BY DEF Search, IsTree, IsBalanced
<1>3. black = Body(black)
  <2>1. ASSUME NEW x \in Places(t)
        PROVE  black[x] = IF x = NULL THEN 0
                          ELSE black[t.at[x].left] + (IF t.at[x].is_red THEN 0 ELSE 1)
    <3>1. CASE x = NULL
      BY <1>2, <3>1
    <3>2. CASE x # NULL
      BY <3>2 DEF IsBalanced, Coloured, Places
    <3> QED BY <3>1, <3>2
  <2>2. black = [x \in Places(t) |-> black[x]]
    OBVIOUS
  <2> QED BY <2>1, <2>2
<1>4. num = Body(num)
  <2> HIDE DEF Body
  <2> QED BY <1>3
<1> HIDE DEF num
<1>5. /\ num = [x \in Places(t) |-> num[x]]
      /\ num[NULL] = 0
      /\ \A x \in Nodes(t) : num[x] = num[t.at[x].left] + (IF t.at[x].is_red THEN 0 ELSE 1)
  <2>1. \A x \in Places(t) : num[x] = IF x = NULL THEN 0
                                      ELSE num[t.at[x].left] + (IF t.at[x].is_red THEN 0 ELSE 1)
    BY <1>4
  <2>2. num = [x \in Places(t) |-> num[x]]
    BY <1>4
  <2> QED BY <1>2, <2>1, <2>2 DEF Places
<1> DEFINE T == {x \in Nodes(t) : num[x] = black[x]}
<1>6. ASSUME NEW x \in Nodes(t), \A side \in Sides : t.at[x][side] # NULL => t.at[x][side] \in T
      PROVE  x \in T
  <2>1. \A side \in Sides : num[t.at[x][side]] = black[t.at[x][side]]
    BY <1>2, <1>5, <1>6
  <2>2. num[t.at[x].left] = black[t.at[x].left]
    BY <2>1 DEF Sides
  <2>3. black[x] = black[t.at[x].left] + (IF t.at[x].is_red THEN 0 ELSE 1)
    BY DEF IsBalanced, Coloured
  <2> QED BY <1>5, <2>2, <2>3
<1>7. Nodes(t) \subseteq T
  <2> HIDE DEF T
  <2> QED BY <1>6, SubtreeInduction
<1>8. \A x \in Places(t) : num[x] = black[x]
  BY <1>2, <1>5, <1>7 DEF Places
<1>9. num = black
  <2>1. black = [x \in Places(t) |-> black[x]]
    OBVIOUS
  <2> QED BY <1>5, <1>8, <2>1
<1> QED BY <1>1, <1>9

LEMMA BalancedIsRedBlack ==
  ASSUME NEW t, NEW less, Balanced(t, less)
  PROVE  IsRedBlackTree(t, less)
<1>1. PICK below, black : /\ Search(t, below, less)
                          /\ black \in [Places(t) -> Int] /\ IsBalanced(t, black)
  BY DEF Balanced
<1>2. Subtrees(t) = below /\ BlackHeights(t) = black
  BY <1>1, SubtreesAre, BlackHeightsAre
<1> QED BY <1>1, <1>2 DEF IsRedBlackTree, Search

LEMMA EmptyTreeIs ==
  ASSUME NEW less
  PROVE  Balanced(EmptyTree, less) /\ Nodes(EmptyTree) = {}
<1> DEFINE t == EmptyTree
<1>1. t = [top |-> NULL, at |-> [x \in {} |-> NULL]]
  BY DEF EmptyTree
<1> HIDE DEF t
<1>2. t.top = NULL /\ t.at = [x \in {} |-> NULL]
  BY <1>1
<1>3. Nodes(t) = {} /\ Places(t) = {NULL}
  BY <1>2 DEF Nodes, Places
<1>4. IsForm(t)
  <2>1. t = [top |-> t.top, at |-> t.at]
    BY <1>1, <1>2
  <2>2. t.at = [x \in Nodes(t) |-> t.at[x]]
    BY <1>2, <1>3
  <2> QED BY <1>3, <2>1, <2>2 DEF IsForm
<1>5. IsTree(t)
  BY <1>2, <1>3, <1>4, FS_EmptySet DEF IsTree
<1> DEFINE b == [x \in {NULL} |-> {}]
           h == [x \in {NULL} |-> 0]
<1>6. Search(t, b, less)
  BY <1>2, <1>3, <1>5 DEF Search, IsSearchTree
<1>7. h \in [Places(t) -> Int] /\ IsBalanced(t, h)
  BY <1>2, <1>3 DEF IsBalanced, IsRed
<1> HIDE DEF b, h
<1> QED BY <1>3, <1>6, <1>7 DEF Balanced, t

-----------------------------------------------------------------------------
(* A replacement is a change of name.                                      *)

Renamed(old, new, z) == IF z = old THEN new ELSE z
RenamedAll(old, new, S) == IF old \in S THEN (S \ {old}) \cup {new} ELSE S

(* u is t with new for old.                                                *)
Replaced(t, old, new, own, u) ==
  /\ IsForm(u) /\ Nodes(u) = (Nodes(t) \ {old}) \cup {new}
  /\ u.top = Renamed(old, new, t.top)
  /\ \A z \in Nodes(t), f \in Links :
       u.at[Renamed(old, new, z)][f] = Renamed(old, new, t.at[z][f])
  /\ \A z \in Nodes(t) : u.at[Renamed(old, new, z)].is_red = t.at[z].is_red
  /\ \A z \in Nodes(t) : z # old => u.at[z].entry = t.at[z].entry
  /\ u.at[new].entry = own

LEMMA ReplaceCells ==
  ASSUME NEW t, NEW below, NEW less, Search(t, below, less),
         NEW old \in Nodes(t), NEW new, new \notin Nodes(t), new # NULL, NEW own,
         NEW u, u = ReplaceNode(t, old, new, own)
  PROVE  Replaced(t, old, new, own, u)
<1> DEFINE N == Nodes(t)
           links == [t.at[old] EXCEPT !.entry = own]
           at0 == [y \in N \cup {new} |-> IF y = new THEN links ELSE t.at[y]]
           t0 == [t EXCEPT !.at = at0]
           t1 == PutInPlaceOf(t0, old, new)
           at2 == [y \in Nodes(t1) \ {old} |->
                     IF y \in {links.left, links.right}
                     THEN [t1.at[y] EXCEPT !.parent = new] ELSE t1.at[y]]
           p == t.at[old]["parent"]
<1>1. u = [t1 EXCEPT !.at = at2]
  BY DEF ReplaceNode
<1>2. IsForm(t) /\ NULL \notin N /\ p \in Places(t) /\ old # NULL /\ old # new
  BY KidIs DEF Search, IsTree, Sides
<1>3. /\ links = [f \in Fields |-> IF f = "entry" THEN own ELSE t.at[old][f]]
      /\ {"left", "right", "parent", "is_red", "entry"} = Fields
  <2>1. t.at[old] = [f \in Fields |-> t.at[old][f]]
    BY <1>2 DEF IsForm
  <2> QED BY <2>1 DEF Fields
<1> HIDE DEF links
<1>4. /\ links["left"] = t.at[old]["left"] /\ links["right"] = t.at[old]["right"]
      /\ links["parent"] = p /\ links["is_red"] = t.at[old]["is_red"] /\ links["entry"] = own
      /\ links = [f \in Fields |-> links[f]]
  BY <1>3
<1>5. /\ at0[new] = links /\ \A y \in N : at0[y] = t.at[y]
      /\ DOMAIN at0 = N \cup {new} /\ at0 = [y \in N \cup {new} |-> at0[y]]
  OBVIOUS
<1>6. t0 = [top |-> t.top, at |-> at0]
  BY <1>2 DEF IsForm
<1> HIDE DEF at0, t0
<1>7. /\ t0.top = t.top /\ t0.at[new] = links /\ Nodes(t0) = N \cup {new} /\ IsForm(t0)
      /\ \A y \in N : t0.at[y] = t.at[y]
  <2>1. t0.top = t.top /\ t0.at = at0
    BY <1>6
  <2>2. Nodes(t0) = N \cup {new} /\ t0.at[new] = links
    BY <1>5, <2>1 DEF Nodes
  <2>3. t0 = [top |-> t0.top, at |-> t0.at]
    BY <1>6, <2>1
  <2>4. t0.at = [y \in Nodes(t0) |-> t0.at[y]]
    <3>1. at0 = [y \in Nodes(t0) |-> at0[y]]
      BY ONLY <1>5, <2>2
    <3> QED BY ONLY <2>1, <3>1
  <2>5. \A y \in N : t0.at[y] = t.at[y]
    BY <1>5, <2>1
  <2>6. ASSUME NEW y \in Nodes(t0) PROVE t0.at[y] = [f \in Fields |-> t0.at[y][f]]
    <3>1. CASE y = new
      BY <1>4, <2>2, <3>1
    <3>2. CASE y # new
      <4>1. y \in N
        BY <2>2, <3>2
      <4>2. t.at[y] = [f \in Fields |-> t.at[y][f]]
        BY <1>2, <4>1 DEF IsForm
      <4> QED BY <2>5, <4>1, <4>2
    <3> QED BY <3>1, <3>2
  <2> QED BY <2>1, <2>2, <2>3, <2>4, <2>5, <2>6 DEF IsForm
<1> DEFINE s == SideOf(t, old)
<1>8. /\ IsForm(t1) /\ Nodes(t1) = N \cup {new} /\ t1.top = (IF p = NULL THEN new ELSE t.top)
      /\ \A z \in N \cup {new}, g \in Fields :
           t1.at[z][g] = IF p # NULL /\ z = p /\ g = s THEN new ELSE t0.at[z][g]
  <2>1. old \in Nodes(t0) /\ p = t0.at[old].parent /\ p \in Places(t0)
    BY <1>2, <1>7 DEF Places
  <2>2. p # NULL => SideOf(t0, old) = s
    BY <1>2, <1>7 DEF SideOf, Places
  <2>3. /\ IsForm(t1) /\ Nodes(t1) = Nodes(t0)
        /\ t1.top = (IF p = NULL THEN new ELSE t0.top)
        /\ \A z \in Nodes(t0), g \in Fields :
             t1.at[z][g] = IF p # NULL /\ z = p /\ g = SideOf(t0, old) THEN new ELSE t0.at[z][g]
    BY <1>7, <2>1, PlaceAlters
  <2> HIDE DEF t1, s, p
  <2>4. CASE p = NULL
    BY ONLY <1>7, <2>3, <2>4
  <2>5. CASE p # NULL
    BY ONLY <1>7, <2>2, <2>3, <2>5
  <2> QED BY ONLY <2>4, <2>5
<1> HIDE DEF t1
<1>9. u = [top |-> t1.top, at |-> at2]
  BY <1>1, <1>8 DEF IsForm
<1> DEFINE kid(y) == y \in {t.at[old].left, t.at[old].right}
           M == (N \ {old}) \cup {new}
<1>10. /\ DOMAIN at2 = M /\ at2 = [y \in M |-> at2[y]]
       /\ \A y \in M : at2[y] = [f \in Fields |->
                         IF kid(y) /\ f = "parent" THEN new ELSE t1.at[y][f]]
  <2>1. Nodes(t1) \ {old} = M
    BY <1>2, <1>8
  <2>2. ASSUME NEW y \in M
        PROVE  at2[y] = [f \in Fields |-> IF kid(y) /\ f = "parent" THEN new ELSE t1.at[y][f]]
    <3>1. t1.at[y] = [f \in Fields |-> t1.at[y][f]]
      BY <1>8, <2>1 DEF IsForm
    <3>2. at2[y] = IF kid(y) THEN [t1.at[y] EXCEPT !.parent = new] ELSE t1.at[y]
      BY <1>4, <2>1
    <3> HIDE DEF at2
    <3>3. CASE kid(y)
      <4>1. [t1.at[y] EXCEPT !.parent = new]
              = [f \in Fields |-> IF f = "parent" THEN new ELSE t1.at[y][f]]
        BY <1>3, <3>1
      <4> QED BY <3>2, <3>3, <4>1
    <3>4. CASE ~kid(y)
      BY <3>1, <3>2, <3>4
    <3> QED BY <3>3, <3>4
  <2>3. DOMAIN at2 = M /\ at2 = [y \in M |-> at2[y]]
    BY <2>1
  <2> QED BY <2>2, <2>3
<1> HIDE DEF at2, kid, M
<1>11. /\ IsForm(u) /\ Nodes(u) = M /\ u.top = (IF p = NULL THEN new ELSE t.top)
       /\ \A y \in M, f \in Fields :
            u.at[y][f] = IF kid(y) /\ f = "parent" THEN new ELSE t1.at[y][f]
  <2>1. u.top = t1.top /\ u.at = at2
    BY <1>9
  <2>2. Nodes(u) = M
    BY <1>10, <2>1 DEF Nodes
  <2>3. u = [top |-> u.top, at |-> u.at]
    BY <1>9, <2>1
  <2>4. u.at = [y \in Nodes(u) |-> u.at[y]]
    <3>1. at2 = [y \in Nodes(u) |-> at2[y]]
      BY ONLY <1>10, <2>2
    <3> QED BY ONLY <2>1, <3>1
  <2>5. \A y \in M, f \in Fields :
            u.at[y][f] = IF kid(y) /\ f = "parent" THEN new ELSE t1.at[y][f]
    BY <1>10, <2>1
  <2>6. ASSUME NEW y \in M PROVE u.at[y] = [f \in Fields |-> u.at[y][f]]
    BY <1>10, <2>1, <2>6
  <2> QED BY <1>8, <2>1, <2>2, <2>3, <2>4, <2>5, <2>6 DEF IsForm
<1>12. ASSUME NEW y \in M, NEW f \in Fields
       PROVE  u.at[y][f] = IF kid(y) /\ f = "parent" THEN new
                           ELSE IF p # NULL /\ y = p /\ f = s THEN new ELSE t0.at[y][f]
  <2>1. y \in N \cup {new}
    BY DEF M
  <2>2. u.at[y][f] = IF kid(y) /\ f = "parent" THEN new ELSE t1.at[y][f]
    BY <1>11
  <2>3. t1.at[y][f] = IF p # NULL /\ y = p /\ f = s THEN new ELSE t0.at[y][f]
    BY <1>8, <2>1
  <2> QED BY ONLY <2>2, <2>3
<1>13. p # NULL => /\ p \in N /\ p # old /\ s \in Sides /\ t.at[p][s] = old /\ old # t.top
                   /\ t.at[p][Opposite(s)] # old
  BY ParentIs
<1>14. \A y \in N : kid(y) <=> t.at[y].parent = old
  <2>1. ASSUME NEW y \in N, kid(y) PROVE t.at[y].parent = old
    <3>1. PICK side \in Sides : y = t.at[old][side]
      BY <2>1 DEF kid, Sides
    <3>2. y # NULL
      BY <1>2
    <3> QED BY <3>1, <3>2, KidsApart
  <2>2. ASSUME NEW y \in N, t.at[y].parent = old PROVE kid(y)
    <3>1. SideOf(t, y) \in Sides /\ t.at[old][SideOf(t, y)] = y
      BY <1>2, <2>2, ParentIs
    <3> QED BY <3>1 DEF kid, Sides
  <2> QED BY <2>1, <2>2
<1>15. ~kid(new) /\ new # p
  <2>1. \A side \in Sides : t.at[old][side] \in Places(t)
    BY KidIs
  <2>2. new \notin Places(t)
    BY DEF Places
  <2> QED BY <1>2, <2>1, <2>2 DEF kid, Sides
<1>16. ASSUME NEW f \in Links
       PROVE  u.at[new][f] = t.at[old][f] /\ t.at[old][f] # old
  <2>1. f \in Fields /\ new \in M /\ f # "entry"
    BY DEF Links, Fields, M
  <2>2. u.at[new][f] = t0.at[new][f]
    BY <1>12, <1>15, <2>1
  <2>3. t0.at[new][f] = t.at[old][f]
    BY <1>3, <1>7, <2>1
  <2>4. t.at[old][f] # old
    <3>1. CASE f = "parent"
      BY <1>2, <1>13, <3>1
    <3>2. CASE f # "parent"
      <4>1. f \in Sides
        BY <3>2 DEF Links, Sides
      <4> QED BY <1>2, <4>1, KidsApart
    <3> QED BY <3>1, <3>2
  <2> QED BY <2>2, <2>3, <2>4
<1>17. ASSUME NEW z \in N, z # old, NEW f \in Links
       PROVE  u.at[z][f] = Renamed(old, new, t.at[z][f])
  <2>1. z \in M /\ f \in Fields /\ t0.at[z] = t.at[z]
    BY <1>7, <1>17 DEF M, Links, Fields
  <2>2. CASE f = "parent"
    <3>1. p # NULL => f # s
      BY <1>13, <2>2, SidesAre
    <3>2. u.at[z][f] = IF kid(z) THEN new ELSE t.at[z][f]
      BY <1>12, <2>1, <2>2, <3>1
    <3> QED BY <1>14, <2>2, <3>2 DEF Renamed
  <2>3. CASE f # "parent"
    <3>1. f \in Sides
      BY <2>3 DEF Links, Sides
    <3>2. u.at[z][f] = IF p # NULL /\ z = p /\ f = s THEN new ELSE t.at[z][f]
      BY <1>12, <2>1, <2>3
    <3>3. CASE t.at[z][f] = old
      <4>1. z = p /\ p # NULL
        <5>1. t.at[old].parent = z
          BY <1>2, <3>1, <3>3, KidsApart
        <5> QED BY <1>2, <5>1
      <4>2. f = s
        <5>1. f # s => f = Opposite(s)
          BY <1>13, <3>1, <4>1, SidesAre
        <5> QED BY <1>13, <3>3, <4>1, <5>1
      <4> QED BY <3>2, <3>3, <4>1, <4>2 DEF Renamed
    <3>4. CASE t.at[z][f] # old
      BY <1>13, <3>2, <3>4 DEF Renamed
    <3> QED BY <3>3, <3>4
  <2> QED BY <2>2, <2>3
<1>18. ASSUME NEW z \in N, NEW f \in Links
       PROVE  u.at[Renamed(old, new, z)][f] = Renamed(old, new, t.at[z][f])
  <2>1. CASE z = old
    BY <1>16, <2>1 DEF Renamed
  <2>2. CASE z # old
    BY <1>17, <2>2 DEF Renamed
  <2> QED BY <2>1, <2>2
<1>19. ASSUME NEW z \in N PROVE u.at[Renamed(old, new, z)].is_red = t.at[z].is_red
  <2>1. Renamed(old, new, z) \in M /\ "is_red" \in Fields /\ (p # NULL => s # "is_red")
    BY <1>13, SidesAre DEF Renamed, M, Fields
  <2>2. u.at[Renamed(old, new, z)]["is_red"] = t0.at[Renamed(old, new, z)]["is_red"]
    BY <1>12, <2>1
  <2>3. t0.at[Renamed(old, new, z)]["is_red"] = t.at[z]["is_red"]
    BY <1>4, <1>7 DEF Renamed
  <2> QED BY <2>2, <2>3
<1>20. ASSUME NEW y \in M PROVE u.at[y]["entry"] = t0.at[y]["entry"]
  <2>1. "entry" \in Fields /\ (p # NULL => s # "entry")
    BY <1>13, SidesAre DEF Fields
  <2> QED BY <1>12, <2>1
<1>21. /\ u.at[new]["entry"] = own
       /\ \A z \in N : z # old => u.at[z]["entry"] = t.at[z]["entry"]
  BY <1>4, <1>7, <1>20 DEF M
<1>22. u.top = Renamed(old, new, t.top)
  <2>1. HasParent(t, old)
    BY KidIs DEF Sides
  <2> QED BY <1>11, <2>1 DEF HasParent, Renamed
<1> QED BY <1>11, <1>18, <1>19, <1>21, <1>22 DEF Replaced, M

(* What a change of name keeps of the subtrees of the node x.              *)
SetsFollow(old, new, x, A, B) ==
  /\ RenamedAll(old, new, {x} \cup A \cup B)
       = {Renamed(old, new, x)} \cup RenamedAll(old, new, A) \cup RenamedAll(old, new, B)
  /\ x \notin A \cup B =>
       Renamed(old, new, x) \notin RenamedAll(old, new, A) \cup RenamedAll(old, new, B)
  /\ A \cap B = {} => RenamedAll(old, new, A) \cap RenamedAll(old, new, B) = {}
  /\ \A y \in RenamedAll(old, new, A) : \E z \in A : y = Renamed(old, new, z)
  /\ \A y \in RenamedAll(old, new, B) : \E z \in B : y = Renamed(old, new, z)

LEMMA RenamedSets ==
  ASSUME NEW N, NEW old \in N, NEW new, new \notin N, NEW x \in N,
         NEW A \in SUBSET N, NEW B \in SUBSET N
  PROVE  SetsFollow(old, new, x, A, B)
<1>1. /\ RenamedAll(old, new, {x} \cup A \cup B)
           = {Renamed(old, new, x)} \cup RenamedAll(old, new, A) \cup RenamedAll(old, new, B)
      /\ x \notin A \cup B =>
           Renamed(old, new, x) \notin RenamedAll(old, new, A) \cup RenamedAll(old, new, B)
  BY DEF RenamedAll, Renamed
<1>2. /\ A \cap B = {} => RenamedAll(old, new, A) \cap RenamedAll(old, new, B) = {}
      /\ \A y \in RenamedAll(old, new, A) : \E z \in A : y = Renamed(old, new, z)
      /\ \A y \in RenamedAll(old, new, B) : \E z \in B : y = Renamed(old, new, z)
  BY DEF RenamedAll, Renamed
<1> QED BY <1>1, <1>2 DEF SetsFollow

(* new stands where old stands among the nodes of t.                       *)
StandsIn(t, less, old, new) ==
  \A z \in Nodes(t) \ {old} : /\ <<old, z>> \in less => <<new, z>> \in less
                              /\ <<z, old>> \in less => <<z, new>> \in less

LEMMA RenamedKeeps ==
  ASSUME NEW t, NEW below, NEW less, Search(t, below, less),
         NEW old \in Nodes(t), NEW new, new \notin Nodes(t), new # NULL, NEW own,
         StandsIn(t, less, old, new), NEW u, Replaced(t, old, new, own, u),
         NEW b, b = [y \in Places(u) |->
                       RenamedAll(old, new, below[Renamed(new, old, y)])]
  PROVE  Search(u, b, less)
<1> DEFINE N == Nodes(t)
           r(z) == Renamed(old, new, z)
           R(S) == RenamedAll(old, new, S)
<1>1. /\ IsForm(u) /\ Nodes(u) = (N \ {old}) \cup {new} /\ u.top = r(t.top)
      /\ \A z \in N, f \in Links : u.at[r(z)][f] = r(t.at[z][f])
      /\ \A z \in N : u.at[r(z)].is_red = t.at[z].is_red
  BY DEF Replaced
<1>2. /\ IsTree(t) /\ below \in [Places(t) -> SUBSET N] /\ old # NULL /\ NULL \notin N
      /\ below[NULL] = {} /\ below[t.top] = N
  BY DEF Search, IsSearchTree, IsTree
<1>3. /\ \A z \in Places(t) : r(z) \in Places(u) /\ Renamed(new, old, r(z)) = z
      /\ \A y \in Nodes(u) : \E z \in N : y = r(z)
      /\ \A z \in N : r(z) \in Nodes(u)
      /\ \A z, w \in Places(t) : r(z) = r(w) => z = w
      /\ \A y \in Places(u) : Renamed(new, old, y) \in Places(t)
      /\ r(NULL) = NULL
  BY <1>1, <1>2 DEF Renamed, Places
<1>4. \A S \in SUBSET N : R(S) \in SUBSET Nodes(u)
  BY <1>1 DEF RenamedAll
<1>5. /\ \A z \in Places(t) : b[r(z)] = R(below[z])
      /\ b \in [Places(u) -> SUBSET Nodes(u)]
  BY <1>2, <1>3, <1>4
<1> HIDE DEF r, R
<1>6. IsTree(u)
  <2>1. NULL \notin Nodes(u) /\ IsFiniteSet(Nodes(u))
    <3>1. IsFiniteSet(N)
      BY <1>2 DEF IsTree
    <3>2. IsFiniteSet(N \cup {new})
      BY <3>1, FS_AddElement
    <3>3. Nodes(u) \subseteq N \cup {new}
      BY <1>1
    <3> QED BY <1>1, <1>2, <3>2, <3>3, FS_Subset
  <2>2. u.top \in Places(u)
    BY <1>1, <1>2, <1>3 DEF IsTree
  <2>3. ASSUME NEW y \in Nodes(u)
        PROVE  u.at[y].is_red \in BOOLEAN /\ \A f \in Links : u.at[y][f] \in Places(u)
    <3>1. PICK z \in N : y = r(z)
      BY <1>3
    <3> QED BY <1>1, <1>2, <1>3, <3>1 DEF IsTree
  <2> QED BY <1>1, <2>1, <2>2, <2>3 DEF IsTree
<1>7. ASSUME NEW x \in N, NEW y, y = r(x)
      PROVE  Hangs(u, b, y) /\ Sorted(u, b, less, y)
  <2> DEFINE l == t.at[x]["left"]
             k == t.at[x]["right"]
             p == t.at[x]["parent"]
  <2>1. /\ Hangs(t, below, x) /\ Sorted(t, below, less, x)
        /\ l \in Places(t) /\ k \in Places(t) /\ p \in Places(t)
        /\ {"left", "right", "parent"} \subseteq Links /\ Sides = {"left", "right"}
    BY <1>2 DEF Search, IsSearchTree, IsTree, Links, Sides
  <2>2. /\ u.at[y]["left"] = r(l) /\ u.at[y]["right"] = r(k) /\ u.at[y]["parent"] = r(p)
    BY <1>1, <1>7, <2>1
  <2>3. /\ below[x] = {x} \cup below[l] \cup below[k] /\ x \notin below[l] \cup below[k]
        /\ below[l] \cap below[k] = {} /\ below[l] \in SUBSET N /\ below[k] \in SUBSET N
    BY <1>2, <2>1 DEF Hangs
  <2>4. b[y] = R(below[x]) /\ b[r(l)] = R(below[l]) /\ b[r(k)] = R(below[k])
    <3>1. x \in Places(t)
      BY DEF Places
    <3> QED BY <1>5, <1>7, <2>1, <3>1
  <2>5. /\ b[y] = {y} \cup b[r(l)] \cup b[r(k)] /\ y \notin b[r(l)] \cup b[r(k)]
        /\ b[r(l)] \cap b[r(k)] = {}
        /\ \A w \in b[r(l)] : \E z \in below[l] : w = r(z)
        /\ \A w \in b[r(k)] : \E z \in below[k] : w = r(z)
    <3>1. below[l] \in SUBSET N /\ below[k] \in SUBSET N
      BY <2>3
    <3>2. SetsFollow(old, new, x, below[l], below[k])
      BY <3>1, RenamedSets
    <3>3. /\ R({x} \cup below[l] \cup below[k]) = {r(x)} \cup R(below[l]) \cup R(below[k])
          /\ r(x) \notin R(below[l]) \cup R(below[k])
          /\ R(below[l]) \cap R(below[k]) = {}
          /\ \A w \in R(below[l]) : \E z \in below[l] : w = r(z)
          /\ \A w \in R(below[k]) : \E z \in below[k] : w = r(z)
      BY <2>3, <3>2 DEF SetsFollow, R, r
    <3>4. b[y] = R({x} \cup below[l] \cup below[k])
      BY <2>3, <2>4
    <3>5. b[y] = {r(x)} \cup b[r(l)] \cup b[r(k)]
      BY <2>4, <3>3, <3>4
    <3> HIDE DEF l, k
    <3> QED BY <1>7, <2>4, <3>3, <3>5
  <2>6. u.at[y].parent = NULL <=> y = u.top
    <3>1. p = NULL <=> x = t.top
      BY <2>1 DEF Hangs
    <3>2. r(p) = NULL <=> p = NULL
      BY <1>2 DEF r, Renamed
    <3>3. r(x) = r(t.top) <=> x = t.top
      BY <1>2, <1>3 DEF Places, IsTree
    <3> QED BY <1>1, <1>7, <2>2, <3>1, <3>2, <3>3
  <2>7. u.at[y].parent # NULL =>
          \E side \in Sides : u.at[u.at[y].parent][side] = y
    <3>1. SUFFICES ASSUME p # NULL PROVE \E side \in Sides : u.at[r(p)][side] = y
      BY <1>3, <2>2
    <3>2. PICK side \in Sides : t.at[p][side] = x
      BY <2>1, <3>1 DEF Hangs
    <3>3. p \in N /\ side \in Links
      BY <2>1, <3>1, SidesAre DEF Places
    <3>4. u.at[r(p)][side] = r(x)
      BY <1>1, <3>2, <3>3
    <3> QED BY <1>7, <3>4
  <2>8. ASSUME NEW side \in Sides, u.at[y][side] # NULL
        PROVE  u.at[u.at[y][side]].parent = y
    <3>1. side \in Links /\ u.at[y][side] = r(t.at[x][side])
      BY <1>1, <1>7, SidesAre
    <3>2. t.at[x][side] \in N
      BY <1>2, <1>3, <2>8, <3>1 DEF IsTree, Places
    <3>3. t.at[t.at[x][side]]["parent"] = x
      BY <2>1, <3>2, <1>2 DEF Hangs
    <3>4. u.at[r(t.at[x][side])]["parent"] = r(x)
      BY <1>1, <2>1, <3>2, <3>3
    <3> QED BY <1>7, <3>1, <3>4
  <2>9. Hangs(u, b, y)
    BY <2>2, <2>5, <2>6, <2>7, <2>8 DEF Hangs
  <2>10. ASSUME NEW v \in N, NEW w \in N, v # w, <<v, w>> \in less
         PROVE  <<r(v), r(w)>> \in less
    BY <2>10 DEF r, Renamed, StandsIn
  <2>11. ASSUME NEW w \in b[r(l)] PROVE <<w, y>> \in less
    <3>1. PICK z \in below[l] : w = r(z)
      BY <2>5
    <3>2. <<z, x>> \in less /\ z # x /\ z \in N
      BY <2>1, <2>3 DEF Sorted
    <3> QED BY <1>7, <2>10, <3>1, <3>2
  <2>12. ASSUME NEW w \in b[r(k)] PROVE <<y, w>> \in less
    <3>1. PICK z \in below[k] : w = r(z)
      BY <2>5
    <3>2. <<x, z>> \in less /\ z # x /\ z \in N
      BY <2>1, <2>3 DEF Sorted
    <3> QED BY <1>7, <2>10, <3>1, <3>2
  <2>13. Sorted(u, b, less, y)
    BY <2>2, <2>11, <2>12 DEF Sorted
  <2> QED BY <2>9, <2>13
<1>8. b[NULL] = {} /\ b[u.top] = Nodes(u)
  <2>1. NULL \in Places(t) /\ t.top \in Places(t)
    BY <1>2 DEF Places, IsTree
  <2>2. b[NULL] = R({}) /\ b[u.top] = R(N)
    BY <1>1, <1>2, <1>3, <1>5, <2>1
  <2> QED BY <1>1, <2>2 DEF R, RenamedAll
<1>9. \A y \in Nodes(u) : Hangs(u, b, y) /\ Sorted(u, b, less, y)
  BY <1>3, <1>7
<1> HIDE DEF N
<1> QED BY <1>5, <1>6, <1>8, <1>9 DEF Search, IsSearchTree

(* DSK_RBTREE_REPLACE_NODE with a node that stands where the old one stood *)
(* keeps the tree sorted and balanced, and every other node with its       *)
(* entry.                                                                  *)
THEOREM ReplaceKeeps ==
  ASSUME NEW t, NEW less, Balanced(t, less),
         NEW old \in Nodes(t), NEW new, new \notin Nodes(t), new # NULL, NEW own,
         StandsIn(t, less, old, new), NEW u, u = ReplaceNode(t, old, new, own)
  PROVE  /\ Balanced(u, less) /\ Nodes(u) = (Nodes(t) \ {old}) \cup {new}
         /\ \A z \in Nodes(t) \ {old} : u.at[z].entry = t.at[z].entry
         /\ u.at[new].entry = own
<1> DEFINE r(z) == Renamed(old, new, z)
<1>1. PICK below, black : Search(t, below, less) /\ black \in [Places(t) -> Int]
                          /\ IsBalanced(t, black)
  BY DEF Balanced
<1>2. Replaced(t, old, new, own, u)
  BY <1>1, ReplaceCells
<1>3. /\ Nodes(u) = (Nodes(t) \ {old}) \cup {new} /\ u.top = r(t.top)
      /\ \A z \in Nodes(t), f \in Links : u.at[r(z)][f] = r(t.at[z][f])
      /\ \A z \in Nodes(t) : u.at[r(z)].is_red = t.at[z].is_red
  BY <1>2 DEF Replaced
<1> DEFINE b == [y \in Places(u) |-> RenamedAll(old, new, below[Renamed(new, old, y)])]
           h == [y \in Places(u) |-> black[Renamed(new, old, y)]]
<1>4. Search(u, b, less)
  BY <1>1, <1>2, RenamedKeeps
<1> HIDE DEF b
<1>5. NULL \notin Nodes(t) /\ old # NULL /\ t.top \in Places(t)
      /\ \A z \in Nodes(t), f \in Links : t.at[z][f] \in Places(t)
  BY <1>1 DEF Search, IsTree
<1>6. /\ \A z \in Places(t) : r(z) \in Places(u) /\ Renamed(new, old, r(z)) = z
      /\ \A y \in Nodes(u) : \E z \in Nodes(t) : y = r(z)
      /\ \A y \in Places(u) : Renamed(new, old, y) \in Places(t)
      /\ r(NULL) = NULL
  BY <1>3, <1>5 DEF Renamed, Places
<1>7. h \in [Places(u) -> Int] /\ \A z \in Places(t) : h[r(z)] = black[z]
  BY <1>1, <1>6
<1> HIDE DEF h
<1>8. \A z \in Places(t) : IsRed(u, r(z)) <=> IsRed(t, z)
  BY <1>3, <1>5 DEF IsRed, Places, Renamed
<1> HIDE DEF r
<1>9. ASSUME NEW x \in Nodes(t) PROVE Coloured(u, h, r(x))
  <2>1. \A side \in Sides : /\ u.at[r(x)][side] = r(t.at[x][side])
                            /\ t.at[x][side] \in Places(t)
    BY <1>3, <1>5, SidesAre
  <2>2. Coloured(t, black, x) /\ x \in Places(t) /\ Sides = {"left", "right"}
    BY <1>1 DEF IsBalanced, Places, Sides
  <2>3. /\ u.at[r(x)]["left"] = r(t.at[x]["left"]) /\ u.at[r(x)]["right"] = r(t.at[x]["right"])
        /\ h[r(t.at[x]["left"])] = black[t.at[x]["left"]]
        /\ h[r(t.at[x]["right"])] = black[t.at[x]["right"]] /\ h[r(x)] = black[x]
        /\ u.at[r(x)].is_red = t.at[x].is_red
    BY <1>3, <1>7, <2>1, <2>2
  <2>4. \A side \in Sides : ~(IsRed(u, r(x)) /\ IsRed(u, u.at[r(x)][side]))
    BY <1>8, <2>1, <2>2 DEF Coloured
  <2>5. /\ black[t.at[x]["left"]] = black[t.at[x]["right"]]
        /\ black[x] = black[t.at[x]["left"]] + (IF t.at[x].is_red THEN 0 ELSE 1)
    BY <2>2 DEF Coloured
  <2>6. /\ h[u.at[r(x)].left] = h[u.at[r(x)].right]
        /\ h[r(x)] = h[u.at[r(x)].left] + (IF u.at[r(x)].is_red THEN 0 ELSE 1)
    BY <2>3, <2>5
  <2> QED BY <2>4, <2>6 DEF Coloured
<1>10. IsBalanced(u, h)
  <2>1. h[NULL] = 0
    <3>1. NULL \in Places(t)
      BY DEF Places
    <3> QED BY <1>1, <1>6, <1>7, <3>1 DEF IsBalanced
  <2>2. ~IsRed(u, u.top)
    BY <1>1, <1>3, <1>5, <1>8 DEF IsBalanced
  <2> QED BY <1>6, <1>9, <2>1, <2>2 DEF IsBalanced
<1>11. Balanced(u, less)
  BY <1>4, <1>7, <1>10 DEF Balanced
<1> QED BY <1>2, <1>11 DEF Replaced
=============================================================================
