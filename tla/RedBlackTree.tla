---------------------------- MODULE RedBlackTree ----------------------------
(* common/src/common/red_black_tree.c: the ordered container of the graph   *)
(* explorer and of the progress list.  An element is its node: the address  *)
(* object_pool_alloc returns is seen by nobody.  Every turn of a            *)
(* rebalancing loop is an action of its own.                                *)
EXTENDS Integers, SequencesExt

CONSTANTS Element,  \* the elements a caller inserts
          Rank,     \* what compare_fun orders them by; ties compare equal
          NULL

VARIABLES node,  \* Element -> [left, right, parent, type]
          live,  \* the nodes the object pool has handed out
          root,
          size,
          fix    \* the loop under way: its name, node and parent
vars == <<node, live, root, size, fix>>

Idle == [loop |-> "none", node |-> NULL, parent |-> NULL]
Blank == [left |-> NULL, right |-> NULL, parent |-> NULL, type |-> "red"]

Init ==
    /\ node = [e \in Element |-> Blank] /\ live = {}
    /\ root = NULL /\ size = 0 /\ fix = Idle
-----------------------------------------------------------------------------
(* The nodes of a tree and its root, as a function changes them.            *)
Tree == [node |-> node, root |-> root]

Mirror(side) == IF side = "left" THEN "right" ELSE "left"
Black(t, n)  == n # NULL => t.node[n].type = "black"

SetField(t, n, field, v) == IF n = NULL THEN t ELSE [t EXCEPT !.node[n][field] = v]
Paint(t, n, colour)      == SetField(t, n, "type", colour)
SideOf(t, n)             == IF t.node[t.node[n].parent].right = n THEN "right" ELSE "left"

(* The place of n below its parent, or the root, becomes new.               *)
Replace(t, n, new) ==
    LET p == t.node[n].parent
    IN  IF p = NULL THEN [t EXCEPT !.root = new] ELSE SetField(t, p, SideOf(t, n), new)

(* rotate_left (side = "left") and rotate_right: the child on the other     *)
(* side takes the place of n, which becomes its child.                      *)
Rotate(t, n, side) ==
    LET up    == t.node[n][Mirror(side)]
        inner == t.node[up][side]
        moved == SetField(SetField(t, n, Mirror(side), inner), inner, "parent", n)
        over  == SetField(moved, up, "parent", t.node[n].parent)
    IN  SetField(SetField(Replace(over, n, up), up, side, n), n, "parent", up)
-----------------------------------------------------------------------------
(* The searches and iterators, which change nothing.                        *)
Else(n, other) == IF n = NULL THEN other ELSE n

SearchLower(t, r) ==
    LET from[n \in Element \cup {NULL}] ==
            IF n = NULL THEN NULL
            ELSE IF Rank[n] < r THEN from[t.node[n].right]
            ELSE Else(from[t.node[n].left], n)
    IN  Else(from[t.root], t.root)
SearchUpper(t, r) ==
    LET from[n \in Element \cup {NULL}] ==
            IF n = NULL THEN NULL
            ELSE IF Rank[n] <= r THEN from[t.node[n].right]
            ELSE Else(from[t.node[n].left], n)
    IN  from[t.root]
Find(t, r) ==
    LET n == SearchLower(t, r) IN IF n # NULL /\ Rank[n] = r THEN n ELSE NULL

(* The end of the branch that leads from n to one side.                     *)
Outermost(t, n, side) ==
    LET end[m \in Element] == IF t.node[m][side] = NULL THEN m ELSE end[t.node[m][side]]
    IN  end[n]

(* RED_BLACK_TREE_ITERATOR_NEXT (side = "right") and RITERATOR_NEXT.        *)
IteratorNext(t, n, side) ==
    LET climb[m \in Element] ==
            LET p == t.node[m].parent
            IN  IF p # NULL /\ t.node[p][side] = m THEN climb[p] ELSE p
    IN  IF t.node[n][side] # NULL THEN Outermost(t, t.node[n][side], Mirror(side))
        ELSE climb[n]
-----------------------------------------------------------------------------
Becomes(t) == node' = t.node /\ root' = t.root

(* red_black_tree_insert up to the call of insert_rebalance: the new node   *)
(* goes to the left of the first larger element or, where something hangs   *)
(* there already, to the right of what precedes it.                         *)
InsertPlace(t, r) ==
    LET bound == SearchUpper(t, r)
    IN  IF bound # NULL /\ t.node[bound].left = NULL THEN [parent |-> bound, side |-> "left"]
        ELSE [parent |-> Outermost(t, IF bound = NULL THEN t.root ELSE t.node[bound].left, "right"),
              side |-> "right"]

Insert(e) ==
    /\ fix = Idle /\ e \notin live
    /\ live' = live \cup {e}
    /\ fix' = [loop |-> "insert", node |-> e, parent |-> NULL]
    /\ IF root = NULL THEN Becomes([node |-> [node EXCEPT ![e] = Blank], root |-> e])
       ELSE LET at == InsertPlace(Tree, Rank[e])
            IN  Becomes(SetField([Tree EXCEPT !.node[e] = [Blank EXCEPT !.parent = at.parent]],
                                 at.parent, at.side, e))
    /\ UNCHANGED size

(* A turn of the loop of insert_rebalance: a red uncle moves the red pair   *)
(* up, a black one ends with a rotation.                                    *)
Recolour(t, n, parent, gparent, uncle) ==
    Paint(Paint(Paint(t, uncle, "black"), parent, "black"), gparent, "red")

Straighten(t, n, parent, gparent, side) ==
    LET bent == t.node[parent][Mirror(side)] = n
        line == IF bent THEN Rotate(t, parent, side) ELSE t
        top  == IF bent THEN n ELSE parent
    IN  Rotate(Paint(Paint(line, top, "black"), gparent, "red"), gparent, Mirror(side))

InsertTurn ==
    LET n == fix.node
        parent == node[n].parent IN
    /\ fix.loop = "insert" /\ ~Black(Tree, parent)
    /\ LET gparent == node[parent].parent
           side    == SideOf(Tree, parent)
           uncle   == node[gparent][Mirror(side)]
       IN IF ~Black(Tree, uncle)
          THEN /\ Becomes(Recolour(Tree, n, parent, gparent, uncle))
               /\ fix' = [fix EXCEPT !.node = gparent]
          ELSE /\ Becomes(Straighten(Tree, n, parent, gparent, side))
               /\ fix' = [fix EXCEPT !.node = IF node[parent][Mirror(side)] = n THEN parent ELSE n]
    /\ UNCHANGED <<live, size>>

InsertEnd ==
    /\ fix.loop = "insert" /\ Black(Tree, node[fix.node].parent)
    /\ Becomes(Paint(Tree, root, "black"))
    /\ size' = size + 1 /\ fix' = Idle
    /\ UNCHANGED live
-----------------------------------------------------------------------------
(* red_black_tree_erase takes a node with at most one child out; one with   *)
(* two gives its place and colour to its successor.                         *)
Unlink(t, n) ==
    LET child == Else(t.node[n].left, t.node[n].right)
    IN  Replace(SetField(t, child, "parent", t.node[n].parent), n, child)

Substitute(t, n, new) ==
    LET old    == t.node[n]
        placed == [t EXCEPT !.node[new] = old]
        above  == IF old.parent = NULL THEN [placed EXCEPT !.root = new]
                  ELSE SetField(placed, old.parent,
                                IF t.node[old.parent].left = n THEN "left" ELSE "right", new)
    IN  SetField(SetField(above, old.left, "parent", new), old.right, "parent", new)

Detach(t, n, out) ==
    [IF out = n THEN Unlink(t, n) ELSE Substitute(Unlink(t, out), n, out) EXCEPT !.node[n] = Blank]

EraseNode(n, out) ==
    /\ Becomes(Detach(Tree, n, out))
    /\ live' = live \ {n}
    /\ IF node[out].type = "red" THEN fix' = Idle /\ size' = size - 1
       ELSE /\ fix' = [loop   |-> "erase",
                       node   |-> Else(node[out].left, node[out].right),
                       parent |-> IF node[out].parent = n THEN out ELSE node[out].parent]
            /\ UNCHANGED size

Erase(n) ==
    /\ fix = Idle /\ n \in live
    /\ EraseNode(n, IF node[n].left # NULL /\ node[n].right # NULL
                    THEN Outermost(Tree, node[n].right, "left") ELSE n)

RemoveElement(r) == LET n == Find(Tree, r) IN n # NULL /\ Erase(n)

(* A turn of the loop of erase_rebalance, for the side the node is on.      *)
RedSibling(t, parent, other, side) ==
    IF Black(t, other) THEN t
    ELSE Rotate(Paint(Paint(t, other, "black"), parent, "red"), parent, side)

(* The nephew on the far side is red once this is done.                     *)
NephewKept(t, other, side) == t        \* mutant
RedNephew(t, other, side) ==
    IF ~Black(t, t.node[other][Mirror(side)]) THEN t
    ELSE Rotate(Paint(Paint(t, t.node[other][side], "black"), other, "red"), other, Mirror(side))

Unfold(t, parent, other, side) ==
    Rotate(Paint(Paint(Paint(t, other, t.node[parent].type), parent, "black"),
                 t.node[other][Mirror(side)], "black"),
           parent, side)

EraseLoops == fix.loop = "erase" /\ Black(Tree, fix.node) /\ fix.node # root

EraseStep(t, parent, other, side) ==
    IF Black(t, t.node[other].left) /\ Black(t, t.node[other].right)
    THEN /\ Becomes(Paint(t, other, "red"))
         /\ fix' = [fix EXCEPT !.node = parent, !.parent = t.node[parent].parent]
    ELSE LET near == RedNephew(t, other, side)
         IN  /\ Becomes(Unfold(near, parent, near.node[parent][Mirror(side)], side))
             /\ fix' = [fix EXCEPT !.node = root', !.parent = NULL]

EraseOn(parent, side, t) == EraseStep(t, parent, t.node[parent][Mirror(side)], side)

EraseTurn ==
    LET parent == fix.parent
        side   == IF node[parent].left = fix.node THEN "left" ELSE "right"
    IN  /\ EraseLoops
        /\ EraseOn(parent, side, RedSibling(Tree, parent, node[parent][Mirror(side)], side))
        /\ UNCHANGED <<live, size>>

EraseEnd ==
    /\ fix.loop = "erase" /\ ~EraseLoops
    /\ Becomes(Paint(Tree, fix.node, "black"))
    /\ size' = size - 1 /\ fix' = Idle
    /\ UNCHANGED live

Clear ==
    /\ fix = Idle
    /\ node' = [e \in Element |-> Blank] /\ live' = {} /\ root' = NULL /\ size' = 0
    /\ UNCHANGED fix
-----------------------------------------------------------------------------
Rebalance == InsertTurn \/ InsertEnd \/ EraseTurn \/ EraseEnd

Next ==
    \/ \E e \in Element : Insert(e) \/ Erase(e) \/ RemoveElement(Rank[e])
    \/ Clear
    \/ Rebalance

Spec == Init /\ [][Next]_vars
-----------------------------------------------------------------------------
(* The elements from left to right.                                         *)
InOrder(t) ==
    LET of[n \in Element \cup {NULL}] ==
            IF n = NULL THEN <<>> ELSE of[t.node[n].left] \o <<n>> \o of[t.node[n].right]
    IN  of[t.root]

(* The links of a node and of its children agree at every step of an        *)
(* operation, the tree holds the nodes of the pool and no other, and size   *)
(* counts them once the operation is over (rotate_left, rotate_right,       *)
(* red_black_tree_erase).                                                   *)
TreeLinked ==
    /\ ToSet(InOrder(Tree)) = live /\ Len(InOrder(Tree)) = Cardinality(live)
    /\ \A n \in live : \A side \in {"left", "right"} :
          node[n][side] # NULL => node[n][side] \in live /\ node[node[n][side]].parent = n
    /\ root # NULL => node[root].parent = NULL
    /\ fix = Idle => size = Cardinality(live)

(* Between operations no path is more than twice as long as another: the    *)
(* root is black, no red node has a red child, and every path from a node   *)
(* passes as many black nodes (insert_rebalance, erase_rebalance).          *)
TreeBalanced ==
    LET Joined(l, r, black) == IF l # r THEN 0 ELSE IF black /\ l # 0 THEN l + 1 ELSE l
        height[n \in Element \cup {NULL}] ==
            IF n = NULL THEN 1
            ELSE Joined(height[node[n].left], height[node[n].right], Black(Tree, n))
    IN  fix = Idle =>
          /\ Black(Tree, root) /\ height[root] # 0
          /\ \A n \in live : ~Black(Tree, n) =>
                Black(Tree, node[n].left) /\ Black(Tree, node[n].right)

(* Find gives the first of the elements that compare equal, the bounds the  *)
(* first that is not smaller and the first that is larger - the lower bound *)
(* of a rank above all others is the root, which only find looks at - and   *)
(* both iterators visit every element in its order                          *)
(* (search_lower_bound, search_upper_bound, RED_BLACK_TREE_ITERATOR_NEXT).  *)
SearchesAgree ==
    fix = Idle => \E s \in {InOrder(Tree)} :
    LET from(r)  == {i \in DOMAIN s : Rank[s[i]] >= r}
        above(r) == {i \in DOMAIN s : Rank[s[i]] > r}
        At(ids, none) == IF ids = {} THEN none ELSE s[Min(ids)]
        walk(side) == [i \in DOMAIN s |-> IteratorNext(Tree, s[i], side)]
    IN    /\ \A r \in UNION {{Rank[e], Rank[e] + 1} : e \in Element} :
                /\ SearchLower(Tree, r) = At(from(r), root)
                /\ SearchUpper(Tree, r) = At(above(r), NULL)
                /\ Find(Tree, r) = At(from(r) \ above(r), NULL)
          /\ \A i \in DOMAIN s :
                /\ walk("right")[i] = (IF i = Len(s) THEN NULL ELSE s[i + 1])
                /\ walk("left")[i]  = (IF i = 1 THEN NULL ELSE s[i - 1])
          /\ s # <<>> => /\ Outermost(Tree, root, "left") = Head(s)
                         /\ Outermost(Tree, root, "right") = Last(s)

(* What a tree promises: its elements in the order of their ranks, those of *)
(* equal rank in the order they came; remove takes the first that is equal. *)
(* The number of elements of rank at most r, and below r.                   *)
UpTo(s, r)  == Cardinality({i \in DOMAIN s : Rank[s[i]] <= r})
Below(s, r) == Cardinality({i \in DOMAIN s : Rank[s[i]] < r})

Put(s, e)  == InsertAt(s, UpTo(s, Rank[e]) + 1, e)
Take(s, r) == RemoveAt(s, Below(s, r) + 1)

(* The contents an operation can lead to.                                   *)
BagSteps(s) ==
    {Put(s, e) : e \in Element \ ToSet(s)} \cup {<<>>}
      \cup UNION {{Take(s, Rank[s[i]]), RemoveAt(s, i)} : i \in DOMAIN s}

(* An insertion puts its element behind those that compare equal, remove    *)
(* takes the first of them, erase the one it is given, and no turn of a     *)
(* rebalancing loop moves an element past another.                          *)
BagStep == \E s \in {InOrder(Tree)}, t \in {InOrder(Tree)'} : s = t \/ t \in BagSteps(s)
ImplementsSortedBag == [][BagStep]_vars

(* A rebalancing loop that takes another turn has come nearer to the root,  *)
(* whatever rotations the last turn made: both loops end.                   *)
Depth == LET above[n \in Element] == IF node[n].parent = NULL THEN 0 ELSE above[node[n].parent] + 1
         IN  IF fix.node = NULL THEN above[fix.parent] + 1 ELSE above[fix.node]
Loops == EraseLoops \/ (fix.loop = "insert" /\ ~Black(Tree, node[fix.node].parent))
ClimbStep  == Loops /\ Loops' => Depth' < Depth
TurnsClimb == [][ClimbStep]_vars
=============================================================================
