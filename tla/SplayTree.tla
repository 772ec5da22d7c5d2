------------------------------ MODULE SplayTree ------------------------------
(***************************************************************************)
(* The splay tree (SplayTree.cpp): a search tree whose nodes have links to *)
(* their children and to their parent; what is inserted or erased is first *)
(* rotated to the root, and current_ remembers the leftmost node.          *)
(*                                                                         *)
(* No comparison of shared_ptr<Event> is defined, so `<', `<=' and `=='    *)
(* compare addresses: an event is its address here.  A node is named by    *)
(* its event.  insert, erase and begin are functions of the tree; `failed' *)
(* is a failed assertion of erase.                                         *)
(***************************************************************************)
EXTENDS Integers

CONSTANT Addresses     \* positive numbers: where the events may lie

Null == 0

Empty == [child |-> [s \in {"left", "right"} |-> [e \in Addresses |-> Null]],
          parent |-> [e \in Addresses |-> Null],
          root |-> Null, current |-> Null, num_nodes |-> 0, failed |-> FALSE]

Opposite(side)  == IF side = "left" THEN "right" ELSE "left"
SideOf(q, node) == IF q.child["left"][q.parent[node]] = node THEN "left" ELSE "right"
Link(q, parent, side, node) ==
    IF node = Null THEN [q EXCEPT !.child[side][parent] = Null]
    ELSE [q EXCEPT !.child[side][parent] = node, !.parent[node] = parent]
MakeRoot(q, node) ==
    IF node = Null THEN [q EXCEPT !.root = Null]
    ELSE [q EXCEPT !.root = node, !.parent[node] = Null]

(* rotateLeft lifts the right child of the node, rotateRight the left one. *)
Lift(q, node, side) ==
    LET up      == q.child[side][node]
        turned  == Link(Link(q, node, side, q.child[Opposite(side)][up]),
                        up, Opposite(side), node)
    IN  IF up = Null THEN q
        ELSE IF node = q.root THEN MakeRoot(turned, up)
        ELSE Link(turned, q.parent[node], SideOf(q, node), up)

RECURSIVE splayFrom(_, _, _)
splayFrom(q, node, splay_cnt) ==
    LET parent == q.parent[node]
        grand  == q.parent[parent]
        side   == SideOf(q, node)
        above  == SideOf(q, parent)
        next   == IF side = above THEN Lift(Lift(q, grand, above), parent, side)
                                  ELSE Lift(Lift(q, parent, side), grand, above)
    IN  IF node = q.root THEN q
        ELSE IF parent = q.root THEN Lift(q, parent, side)
        ELSE IF splay_cnt >= q.num_nodes \div 2 THEN next
        ELSE splayFrom(next, node, splay_cnt + 1)

splay(q, node) == splayFrom(q, node, 0)

(* The last node on the way down from a node, always on one side.          *)
RECURSIVE Outermost(_, _, _)
Outermost(q, node, side) == IF q.child[side][node] = Null THEN node
                            ELSE Outermost(q, q.child[side][node], side)

(* The node with the event, or Null.                                       *)
RECURSIVE Find(_, _, _)
Find(q, node, event) ==
    IF node = Null \/ node = event THEN node
    ELSE Find(q, q.child[IF event < node THEN "left" ELSE "right"][node], event)

(* The leaf's link where an event is put in.                               *)
RECURSIVE Place(_, _, _)
Place(q, node, event) ==
    LET side == IF event <= node THEN "left" ELSE "right"
    IN  IF q.child[side][node] = Null THEN [node |-> node, side |-> side]
        ELSE Place(q, q.child[side][node], event)

begin(q) ==
    IF q.root = Null \/ q.num_nodes = 0 THEN Empty
    ELSE IF q.current = Null THEN [q EXCEPT !.current = Outermost(q, q.root, "left")]
    ELSE q

(* An event before the least one is hung below it without a search.        *)
insert(q, event) ==
    LET more == [q EXCEPT !.num_nodes = @ + 1]
        at   == Place(q, q.root, event)
    IN  IF q.root = Null THEN [more EXCEPT !.root = event, !.current = event]
        ELSE IF event <= q.current
        THEN splay([Link(more, q.current, "left", event) EXCEPT !.current = event], event)
        ELSE splay(Link(more, at.node, at.side, event), event)

(* The tree without its root; nothing is left of the node.                 *)
RemoveRoot(q) ==
    LET left  == q.child["left"][q.root]
        right == q.child["right"][q.root]
        clean == [q EXCEPT !.child["left"][q.root] = Null,
                           !.child["right"][q.root] = Null, !.num_nodes = @ - 1]
    IN  IF left = Null THEN MakeRoot(clean, right)
        ELSE IF right = Null THEN MakeRoot(clean, left)
        ELSE Link(MakeRoot(clean, left), Outermost(q, left, "right"), "right", right)

(* current_ is looked for again unless the tree is empty: then it keeps    *)
(* the node erased until the next begin or insert.                         *)
erase(q, event) ==
    LET found   == Find(q, IF event <= q.current THEN q.current ELSE q.root, event)
        raised  == splay(q, found)
        removed == RemoveRoot(raised)
    IN  IF q.root = Null THEN [q |-> [q EXCEPT !.failed = TRUE], status |-> FALSE]
        ELSE IF q.current = Null
        THEN [q |-> [q EXCEPT !.current = Outermost(q, q.root, "left")], status |-> FALSE]
        ELSE IF found = Null THEN [q |-> q, status |-> FALSE]
        ELSE IF raised.root # found THEN [q |-> [q EXCEPT !.failed = TRUE], status |-> TRUE]
        ELSE [q |-> IF removed.root = Null THEN removed
                    ELSE [removed EXCEPT
                             !.current = Outermost(removed, removed.root, "left")],
              status |-> TRUE]

(* The events that can be reached from the root.                           *)
RECURSIVE Below(_, _)
Below(q, node) ==
    IF node = Null THEN {}
    ELSE {node} \cup Below(q, q.child["left"][node]) \cup Below(q, q.child["right"][node])
=============================================================================
