----------------------------- MODULE AvsRbtree ------------------------------
(***************************************************************************)
(* The red-black trees of src/src/rbtree/avs_rbtree.c.  A tree is a record *)
(* with its root, its size and the nodes of all elements, attached or not; *)
(* NIL is the null pointer.  A link is a place that holds a pointer to a   *)
(* node: the root, or the left or right field of a node.                   *)
(***************************************************************************)
EXTENDS Integers, Sequences, FiniteSets

CONSTANTS
    Elements,    \* allocated elements, numbers above 0
    KeyOf(_)     \* what the comparator compares

NIL == 0
Detached == [color |-> "DETACHED", parent |-> NIL, left |-> NIL, right |-> NIL]

RbtreeNew == [root |-> NIL, size |-> 0, node |-> [e \in Elements |-> Detached]]

Color(t, e) == IF e = NIL THEN "BLACK" ELSE t.node[e].color
Left(t, e) == t.node[e].left
Right(t, e) == t.node[e].right
Parent(t, e) == t.node[e].parent

Paint(t, e, color) == [t EXCEPT !.node[e].color = color]
SetParent(t, e, p) == IF e = NIL THEN t ELSE [t EXCEPT !.node[e].parent = p]

RootLink == [of |-> NIL, side |-> "root"]
At(t, link) == IF link = RootLink THEN t.root
               ELSE IF link.side = "left" THEN t.node[link.of].left
               ELSE t.node[link.of].right
Put(t, link, e) == IF link = RootLink THEN [t EXCEPT !.root = e]
                   ELSE IF link.side = "left" THEN [t EXCEPT !.node[link.of].left = e]
                   ELSE [t EXCEPT !.node[link.of].right = e]
Swap(t, l1, l2) == Put(Put(t, l1, At(t, l2)), l2, At(t, l1))

------------------------------------------------------------------------------
(* Searching                                                               *)

RECURSIVE FindFrom(_, _, _)
FindFrom(t, link, key) ==
    LET curr == At(t, link)
    IN  IF curr = NIL \/ KeyOf(curr) = key THEN link
        ELSE FindFrom(t, [of |-> curr,
                          side |-> IF key < KeyOf(curr) THEN "left" ELSE "right"],
                      key)

\* rb_find_ptr: the link where the element is or would be; its owner is the
\* parent.
FindPtr(t, key) == FindFrom(t, RootLink, key)
Find(t, key) == At(t, FindPtr(t, key))

RECURSIVE BoundFrom(_, _, _, _, _)
BoundFrom(t, curr, key, strict, result) ==
    IF curr = NIL THEN result
    ELSE IF key < KeyOf(curr) \/ (~strict /\ key = KeyOf(curr))
    THEN BoundFrom(t, Left(t, curr), key, strict, curr)
    ELSE BoundFrom(t, Right(t, curr), key, strict, result)

LowerBound(t, key) == BoundFrom(t, t.root, key, FALSE, NIL)
UpperBound(t, key) == BoundFrom(t, t.root, key, TRUE, NIL)

RECURSIVE MinFrom(_, _)
MinFrom(t, e) == IF e = NIL \/ Left(t, e) = NIL THEN e ELSE MinFrom(t, Left(t, e))
RECURSIVE MaxFrom(_, _)
MaxFrom(t, e) == IF e = NIL \/ Right(t, e) = NIL THEN e ELSE MaxFrom(t, Right(t, e))

RbtreeFirst(t) == MinFrom(t, t.root)
RbtreeLast(t) == MaxFrom(t, t.root)

RECURSIVE UpFromRight(_, _)
UpFromRight(t, curr) ==
    LET p == Parent(t, curr)
    IN  IF p # NIL /\ Right(t, p) = curr THEN UpFromRight(t, p) ELSE p
RECURSIVE UpFromLeft(_, _)
UpFromLeft(t, curr) ==
    LET p == Parent(t, curr)
    IN  IF p # NIL /\ Left(t, p) = curr THEN UpFromLeft(t, p) ELSE p

ElemNext(t, e) == IF Right(t, e) # NIL THEN MinFrom(t, Right(t, e)) ELSE UpFromRight(t, e)
ElemPrev(t, e) == IF Left(t, e) # NIL THEN MaxFrom(t, Left(t, e)) ELSE UpFromLeft(t, e)

Sibling(t, e, p) == IF e = Left(t, p) THEN Right(t, p) ELSE Left(t, p)

OwnParentPtr(t, e) ==
    LET p == Parent(t, e)
    IN  IF p = NIL THEN RootLink
        ELSE [of |-> p, side |-> IF Left(t, p) = e THEN "left" ELSE "right"]

------------------------------------------------------------------------------
(* Rotations and attaching                                                 *)

RotateLeft(t, root) ==
    LET pivot == Right(t, root)
        grandchild == Left(t, pivot)
        t1 == Put(t, OwnParentPtr(t, root), pivot)
        t2 == [t1 EXCEPT !.node[pivot].parent = Parent(t, root),
                         !.node[pivot].left = root]
        t3 == [t2 EXCEPT !.node[root].parent = pivot, !.node[root].right = grandchild]
    IN  SetParent(t3, grandchild, root)

RotateRight(t, root) ==
    LET pivot == Left(t, root)
        grandchild == Right(t, pivot)
        t1 == Put(t, OwnParentPtr(t, root), pivot)
        t2 == [t1 EXCEPT !.node[pivot].parent = Parent(t, root),
                         !.node[pivot].right = root]
        t3 == [t2 EXCEPT !.node[root].parent = pivot, !.node[root].left = grandchild]
    IN  SetParent(t3, grandchild, root)

\* Cases 4 and 5 of rb_insert_fix: first elem and its parent are brought to
\* the same side, then the grandparent is rotated away.
InsertRotate(t, elem) ==
    LET parent == Parent(t, elem)
        grandparent == Parent(t, parent)
        inner == IF elem = Right(t, parent) /\ parent = Left(t, grandparent) THEN "left"
                 ELSE IF elem = Left(t, parent) /\ parent = Right(t, grandparent)
                 THEN "right" ELSE "no"
        t1 == CASE inner = "left" -> RotateLeft(t, parent)
                [] inner = "right" -> RotateRight(t, parent)
                [] OTHER -> t
        e == IF inner = "no" THEN elem ELSE parent
        p == Parent(t1, e)
        t2 == Paint(Paint(t1, p, "BLACK"), grandparent, "RED")
    IN  IF e = Left(t2, p) THEN RotateRight(t2, grandparent)
        ELSE RotateLeft(t2, grandparent)

RECURSIVE InsertFix(_, _)
InsertFix(t, elem) ==
    LET red == Paint(t, elem, "RED")
        parent == Parent(t, elem)
        grandparent == Parent(t, parent)
        uncle == Sibling(t, parent, grandparent)
    IN  IF elem = t.root THEN Paint(t, elem, "BLACK")
        ELSE IF Color(t, parent) = "BLACK" THEN red
        ELSE IF Color(t, uncle) = "RED"
        THEN InsertFix(Paint(Paint(Paint(red, parent, "BLACK"), uncle, "BLACK"),
                             grandparent, "RED"), grandparent)
        ELSE InsertRotate(red, elem)

\* avs_rbtree_attach__ gives the element that is in the tree afterwards.
Attach(t, elem) ==
    LET link == FindPtr(t, KeyOf(elem))
        t1 == [Put(t, link, elem) EXCEPT !.node[elem].parent = link.of,
                                         !.size = @ + 1]
    IN  IF At(t, link) # NIL THEN [tree |-> t, elem |-> At(t, link)]
        ELSE [tree |-> InsertFix(t1, elem), elem |-> elem]

------------------------------------------------------------------------------
(* Detaching                                                               *)

\* rb_swap_nodes: a and b change places, links of one to the other included.
SwapNodes(t, a, b) ==
    LET pa == OwnParentPtr(t, a)
        pb == OwnParentPtr(t, b)
        t1 == IF Parent(t, a) = b THEN [t EXCEPT !.node[a].parent = a]
              ELSE IF Parent(t, b) = a THEN [t EXCEPT !.node[b].parent = b] ELSE t
        t2 == Swap(t1, pa, pb)
        t3 == [t2 EXCEPT !.node[a].parent = Parent(t2, b),
                         !.node[b].parent = Parent(t2, a)]
        t4 == Swap(t3, [of |-> a, side |-> "left"], [of |-> b, side |-> "left"])
        t5 == SetParent(SetParent(t4, Left(t4, a), a), Left(t4, b), b)
        t6 == Swap(t5, [of |-> a, side |-> "right"], [of |-> b, side |-> "right"])
        t7 == SetParent(SetParent(t6, Right(t6, a), a), Right(t6, b), b)
    IN  [t7 EXCEPT !.node[a].color = Color(t, b), !.node[b].color = Color(t, a)]

\* Cases 5 and 6 of rb_detach_fix
DetachRotate(t, elem, parent, sibling) ==
    LET onLeft == elem = Left(t, parent)
        near == IF onLeft THEN Left(t, sibling) ELSE Right(t, sibling)
        far == IF onLeft THEN Right(t, sibling) ELSE Left(t, sibling)
        repainted == Paint(Paint(t, sibling, "RED"), near, "BLACK")
        t1 == IF Color(t, far) = "RED" THEN t
              ELSE IF onLeft THEN RotateRight(repainted, sibling)
              ELSE RotateLeft(repainted, sibling)
        s == Sibling(t1, elem, parent)
        t2 == Paint(Paint(t1, s, Color(t1, parent)), parent, "BLACK")
    IN  IF onLeft THEN RotateLeft(Paint(t2, Right(t2, s), "BLACK"), parent)
        ELSE RotateRight(Paint(t2, Left(t2, s), "BLACK"), parent)

RECURSIVE DetachFix(_, _, _)
DetachFix(t, elem, parent) ==
    LET s0 == Sibling(t, elem, parent)
        redSibling == Color(t, s0) = "RED"
        repainted == Paint(Paint(t, parent, "RED"), s0, "BLACK")
        t1 == IF ~redSibling THEN t
              ELSE IF elem = Left(t, parent) THEN RotateLeft(repainted, parent)
              ELSE RotateRight(repainted, parent)
        s == Sibling(t1, elem, parent)
        nephewsBlack == /\ Color(t1, Left(t1, s)) = "BLACK"
                        /\ Color(t1, Right(t1, s)) = "BLACK"
        t2 == Paint(t1, s, "RED")
    IN  IF parent = NIL THEN t
        ELSE IF nephewsBlack /\ Color(t1, parent) = "BLACK"
        THEN DetachFix(t2, parent, Parent(t2, parent))
        ELSE IF nephewsBlack THEN Paint(t2, parent, "BLACK")
        ELSE DetachRotate(t1, elem, parent, s)

\* avs_rbtree_detach__ once elem has at most one child
Unlink(t, elem) ==
    LET child == IF Left(t, elem) # NIL THEN Left(t, elem) ELSE Right(t, elem)
        parent == Parent(t, elem)
        t1 == Put(SetParent(t, child, parent), OwnParentPtr(t, elem), child)
        t2 == [t1 EXCEPT !.node[elem] = Detached, !.size = @ - 1]
    IN  IF Color(t, elem) = "RED" \/ Color(t, child) = "RED"
        THEN IF child = NIL THEN t2 ELSE Paint(t2, child, "BLACK")
        ELSE DetachFix(t2, child, parent)

DetachUnfixed(t, elem) ==
    LET s == IF Left(t, elem) # NIL /\ Right(t, elem) # NIL
             THEN SwapNodes(t, elem, ElemNext(t, elem)) ELSE t
        child == IF Left(s, elem) # NIL THEN Left(s, elem) ELSE Right(s, elem)
        t1 == Put(SetParent(s, child, Parent(s, elem)), OwnParentPtr(s, elem), child)
    IN  [t1 EXCEPT !.node[elem] = Detached, !.size = @ - 1]

Detach(t, elem) ==
    Unlink(IF Left(t, elem) # NIL /\ Right(t, elem) # NIL
           THEN SwapNodes(t, elem, ElemNext(t, elem)) ELSE t, elem)

------------------------------------------------------------------------------
(* Cleaning up, and cloning                                                *)

RECURSIVE PostorderFirst(_, _)
PostorderFirst(t, e) ==
    IF e = NIL THEN NIL
    ELSE IF Left(t, e) # NIL THEN PostorderFirst(t, Left(t, e))
    ELSE IF Right(t, e) # NIL THEN PostorderFirst(t, Right(t, e))
    ELSE e

PostorderNext(t, curr) ==
    LET p == Parent(t, curr)
    IN  IF p # NIL /\ Right(t, p) # NIL /\ Right(t, p) # curr
        THEN PostorderFirst(t, Right(t, p)) ELSE p

\* *tree is the element to be released next.
CleanupFirst(t) == [t EXCEPT !.root = PostorderFirst(t, t.root)]

CleanupNext(t) ==
    LET curr == t.root
        t1 == Put(t, OwnParentPtr(t, curr), NIL)
    IN  [t1 EXCEPT !.node[curr].color = "DETACHED", !.node[curr].parent = NIL,
                   !.size = @ - 1, !.root = PostorderNext(t, curr)]

\* rb_subtree_clone with memory for so many more nodes: whether it succeeds,
\* how many nodes it has allocated and how many of those it has freed.
RECURSIVE SubtreeClone(_, _, _)
SubtreeClone(t, e, memory) ==
    LET l == SubtreeClone(t, Left(t, e), memory - 1)
        r == SubtreeClone(t, Right(t, e), memory - 1 - l.allocated)
        all == 1 + l.allocated + (IF l.ok THEN r.allocated ELSE 0)
    IN  IF e = NIL THEN [ok |-> TRUE, allocated |-> 0, freed |-> 0, image |-> <<>>]
        ELSE IF memory <= 0 THEN [ok |-> FALSE, allocated |-> 0, freed |-> 0, image |-> <<>>]
        ELSE IF l.ok /\ r.ok
        THEN [ok |-> TRUE, allocated |-> all, freed |-> 0,
              image |-> <<Color(t, e), e, l.image, r.image>>]
        ELSE [ok |-> FALSE, allocated |-> all, freed |-> all, image |-> <<>>]

------------------------------------------------------------------------------
(***************************************************************************)
(* A program that attaches elements to a tree, detaches them               *)
(* and clears the tree, in any order.                                      *)
(***************************************************************************)

VARIABLES
    tree,       \* the tree
    attached,   \* ghost: the elements in it
    clearing,   \* AVS_RBTREE_CLEAR is in progress
    released    \* ghost: the elements it has freed

rbVars == <<tree, attached, clearing, released>>

RbInit == tree = RbtreeNew /\ attached = {} /\ clearing = FALSE /\ released = {}

RbAttach(e) ==
    LET r == Attach(tree, e)
    IN  /\ ~clearing /\ e \notin attached
        /\ tree' = r.tree
        /\ attached' = attached \cup {r.elem}
        /\ UNCHANGED <<clearing, released>>

RbDetach(e) ==
    /\ ~clearing /\ e \in attached
    /\ tree' = Detach(tree, e)
    /\ attached' = attached \ {e}
    /\ UNCHANGED <<clearing, released>>

\* AVS_RBTREE_CLEAR; it may be left with break and begun again.
RbClear ==
    /\ clearing \/ tree.root # NIL
    /\ tree' = CleanupFirst(tree)
    /\ clearing' = TRUE
    /\ UNCHANGED <<attached, released>>

RbClearNext ==
    /\ clearing
    /\ tree' = CleanupNext(tree)
    /\ released' = IF tree'.root = NIL THEN {} ELSE released \cup {tree.root}
    /\ attached' = attached \ {tree.root}
    /\ clearing' = (tree'.root # NIL)

RbNext ==
    \/ \E e \in Elements : RbAttach(e) \/ RbDetach(e)
    \/ RbClear \/ RbClearNext

------------------------------------------------------------------------------

\* The size is the number of elements, also half way through a clear, and
\* exactly the elements outside are in the detached state that
\* avs_rbtree_attach__ and avs_rbtree_elem_delete__ assert.
RbSizeIsRight ==
    /\ tree.size = Cardinality(attached)
    /\ \A e \in Elements : e \notin attached <=> tree.node[e] = Detached

RECURSIVE Inorder(_, _)
Inorder(t, e) == IF e = NIL THEN <<>>
                 ELSE Inorder(t, Left(t, e)) \o <<e>> \o Inorder(t, Right(t, e))

\* The tree holds exactly its elements, in the order of their keys, and the
\* parent pointers are the inverse of the links, after any sequence of
\* attaching and detaching (a double of a key leaves the tree alone).
RbIsSearchTree ==
    LET all == Inorder(tree, tree.root)
    IN  ~clearing =>
            /\ { all[i] : i \in DOMAIN all } = attached
            /\ \A i, j \in DOMAIN all : i < j => KeyOf(all[i]) < KeyOf(all[j])
            /\ \A e \in attached :
                  /\ At(tree, OwnParentPtr(tree, e)) = e
                  /\ \A c \in {Left(tree, e), Right(tree, e)} \ {NIL} :
                        Parent(tree, c) = e

\* The black nodes on every way down from e; -1 if ways differ.
RECURSIVE BlackHeight(_, _)
BlackHeight(t, e) ==
    LET l == BlackHeight(t, Left(t, e))
        r == BlackHeight(t, Right(t, e))
    IN  IF e = NIL THEN 1
        ELSE IF l = -1 \/ l # r THEN -1
        ELSE l + (IF Color(t, e) = "BLACK" THEN 1 ELSE 0)

\* The rules that keep operations logarithmic: the root is black, a red node
\* has no red child, and every way down has the same number of black nodes.
RbIsBalanced ==
    ~clearing =>
        /\ Color(tree, tree.root) = "BLACK"
        /\ BlackHeight(tree, tree.root) # -1
        /\ \A e \in attached : Color(tree, e) = "RED" =>
              /\ Color(tree, Left(tree, e)) = "BLACK"
              /\ Color(tree, Right(tree, e)) = "BLACK"

Least(S) == IF S = {} THEN NIL
            ELSE CHOOSE e \in S : \A x \in S : KeyOf(e) <= KeyOf(x)
Greatest(S) == IF S = {} THEN NIL
               ELSE CHOOSE e \in S : \A x \in S : KeyOf(e) >= KeyOf(x)

\* Finding, both bounds and iteration in both directions give what they
\* should for a set of keys.
RbFindsAndIterates ==
    ~clearing =>
        /\ RbtreeFirst(tree) = Least(attached)
        /\ RbtreeLast(tree) = Greatest(attached)
        /\ \A k \in { KeyOf(e) : e \in Elements } :
              /\ Find(tree, k) = Least({ e \in attached : KeyOf(e) = k })
              /\ LowerBound(tree, k) = Least({ e \in attached : KeyOf(e) >= k })
              /\ UpperBound(tree, k) = Least({ e \in attached : KeyOf(e) > k })
        /\ \A e \in attached :
              /\ ElemNext(tree, e) = Least({ x \in attached : KeyOf(x) > KeyOf(e) })
              /\ ElemPrev(tree, e) = Greatest({ x \in attached : KeyOf(x) < KeyOf(e) })

\* A clear releases every element once and never reaches a released one, and
\* it goes on where it was when it was left and begun again.
RbClearIsComplete ==
    clearing => /\ tree.root \in attached
                /\ released \cap attached = {}
                /\ Left(tree, tree.root) = NIL /\ Right(tree, tree.root) = NIL

\* A clone is the same tree; when memory runs out, at any node, it has freed
\* all that it had allocated.
RbCloneIsExact ==
    ~clearing => \A memory \in 0..Cardinality(Elements) :
        LET c == SubtreeClone(tree, tree.root, memory)
            whole == SubtreeClone(tree, tree.root, Cardinality(Elements))
        IN  /\ c.ok <=> memory >= tree.size
            /\ c.ok => c.allocated = tree.size /\ c.image = whole.image
            /\ ~c.ok => c.freed = c.allocated /\ c.allocated <= memory

\* A tree after any sequence of calls: its order, balance, size, what is
\* found in it, and clearing and cloning it.
RbtreeCorrect ==
    /\ RbSizeIsRight
    /\ RbIsSearchTree
    /\ RbIsBalanced
    /\ RbFindsAndIterates
    /\ RbClearIsComplete
    /\ RbCloneIsExact

=============================================================================
