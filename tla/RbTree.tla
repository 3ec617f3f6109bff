------------------------------ MODULE RbTree ------------------------------
(***************************************************************************)
(* brsdk::ds red-black trees.  A node is its key.  The two mirrored halves *)
(* of each loop of the code are one operator with a side: s is the side of *)
(* its parent a node is on, Other(s) the opposite one.  An assignment to a *)
(* field of node n is a field of the tree t with n replaced; Nil has no    *)
(* fields, so using one through a null pointer is an error here as well.   *)
(***************************************************************************)
EXTENDS Integers, FiniteSets, SequencesExt

CONSTANTS Keys

Nil == 0

ASSUME RbAssumption == Keys \subseteq Nat \ {Nil} /\ IsFiniteSet(Keys)

VARIABLES tree,       \* root, and the fields of the nodes
          contents,   \* history: the keys inserted and not removed
          lost        \* rb_insert has dropped the tree

rbVars == <<tree, contents, lost>>

Other(s) == IF s = "left" THEN "right" ELSE "left"

Red(t, n) == n # Nil /\ t.color[n] = "red"

SetChild(t, s, n, x) == [t EXCEPT ![s][n] = x]
SetParent(t, n, p) == IF n = Nil THEN t ELSE [t EXCEPT !.parent[n] = p]
SetColor(t, n, c) == IF n = Nil THEN t ELSE [t EXCEPT !.color[n] = c]
SetParentColor(t, n, p, c) == SetColor(SetParent(t, n, p), n, c)

(* __rb_change_child                                                       *)
ChangeChild(t, old, new, parent) ==
  IF parent = Nil THEN [t EXCEPT !.root = new]
  ELSE SetChild(t, IF t.left[parent] = old THEN "left" ELSE "right", parent, new)

(* __rb_rotate_set_parents                                                 *)
RotateSetParents(t, old, new, color) ==
  ChangeChild(SetParentColor(SetParentColor(t, new, t.parent[old], t.color[old]),
                             old, new, color),
              old, new, t.parent[old])

(* The child of n on the side Other(s) takes its place, and n goes to side *)
(* s of it; what lay between them changes hands.                           *)
Lowered(t, n, s) ==
  LET up == t[Other(s)][n]
  IN SetChild(SetChild(t, Other(s), n, t[s][up]), s, up, n)

(***************************************************************************)
(* Insertion                                                               *)
(***************************************************************************)
(* rb_link_node: n is a new leaf on side s of parent.                      *)
LinkNode(t, n, parent, s) ==
  LET t1 == SetParentColor(SetChild(SetChild(t, "left", n, Nil), "right", n, Nil),
                           n, parent, "red")
  IN IF parent = Nil THEN [t1 EXCEPT !.root = n] ELSE SetChild(t1, s, parent, n)

Flipped(t, node, side) ==
  LET p == t.parent[node] g == t.parent[p]
  IN SetColor(SetColor(SetColor(t, t[Other(side)][g], "black"), p, "black"), g, "red")

(* Case 2 brings a node on the inner side to the outer one; case 3 rotates *)
(* the grandparent under the parent.                                       *)
Rotated(t, node, s) ==
  LET p == t.parent[node]
      g == t.parent[p]
      inner == node = t[Other(s)][p]
      t2 == IF inner
            THEN SetParentColor(SetParentColor(Lowered(t, p, s), t[s][node], p, "black"),
                                p, node, "red")
            ELSE t
      top == IF inner THEN node ELSE p
      moved == t2[Other(s)][top]
      t3 == SetChild(SetChild(t2, s, g, moved), Other(s), top, g)
  IN RotateSetParents(SetParentColor(t3, moved, g, "black"), g, top, "red")

RECURSIVE InsertColor(_, _)
InsertColor(t, node) ==
  LET p == t.parent[node]
      g == t.parent[p]
      s == IF p # t.right[g] THEN "left" ELSE "right"
  IN IF p = Nil THEN SetColor(t, node, "black")
     ELSE IF ~Red(t, p) THEN t
     ELSE IF Red(t, t[Other(s)][g]) THEN InsertColor(Flipped(t, node, s), g)
     ELSE Rotated(t, node, s)

(***************************************************************************)
(* Removal                                                                 *)
(***************************************************************************)
(* The tree without n, and the node below which a black one is missing.    *)
Spliced(t, n) ==
  LET l == t.left[n]  r == t.right[n]  p == t.parent[n]
      child == IF l = Nil THEN r ELSE l
      t1 == ChangeChild(t, n, child, p)
  IN [tree |-> SetParentColor(t1, child, p, t.color[n]),
      rebalance |-> IF child = Nil /\ ~Red(t, n) THEN p ELSE Nil]

RECURSIVE Deepest(_, _, _)
Deepest(t, s, n) == IF t[s][n] = Nil THEN n ELSE Deepest(t, s, t[s][n])

Succeeded(t, n) ==
  LET child == t.right[n]
      heir == Deepest(t, "left", child)
      child2 == t.right[heir]
      parent == IF heir = child THEN heir ELSE t.parent[heir]
      t1 == IF heir = child THEN t
            ELSE SetParent(SetChild(SetChild(t, "left", parent, child2),
                                    "right", heir, child), child, heir)
      t2 == SetParent(SetChild(t1, "left", heir, t.left[n]), t.left[n], heir)
      t3 == ChangeChild(t2, n, heir, t.parent[n])
      t4 == SetParentColor(t3, heir, t.parent[n], t.color[n])
  IN [tree |-> SetParentColor(t4, child2, parent, "black"),
      rebalance |-> IF child2 = Nil /\ ~Red(t, heir) THEN parent ELSE Nil]

EraseAugmented(t, n) ==
  IF t.left[n] = Nil \/ t.right[n] = Nil THEN Spliced(t, n) ELSE Succeeded(t, n)

(* A bug: only one nephew is looked at.                                    *)
RightBlack(t, sibling) == ~Red(t, t.right[sibling])

BothBlack(t, sibling) == ~Red(t, t.left[sibling]) /\ ~Red(t, t.right[sibling])

(* Below parent, the side of node has a black node too few.                *)
RECURSIVE EraseColor(_, _, _)
EraseColor(t, node, parent) ==
  LET s == IF node # t.right[parent] THEN "left" ELSE "right"
      o == Other(s)
      red == t[o][parent]
      \* Case 1: a red sibling comes up
      near == t[s][red]
      t1 == IF Red(t, red)
            THEN RotateSetParents(SetParentColor(Lowered(t, parent, s), near, parent,
                                                 "black"), parent, red, "red")
            ELSE t
      sibling == t1[o][parent]
      \* Case 3: the near child of the sibling comes up
      inner == t1[s][sibling]
      t3 == IF Red(t1, t1[o][sibling]) THEN t1
            ELSE LET low == SetChild(Lowered(t1, sibling, o), o, parent, inner)
                 IN SetParentColor(low, t1[o][inner], sibling, "black")
      top == t3[o][parent]
      far == IF Red(t1, t1[o][sibling]) THEN t1[o][sibling] ELSE sibling
      \* Case 4: the sibling comes up
      t4 == SetParent(SetParentColor(Lowered(t3, parent, s), far, top, "black"),
                      t3[s][top], parent)
  IN IF BothBlack(t1, sibling)
     THEN \* Case 2
          LET t2 == SetParentColor(t1, sibling, parent, "red")
          IN IF Red(t2, parent) THEN SetColor(t2, parent, "black")
             ELSE IF t2.parent[parent] = Nil THEN t2
             ELSE EraseColor(t2, parent, t2.parent[parent])
     ELSE RotateSetParents(t4, parent, top, "black")

Erase(t, n) ==
  LET e == EraseAugmented(t, n)
  IN IF e.rebalance = Nil THEN e.tree ELSE EraseColor(e.tree, Nil, e.rebalance)

(***************************************************************************)
(* Searching and walking                                                   *)
(***************************************************************************)
RECURSIVE SearchFrom(_, _, _)
SearchFrom(t, k, n) ==
  IF n \in {Nil, k} THEN n
  ELSE SearchFrom(t, k, IF n > k THEN t.left[n] ELSE t.right[n])

Search(t, k) == SearchFrom(t, k, t.root)

(* The first ancestor-or-parent of n that n is not on side s of.           *)
RECURSIVE Climb(_, _, _)
Climb(t, s, n) ==
  LET p == t.parent[n]
  IN IF p # Nil /\ n = t[s][p] THEN Climb(t, s, p) ELSE p

(* rb_next for s = "right", rb_prev for s = "left".                        *)
Neighbour(t, s, n) ==
  IF t[s][n] # Nil THEN Deepest(t, Other(s), t[s][n]) ELSE Climb(t, s, n)

(* rb_first and rb_last                                                    *)
Extreme(t, s) == IF t.root = Nil THEN Nil ELSE Deepest(t, s, t.root)

(* rb_left_deepest_node                                                    *)
RECURSIVE LeftDeepest(_, _)
LeftDeepest(t, n) ==
  IF t.left[n] # Nil THEN LeftDeepest(t, t.left[n])
  ELSE IF t.right[n] # Nil THEN LeftDeepest(t, t.right[n])
  ELSE n

FirstPostorder(t) == IF t.root = Nil THEN Nil ELSE LeftDeepest(t, t.root)

NextPostorder(t, n) ==
  LET p == t.parent[n]
  IN IF p # Nil /\ n = t.left[p] /\ t.right[p] # Nil THEN LeftDeepest(t, t.right[p])
     ELSE p

(***************************************************************************)
(* The operations                                                          *)
(***************************************************************************)
RbInit ==
  /\ tree = [root |-> Nil, left |-> [n \in Keys |-> Nil], right |-> [n \in Keys |-> Nil],
             parent |-> [n \in Keys |-> Nil], color |-> [n \in Keys |-> "red"]]
  /\ contents = {}
  /\ lost = FALSE

(* Fields of nodes outside the tree do not matter.                         *)
Cleared(t, n) ==
  SetParentColor(SetChild(SetChild(t, "left", n, Nil), "right", n, Nil), n, Nil, "red")

RECURSIVE Leaf(_, _, _)
Leaf(t, k, n) ==
  LET s == IF k < n THEN "left" ELSE "right"
  IN IF t[s][n] = Nil THEN <<n, s>> ELSE Leaf(t, k, t[s][n])

(* The caller finds the place, links the node and calls rb_insert_color.   *)
Insert(k) ==
  /\ ~lost
  /\ k \notin contents
  /\ LET at == IF tree.root = Nil THEN <<Nil, "left">> ELSE Leaf(tree, k, tree.root)
     IN tree' = InsertColor(LinkNode(tree, k, at[1], at[2]), k)
  /\ contents' = contents \cup {k}
  /\ UNCHANGED lost

(* rb_remove                                                               *)
RbRemove(k) ==
  /\ ~lost
  /\ Search(tree, k) # Nil
  /\ tree' = Cleared(Erase(tree, k), k)
  /\ contents' = contents \ {k}
  /\ UNCHANGED lost

(* rb_replace_node, by a node that sorts to the same place.                *)
Replace(k, new) ==
  /\ ~lost
  /\ k \in contents /\ new \notin contents
  /\ Neighbour(tree, "left", k) < new
  /\ Neighbour(tree, "right", k) # Nil => new < Neighbour(tree, "right", k)
  /\ LET t1 == ChangeChild(tree, k, new, tree.parent[k])
         t2 == SetParent(SetParent(t1, tree.left[k], new), tree.right[k], new)
         t3 == SetChild(SetChild(t2, "left", new, t2.left[k]), "right", new, t2.right[k])
     IN tree' = Cleared(SetParentColor(t3, new, tree.parent[k], tree.color[k]), k)
  /\ contents' = (contents \ {k}) \cup {new}
  /\ UNCHANGED lost

(* rb_insert does nothing on an empty tree.  Its loop tests the address of *)
(* the root's pointer and is never entered, so on any other tree the node  *)
(* replaces the root and the rest is lost.                                 *)
RbInsert(k) ==
  /\ ~lost
  /\ tree.root # Nil /\ k \notin contents
  /\ tree' = InsertColor(LinkNode(tree, k, Nil, "left"), k)
  /\ contents' = contents \cup {k}
  /\ lost' = TRUE

RbNext ==
  \E k \in Keys :
     \/ Insert(k)
     \/ RbRemove(k)
     \/ \E new \in Keys : Replace(k, new)
     \/ RbInsert(k)

RbSpec == RbInit /\ [][RbNext]_rbVars
-----------------------------------------------------------------------------
RECURSIVE Walked(_, _, _)
Walked(t, s, n) == IF n = Nil THEN <<>> ELSE <<n>> \o Walked(t, s, Neighbour(t, s, n))

RECURSIVE WalkedPostorder(_, _)
WalkedPostorder(t, n) ==
  IF n = Nil THEN <<>> ELSE <<n>> \o WalkedPostorder(t, NextPostorder(t, n))

(* Each key once, and none before its children.                            *)
ChildrenFirst(t, s) ==
  /\ IsInjective(s) /\ Range(s) = contents
  /\ \A i, j \in DOMAIN s : s[i] \in {t.left[s[j]], t.right[s[j]]} => i < j

Sorted(S) ==
  [i \in 1..Cardinality(S) |-> CHOOSE k \in S : Cardinality({j \in S : j <= k}) = i]

RECURSIVE Under(_, _)
Under(t, n) ==
  IF n = Nil THEN {} ELSE {n} \cup Under(t, t.left[n]) \cup Under(t, t.right[n])

(* The black nodes on the way up from n.                                   *)
RECURSIVE BlackAbove(_, _)
BlackAbove(t, n) ==
  IF n = Nil THEN 0 ELSE BlackAbove(t, t.parent[n]) + (IF Red(t, n) THEN 0 ELSE 1)

(* The rules at the head of rbtree.cpp (lines 31-38).                      *)
RedBlack(t) ==
  /\ ~Red(t, t.root)
  /\ \A n \in contents : Red(t, n) => ~Red(t, t.left[n]) /\ ~Red(t, t.right[n])
  /\ \A m, n \in contents :
       Nil \in {t.left[m], t.right[m]} /\ Nil \in {t.left[n], t.right[n]}
         => BlackAbove(t, m) = BlackAbove(t, n)

(* After any sequence of insertions, removals and replacements the tree    *)
(* holds exactly its keys, rb_next and rb_prev visit them in order and the *)
(* postorder walk visits children before their parents, searching finds    *)
(* them, and it is balanced (rbtree.cpp:114-680).                          *)
RbSound ==
  ~lost =>
    /\ Under(tree, tree.root) = contents
    /\ Walked(tree, "right", Extreme(tree, "left")) = Sorted(contents)
    /\ Walked(tree, "left", Extreme(tree, "right")) = Reverse(Sorted(contents))
    /\ ChildrenFirst(tree, WalkedPostorder(tree, FirstPostorder(tree)))
    /\ \A k \in Keys : Search(tree, k) = IF k \in contents THEN k ELSE Nil
    /\ RedBlack(tree)
=============================================================================
