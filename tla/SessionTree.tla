---- MODULE SessionTree ----
(***************************************************************************)
(* What a session promises: a tree of nodes that is only added to, and one *)
(* node of it, or none, that is the current one.  A parent is added before *)
(* its children.  The one exception is a death: it may cost the newest.    *)
(***************************************************************************)
EXTENDS Integers

VARIABLES
  tree,       \* the nodes, each with its id and its parent's (0: a root)
  current     \* the id of the current node, 0 if there is none

treeVars == <<tree, current>>

NamesOf(nodes) == {n.id : n \in nodes}
Rooted(nodes) == \A n \in nodes : n.parent \in NamesOf(nodes) \union {0}

TreeInit ==
  \/ tree = {} /\ current = 0
  \/ \E n \in tree : tree = {n} /\ n.parent = 0 /\ current = n.id

\* A node is added below another one; the current node stays or is the new one.
Grow ==
  \E n \in tree' \ tree :
    /\ n.id \notin NamesOf(tree)
    /\ tree' = tree \union {n}
    /\ Rooted(tree')
    /\ current' \in {current, n.id}

\* Another node is made the current one; a head file that was lost makes it none.
Move ==
  /\ UNCHANGED tree
  /\ current' \in NamesOf(tree) \union {0}

\* A recovery that died, or a line written behind one without its newline: only the
\* oldest nodes are left.
Lose ==
  /\ tree' \subseteq tree
  /\ \A stays \in tree', goes \in tree \ tree' : stays.id < goes.id
  /\ current' \in NamesOf(tree') \union {0}

TreeSpec == TreeInit /\ [][Grow \/ Move \/ Lose]_treeVars
====
