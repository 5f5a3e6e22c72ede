----------------------------- MODULE TreePrompt -----------------------------
(***************************************************************************)
(* What a prompt shows of the session tree: the view that                  *)
(* SessionTreeSource builds for the renderer, and the tree without its     *)
(* folded nodes that GetTreeView returns.  Both are functions of the tree  *)
(* as SessionTree leaves it, read at one moment under the store's lock.    *)
(***************************************************************************)
EXTENDS SessionTree, FiniteSetsExt

CONSTANT MaxTitles     \* MaxSiblingTitles

\* No cursor, or one that is gone: the root.
ViewCursor == IF cursor \in Here THEN cursor ELSE rootId

\* The breadth-first search by child lists; Level[k] is what it reaches after k
\* steps.
PathFromRoot ==
  LET n == Cardinality(Here)
      Level[k \in 0..n] ==
        IF k = 0 THEN {rootId} ELSE UNION {ChildrenOf(m) \cap Here : m \in Level[k - 1]}
      found == {k \in 0..n : ViewCursor \in Level[k]}
      len == Min(found)
      up[i \in 0..len] ==     \* i steps above the cursor
        IF i = 0 THEN ViewCursor
        ELSE CHOOSE m \in Level[len - i] : up[i - 1] \in ChildrenOf(m)
  IN IF found = {} THEN <<rootId, ViewCursor>>
     ELSE [i \in 1 .. len + 1 |-> up[len + 1 - i]]

\* The children a view shows: the first few that are not folded, in order.
ShownChildren(all) ==
  LET live == SelectSeq(nodes[ViewCursor].children,
                        LAMBDA c : c \in Here /\ (all \/ ~nodes[c].promoted))
  IN [shown |-> SubSeq(live, 1, Min({MaxTitles, Len(live)})), total |-> Len(live)]

FoldedChildren(all) ==
  IF all THEN {} ELSE {c \in ChildrenOf(ViewCursor) \cap Here : nodes[c].promoted}

\* Those among which the most recently finished one is taken.
DoneSiblings(all) ==
  LET p == nodes[ViewCursor].parent IN
  IF p \notin Here THEN {}
  ELSE {c \in (ChildrenOf(p) \cap Here) \ {ViewCursor} : all \/ ~nodes[c].promoted}

BuildView(all) ==
  [path |-> PathFromRoot, shown |-> ShownChildren(all).shown, total |-> ShownChildren(all).total,
   folded |-> FoldedChildren(all), done |-> DoneSiblings(all)]

---------------------------------------------------------------------------
(* GetTreeView *)

\* Wrong variant: only the children of a folded node go with it.
Dropped_OneLevel ==
  LET promoted == {n \in Here : nodes[n].promoted}
  IN promoted \cup UNION {ChildrenOf(n) : n \in promoted}

\* The folded nodes and everything below them.
Dropped ==
  LET promoted == {n \in Here : nodes[n].promoted}
      below[k \in 0..Cardinality(Here)] ==
        IF k = 0 THEN promoted ELSE below[k - 1] \cup UNION {ChildrenOf(n) \cap Here : n \in below[k - 1]}
  IN below[Cardinality(Here)]

FilterPromoted ==
  [n \in Here \ Dropped |->
     [nodes[n] EXCEPT !.children = SelectSeq(@, LAMBDA c : c \notin Dropped)]]

---------------------------------------------------------------------------
(* A prompt never shows a tree that is not there.  The path of the view     *)
(* leads from the root to the cursor along parents; the children shown, cut *)
(* off and folded are all children of the cursor, and no folded one is      *)
(* shown.  The tree without folded nodes is closed: a node is left exactly  *)
(* if neither it nor one above it is folded, and only such are listed.      *)
ViewSound ==
  Here # {} =>
    /\ \A all \in BOOLEAN :
         LET v == BuildView(all)  n == Len(v.path) IN
         /\ v.path[1] = rootId /\ v.path[n] = ViewCursor
         /\ n = nodes[ViewCursor].depth + 1
         /\ \A i \in 2..n : nodes[v.path[i]].parent = v.path[i - 1]
         /\ v.total + Cardinality(v.folded) = Len(nodes[ViewCursor].children)
         /\ Len(v.shown) = Min({v.total, MaxTitles})
         /\ \A i \in DOMAIN v.shown : v.shown[i] \notin v.folded
         /\ ViewCursor \notin v.done
    /\ LET view == FilterPromoted
           above[n \in Here] == {n} \cup (IF n = rootId THEN {} ELSE above[nodes[n].parent])
       IN \A n \in Here :
            /\ (n \in DOMAIN view) = (\A m \in above[n] : ~nodes[m].promoted)
            /\ n \in DOMAIN view => \A i \in DOMAIN view[n].children : view[n].children[i] \in DOMAIN view
=============================================================================
