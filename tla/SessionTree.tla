---------------------------- MODULE SessionTree ----------------------------
(***************************************************************************)
(* The tree of one session (session/tree): node operations, each atomic    *)
(* under the store's lock, and promotion, which is not.  PromoteNode takes *)
(* a snapshot of the eligible children, calls the promoter without the     *)
(* lock, and commits against the tree as it has become.  AddNode and       *)
(* UpdateNode may trigger a promotion in the background, after they have   *)
(* given up the lock.                                                      *)
(*                                                                         *)
(* Both stores work this way; a write of FileTreeStore may also fail, which *)
(* changes nothing.  (Its DeleteTree also forgets the lock while others may *)
(* wait for it: the model's atomicity is MapTreeStore's.)  A node's text is *)
(* its revision, a summary the set of texts it was made from.              *)
(***************************************************************************)
EXTENDS Integers, Sequences, FiniteSets, SequencesExt

CONSTANTS
  TreeNode,      \* node ids; generateNodeID never repeats one
  NoNode,        \* the empty node id
  TreeCaller,    \* goroutines that call the store
  TreeWorker,    \* bound: background promotions at a time
  TreeMaxNodes,  \* MaxNodes
  MaxUpdates     \* bound: UpdateNode calls

ASSUME TreeAssumption ==
  /\ TreeNode \subseteq Nat
  /\ NoNode \notin TreeNode
  /\ TreeCaller \cap TreeWorker = {}
  /\ TreeMaxNodes \in Nat \ {0} /\ MaxUpdates \in Nat

VARIABLES
  nodes,      \* the tree, a function on its node ids; empty if there is none
  rootId,
  cursor,
  nextId,     \* the next id to mint
  proc,       \* what each goroutine does
  inflight,   \* promotionInflight: parents with a background promotion
  updates     \* UpdateNode calls so far

treeVars == <<nodes, rootId, cursor, nextId, proc, inflight, updates>>
shape == <<nodes, rootId, cursor>>

Here == DOMAIN nodes
Text == TreeNode \X Nat
Idle == [at |-> "idle", node |-> NoNode, plan |-> {}, text |-> {}, changed |-> {}]

NodeRecord ==
  [ parent : TreeNode \cup {NoNode}, children : Seq(TreeNode), depth : Nat,
    pinned : BOOLEAN, promoted : BOOLEAN,
    summary : SUBSET Text, rev : Nat ]

\* A node as CreateTree and AddNode store it; the flags are the caller's.
NewNode(parent, depth, pinned, promoted) ==
  [ parent |-> parent, children |-> <<>>, depth |-> depth, pinned |-> pinned,
    promoted |-> promoted, summary |-> {}, rev |-> 0 ]

TreeTypeOK ==
  /\ Here \subseteq TreeNode
  /\ \A n \in Here : nodes[n] \in NodeRecord
  /\ rootId \in TreeNode \cup {NoNode}
  /\ cursor \in TreeNode \cup {NoNode}
  /\ nextId \in Nat
  /\ proc \in [TreeCaller \cup TreeWorker ->
                 [ at : {"idle", "decide", "start", "gap"}, node : TreeNode \cup {NoNode},
                   plan : SUBSET TreeNode, text : SUBSET Text,
                   changed : SUBSET TreeNode ]]   \* history: planned, and updated since
  /\ inflight \in SUBSET TreeNode
  /\ updates \in 0..MaxUpdates

TreeInit ==
  /\ nodes = << >> /\ rootId = NoNode /\ cursor = NoNode /\ nextId = 1
  /\ proc = [x \in TreeCaller \cup TreeWorker |-> Idle]
  /\ inflight = {}
  /\ updates = 0

-----------------------------------------------------------------------------
\* Node operations

Become(x, p) == proc' = [proc EXCEPT ![x] = p]
Free(c) == c \in TreeCaller /\ proc[c].at = "idle"

CreateTree ==
  /\ Here = {} /\ nextId \in TreeNode
  /\ nodes' = [n \in {nextId} |-> NewNode(NoNode, 0, FALSE, FALSE)]
  /\ rootId' = nextId /\ cursor' = nextId /\ nextId' = nextId + 1
  /\ UNCHANGED <<proc, inflight, updates>>

\* The caller then goes on to look for a promotion of the parent.
AddNode(c, p, pinned, promoted) ==
  /\ Free(c)
  /\ p \in Here /\ Cardinality(Here) < TreeMaxNodes /\ nextId \in TreeNode
  /\ nodes' = [n \in Here \cup {nextId} |->
                 IF n = nextId THEN NewNode(p, nodes[p].depth + 1, pinned, promoted)
                 ELSE IF n = p THEN [nodes[p] EXCEPT !.children = Append(@, nextId)]
                 ELSE nodes[n]]
  /\ nextId' = nextId + 1
  /\ Become(c, [Idle EXCEPT !.at = "decide", !.node = p])
  /\ UNCHANGED <<rootId, cursor, inflight, updates>>

\* The promotions that have read n will write a summary of its old text.
Outdated(n) ==
  [x \in DOMAIN proc |-> IF n \in proc[x].plan THEN [proc[x] EXCEPT !.changed = @ \cup {n}]
                                                ELSE proc[x]]

\* applyUpdate: the whole mutable part comes from the request, so a node may
\* be promoted or brought back by hand.
UpdateNode(c, n, pinned, promoted) ==
  /\ Free(c)
  /\ n \in Here /\ updates < MaxUpdates
  /\ nodes' = [nodes EXCEPT ![n].pinned = pinned, ![n].promoted = promoted,
                            ![n].summary = {}, ![n].rev = @ + 1]
  /\ updates' = updates + 1
  /\ proc' = [Outdated(n) EXCEPT ![c] = IF nodes[n].parent = NoNode THEN Idle
                 ELSE [Idle EXCEPT !.at = "decide", !.node = nodes[n].parent]]
  /\ UNCHANGED <<rootId, cursor, nextId, inflight>>

\* The first occurrence goes.
RemoveID(ids, v) ==
  IF \E i \in DOMAIN ids : ids[i] = v
  THEN RemoveAt(ids, CHOOSE i \in DOMAIN ids : ids[i] = v /\ \A j \in 1..(i - 1) : ids[j] # v)
  ELSE ids

\* Wrong variant: the parent keeps the id of the node that is gone.
DeleteNode_KeepId(n) ==
  /\ n \in Here /\ n # rootId /\ nodes[n].children = <<>>
  /\ nodes' = [m \in Here \ {n} |-> nodes[m]]
  /\ cursor' = IF cursor = n THEN rootId ELSE cursor
  /\ UNCHANGED <<rootId, nextId, proc, inflight, updates>>

\* Leaves only; a cursor on the node goes back to the root.
DeleteNode(n) ==
  /\ n \in Here /\ n # rootId /\ nodes[n].children = <<>>
  /\ nodes' = [m \in Here \ {n} |->
                 IF m = nodes[n].parent THEN [nodes[m] EXCEPT !.children = RemoveID(@, n)]
                 ELSE nodes[m]]
  /\ cursor' = IF cursor = n THEN rootId ELSE cursor
  /\ UNCHANGED <<rootId, nextId, proc, inflight, updates>>

SetCursor(n) ==
  /\ Here # {} /\ n \in Here \cup {NoNode}
  /\ cursor' = n
  /\ UNCHANGED <<nodes, rootId, nextId, proc, inflight, updates>>

DeleteTree ==
  /\ Here # {}
  /\ nodes' = << >> /\ rootId' = NoNode /\ cursor' = NoNode
  /\ UNCHANGED <<nextId, proc, inflight, updates>>

-----------------------------------------------------------------------------
\* Promotion

ChildrenOf(p) == {nodes[p].children[i] : i \in DOMAIN nodes[p].children}

EligibleChildren(p) ==
  {c \in ChildrenOf(p) \cap Here : ~nodes[c].promoted /\ ~nodes[c].pinned}

\* Wrong variant: the reservation is not looked at.
Reserve_Always(p) == TRUE

\* promotionInflight.reserve.
Reserve(p) == p \notin inflight

\* Goroutines are alike: which of them runs a promotion does not matter.
IdleWorkers == {w \in TreeWorker : proc[w].at = "idle"}

\* maybeTriggerPromotion.  The decider is the application's and may say
\* anything; a trigger for a parent already in flight is dropped.
Decide(c) ==
  /\ proc[c].at = "decide"
  /\ LET p == proc[c].node IN
     \/ /\ p \in Here /\ Reserve(p)
        /\ inflight' = inflight \cup {p}
        /\ IdleWorkers # {}
        /\ proc' = [proc EXCEPT ![c] = Idle,
                                ![CHOOSE w \in IdleWorkers : TRUE] =
                                  [Idle EXCEPT !.at = "start", !.node = p]]
     \/ /\ Become(c, Idle)
        /\ UNCHANGED inflight
  /\ UNCHANGED <<shape, nextId, updates>>

\* The end of PromoteNode; a background goroutine gives its reservation back.
EndPromotion(x) ==
  /\ Become(x, Idle)
  /\ inflight' = IF x \in TreeWorker THEN inflight \ {proc[x].node} ELSE inflight

\* Phase 1 of PromoteNode(p).
Snapshot(x, p) ==
  /\ \/ Free(x) \/ (proc[x].at = "start" /\ proc[x].node = p)
  /\ IF p \in Here /\ EligibleChildren(p) # {}
     THEN /\ Become(x, [ at |-> "gap", node |-> p, plan |-> EligibleChildren(p),
                         text |-> nodes[p].summary \cup
                                    {<<c, nodes[c].rev>> : c \in EligibleChildren(p)},
                         changed |-> {} ])
          /\ UNCHANGED inflight
     ELSE EndPromotion(x)
  /\ UNCHANGED <<shape, nextId, updates>>

\* The promoter, or the write at the end, fails.
PromotionFails(x) ==
  /\ proc[x].at = "gap"
  /\ EndPromotion(x)
  /\ UNCHANGED <<shape, nextId, updates>>

\* Wrong variant: whatever is eligible by now is folded.
Folded_Now(p, plan) == EligibleChildren(p)

\* applyPromotion: the planned children that are still eligible.  Only pinning
\* and hiding make a child ineligible, a new text does not.
Folded(p, plan) == EligibleChildren(p) \cap plan

\* Phase 3.
CommitPromotion(x) ==
  /\ proc[x].at = "gap"
  /\ LET p == proc[x].node
         folded == IF p \in Here THEN Folded(p, proc[x].plan) ELSE {}
     IN  nodes' = IF folded = {} THEN nodes
                  ELSE [n \in Here |->
                          IF n \in folded THEN [nodes[n] EXCEPT !.promoted = TRUE]
                          ELSE IF n = p THEN [nodes[n] EXCEPT !.summary = proc[x].text]
                          ELSE nodes[n]]
  /\ EndPromotion(x)
  /\ UNCHANGED <<rootId, cursor, nextId, updates>>

TreeStep ==
  \/ CreateTree \/ DeleteTree
  \/ \E n \in TreeNode : DeleteNode(n)
  \/ \E n \in TreeNode \cup {NoNode} : SetCursor(n)
  \/ \E c \in TreeCaller :
       \/ \E p \in TreeNode, pinned, promoted \in BOOLEAN : AddNode(c, p, pinned, promoted)
       \/ \E n \in TreeNode, pinned, promoted \in BOOLEAN :
            UpdateNode(c, n, pinned, promoted)
       \/ Decide(c)
  \/ \E x \in TreeCaller \cup TreeWorker :
       \/ \E p \in TreeNode : Snapshot(x, p)
       \/ CommitPromotion(x) \/ PromotionFails(x)

-----------------------------------------------------------------------------
\* Properties

\* The tree stays a tree under every order of operations: one root, every
\* other node exactly once among the children of its own parent and one
\* deeper, no dangling child or cursor, and no more nodes than allowed.
TreeShape ==
  /\ Here # {} => rootId \in Here /\ nodes[rootId].parent = NoNode
  /\ cursor \in Here \cup {NoNode}
  /\ Cardinality(Here) <= TreeMaxNodes
  /\ \A n \in Here \ {rootId} :
       LET p == nodes[n].parent IN
       /\ p \in Here /\ nodes[n].depth = nodes[p].depth + 1
       /\ Cardinality({i \in DOMAIN nodes[p].children : nodes[p].children[i] = n}) = 1
  /\ \A n \in Here : \A c \in ChildrenOf(n) : c \in Here /\ nodes[c].parent = n

\* A promotion hides a child only if the summary it writes was made from that
\* child, and never one that was pinned meanwhile; it writes no summary
\* without hiding a child.  The summary is of the child's present text unless
\* an update changed it after the snapshot: such a child is hidden all the
\* same, though store.go says that it is skipped.
FoldsSound ==
  [][\A x \in TreeCaller \cup TreeWorker :
       (proc[x].at = "gap" /\ proc'[x].at = "idle") =>
         LET p == proc[x].node
             hidden == {c \in Here : nodes'[c].promoted /\ ~nodes[c].promoted}
         IN  /\ \A c \in hidden : nodes[c].parent = p /\ ~nodes[c].pinned
                                  /\ c \in {t[1] : t \in nodes'[p].summary}
                                  /\ \/ <<c, nodes[c].rev>> \in nodes'[p].summary
                                     \/ c \in proc[x].changed
             /\ hidden = {} => UNCHANGED nodes]_treeVars

\* A parent is in flight exactly while one background promotion works on it,
\* on every way that promotion can end: triggers are not locked out for ever
\* and no parent is promoted twice at the same time by triggers.
InflightExact ==
  \A p \in TreeNode :
    Cardinality({w \in TreeWorker : proc[w].at # "idle" /\ proc[w].node = p})
      = IF p \in inflight THEN 1 ELSE 0

\* However the operations of callers and the background promotions interleave,
\* the stored nodes form a tree and the set of parents in flight matches the
\* promotions under way.
TreeSound == TreeShape /\ InflightExact
=============================================================================
