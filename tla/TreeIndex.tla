------------------------------ MODULE TreeIndex ------------------------------
(***************************************************************************)
(* vectorhook.Store: a session tree store whose writes are mirrored into a *)
(* vector store.  A call changes the tree first and the index afterwards,  *)
(* in a goroutine of its own (additions and updates) or before it returns  *)
(* (deletions).  Nothing orders the index work of two calls on one node.   *)
(* Embedding and storing may fail; the tree does not notice.  The index is *)
(* a MapVectorStore, which takes vectors of one dimension only.            *)
(*                                                                         *)
(* A summary is a number, 0 for an empty one.                              *)
(***************************************************************************)
EXTENDS Integers, FiniteSets

CONSTANTS
  IndexNode,   \* nodes of the tree
  IndexWork,   \* calls, with the work they leave behind
  MaxSummary,  \* summaries are 0..MaxSummary
  Dims         \* dimensions of vectors the embedder may return

\* Add refuses an empty embedding.
ASSUME IndexAssumption == Dims \subseteq Nat \ {0}

Gone == -1     \* no such node, no such document

VARIABLES
  summary,     \* of each node of the tree
  docs,        \* documents: the summary and the dimension of the vector
  lockedDim,   \* dimension of the store, 0 before the first Add
  work,        \* per call: what is left to do
  outOfOrder   \* history: nodes with overlapping or failed work, or changed
               \* behind the back of the decorator

indexVars == <<summary, docs, lockedDim, work, outOfOrder>>

Unused == [op |-> "unused", node |-> 0, text |-> Gone, list |-> {}]
Finished == [Unused EXCEPT !.op = "finished"]
Doc(text, dim) == [text |-> text, dim |-> dim]
NoDoc == Doc(Gone, 0)

IndexInit ==
  /\ summary = [n \in IndexNode |-> Gone] /\ docs = [n \in IndexNode |-> NoDoc]
  /\ lockedDim = 0 /\ work = [w \in IndexWork |-> Unused] /\ outOfOrder = {}

\* Work on a node that has not been done yet.
OpenWork(n) ==
  {w \in IndexWork : \/ work[w].op \in {"index", "embedded", "remove"} /\ work[w].node = n
                     \/ work[w].op = "list" \/ n \in work[w].list}

-----------------------------------------------------------------------------
\* The tree changes, and work is left for the index.

Leaves(w, op, ns, n, text) ==
  /\ work[w].op = "unused"
  /\ work' = [work EXCEPT ![w] = [Unused EXCEPT !.op = op, !.node = n, !.text = text]]
  /\ outOfOrder' = outOfOrder \cup {k \in ns : OpenWork(k) # {}}
  /\ UNCHANGED <<docs, lockedDim>>

\* CreateTree and AddNode.
IndexAdd(w, n) ==
  \E t \in 0..MaxSummary :
    /\ summary[n] = Gone
    /\ summary' = [summary EXCEPT ![n] = t]
    /\ Leaves(w, "index", {n}, n, t)

\* UpdateNode, and PromoteNode for the parent.
IndexUpdate(w, n) ==
  \E t \in 0..MaxSummary :
    /\ summary[n] # Gone
    /\ summary' = [summary EXCEPT ![n] = t]
    /\ Leaves(w, "index", {n}, n, t)

IndexDelete(w, n) ==
  /\ summary[n] # Gone
  /\ summary' = [summary EXCEPT ![n] = Gone]
  /\ Leaves(w, "remove", {n}, n, Gone)

IndexDeleteTree(w) ==
  /\ summary' = [n \in IndexNode |-> Gone]
  /\ Leaves(w, "list", IndexNode, 0, Gone)

\* A promotion the inner store started by itself: the decorator is not called.
PromoteBehind(n) ==
  \E t \in 1..MaxSummary :
    /\ summary[n] # Gone /\ t # summary[n]
    /\ summary' = [summary EXCEPT ![n] = t]
    /\ outOfOrder' = outOfOrder \cup {n}
    /\ UNCHANGED <<docs, lockedDim, work>>

-----------------------------------------------------------------------------
\* MapVectorStore

\* Wrong variant: vectors of another dimension are taken.
AddDoc_AnyDim(n, text, dim) ==
  docs' = [docs EXCEPT ![n] = Doc(text, dim)] /\ lockedDim' = dim

AddDoc(n, text, dim) ==
  /\ lockedDim \in {0, dim}
  /\ docs' = [docs EXCEPT ![n] = Doc(text, dim)]
  /\ lockedDim' = dim

DeleteDoc(n) == docs' = [docs EXCEPT ![n] = NoDoc] /\ UNCHANGED lockedDim

-----------------------------------------------------------------------------
\* The work of a call

EndWork(w) == work' = [work EXCEPT ![w] = Finished]

\* An error is logged and nothing else.
Dropped(w) ==
  /\ EndWork(w)
  /\ outOfOrder' = outOfOrder \cup {work[w].node}
  /\ UNCHANGED <<summary, docs, lockedDim>>

\* Wrong variant: a node whose summary was emptied keeps its document.
EmbedNode_KeepEmpty(w) ==
  /\ work[w].op = "index"
  /\ \/ /\ work[w].text = 0
        /\ EndWork(w) /\ UNCHANGED <<summary, docs, lockedDim, outOfOrder>>
     \/ /\ work[w].text # 0
        /\ work' = [work EXCEPT ![w].op = "embedded"]
        /\ UNCHANGED <<summary, docs, lockedDim, outOfOrder>>
     \/ Dropped(w)

\* indexNode: without a summary the document is removed, else it is embedded;
\* either may fail.
EmbedNode(w) ==
  /\ work[w].op = "index"
  /\ \/ /\ work[w].text = 0
        /\ DeleteDoc(work[w].node) /\ EndWork(w) /\ UNCHANGED <<summary, outOfOrder>>
     \/ /\ work[w].text # 0
        /\ work' = [work EXCEPT ![w].op = "embedded"]
        /\ UNCHANGED <<summary, docs, lockedDim, outOfOrder>>
     \/ Dropped(w)

StoreNode(w) ==
  /\ work[w].op = "embedded"
  /\ \/ /\ \E d \in Dims : AddDoc(work[w].node, work[w].text, d)
        /\ EndWork(w) /\ UNCHANGED <<summary, outOfOrder>>
     \/ Dropped(w)

RemoveNode(w) ==
  /\ work[w].op = "remove"
  /\ \/ DeleteDoc(work[w].node) /\ EndWork(w) /\ UNCHANGED <<summary, outOfOrder>>
     \/ Dropped(w)

\* removeAllNodesForSession: the documents listed are deleted one by one.
ListDocs(w) ==
  /\ work[w].op = "list"
  /\ LET there == {n \in IndexNode : docs[n] # NoDoc} IN
     \/ /\ work' = [work EXCEPT ![w].op = IF there = {} THEN "finished" ELSE "removing",
                                ![w].list = there]
        /\ UNCHANGED <<summary, docs, lockedDim, outOfOrder>>
     \/ /\ EndWork(w) /\ outOfOrder' = outOfOrder \cup IndexNode   \* List unsupported
        /\ UNCHANGED <<summary, docs, lockedDim>>

RemoveListed(w) ==
  \E n \in work[w].list :
    /\ work' = [work EXCEPT ![w].list = @ \ {n},
                            ![w].op = IF work[w].list = {n} THEN "finished" ELSE @]
    /\ \/ DeleteDoc(n) /\ UNCHANGED outOfOrder
       \/ outOfOrder' = outOfOrder \cup {n} /\ UNCHANGED <<docs, lockedDim>>
    /\ UNCHANGED summary

IndexStep ==
  \/ \E n \in IndexNode : PromoteBehind(n)
  \/ \E w \in IndexWork :
       \/ \E n \in IndexNode : IndexAdd(w, n) \/ IndexUpdate(w, n) \/ IndexDelete(w, n)
       \/ IndexDeleteTree(w) \/ ListDocs(w) \/ RemoveListed(w)
       \/ EmbedNode(w) \/ StoreNode(w) \/ RemoveNode(w)

IndexSpec == IndexInit /\ [][IndexStep]_indexVars

-----------------------------------------------------------------------------
\* Properties

\* The index follows the tree: when the work on a node is done, its document
\* holds the summary the node has, and there is none for a deleted or empty
\* node.  Only failed work, overlapping work on the same node, and promotions
\* the decorator does not see leave it behind; deleting the tree and any
\* sequence of updates do not.
IndexFollows ==
  /\ \A n \in IndexNode : n \notin outOfOrder /\ OpenWork(n) = {} =>
       docs[n].text = IF summary[n] = 0 THEN Gone ELSE summary[n]
  /\ \A n \in IndexNode : docs[n] # NoDoc => docs[n].dim = lockedDim
=============================================================================
