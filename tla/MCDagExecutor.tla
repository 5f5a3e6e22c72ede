--------------------------- MODULE MCDagExecutor ---------------------------
(* DagExecutor on a diamond: a before b and c, both before d. *)
EXTENDS DagExecutor, TLC

CONSTANTS a, b, c, d

Diamond == (a :> {}) @@ (b :> {a}) @@ (c :> {a}) @@ (d :> {b, c})
DiamondTopo == <<a, b, c, d>>
DiamondPriority == (a :> 2) @@ (b :> 1) @@ (c :> 1) @@ (d :> 0)

\* Two roots into one sink.
Join == (b :> {}) @@ (c :> {}) @@ (d :> {b, c})
JoinTopo == <<b, c, d>>
JoinPriority == (b :> 1) @@ (c :> 0) @@ (d :> 0)
=============================================================================
