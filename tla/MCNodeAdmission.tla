-------------------------- MODULE MCNodeAdmission --------------------------
(* NodeAdmission: three nodes, three tags taken in overlapping pairs. *)
EXTENDS NodeAdmission, TLC

CONSTANTS n1, n2, n3

\* Unset, a range of one to three, a start above the minimum, and the plain
\* semaphore of two.
MCRawConfig ==
  { [initial |-> 0, min |-> 0, max |-> 0],
    [initial |-> 1, min |-> 1, max |-> 3],
    [initial |-> 2, min |-> 1, max |-> 3],
    [initial |-> 2, min |-> 2, max |-> 2] }

MCTags == (n1 :> <<1, 2>>) @@ (n2 :> <<2, 3>>) @@ (n3 :> <<1, 3>>)
MCSlotLimit == (1 :> 1) @@ (2 :> 1)
MCRate == (3 :> 2)
=============================================================================
