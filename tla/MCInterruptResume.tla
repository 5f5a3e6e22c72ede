------------------------- MODULE MCInterruptResume -------------------------
(* InterruptResume: a batch of one flagged call and one ordinary sibling. *)
EXTENDS InterruptResume, TLC

CONSTANTS call, sibling, a1, a2, f1, f2

MCFlagged == (f1 :> {call}) @@ (f2 :> {call})
MCMeta == [supersedes : RecordId \cup {NoRecord}, fp : Fingerprint \cup {NoFingerprint}]
\* Both policies flag the same call, so they are interchangeable.
MCSymmetry == Permutations({a1, a2}) \cup Permutations({f1, f2})
=============================================================================
