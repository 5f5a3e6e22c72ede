------------------------ MODULE MCInterruptFileStore ------------------------
(* InterruptFileStore with two processes, two goroutines in the first. *)
EXTENDS InterruptFileStore, TLC

CONSTANTS c1, yes, o1, o2, r1, m, p1, p2, g1, g2, g3

MCInstanceOf == (g1 :> p1) @@ (g2 :> p1) @@ (g3 :> p2)
MCSymmetry == Permutations({o1, o2}) \cup Permutations({g1, g2})
=============================================================================
