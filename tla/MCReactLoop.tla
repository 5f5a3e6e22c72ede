---------------------------- MODULE MCReactLoop ----------------------------
(* ReactLoop: three entries on one session; the agent allows two iterations *)
(* and three tokens at two a turn, a request may ask for one iteration      *)
(* without a budget.                                                        *)
EXTENDS ReactLoop, TLC

CONSTANTS a1, a2, a3

MCAgentParams == [maxIter |-> 2, budget |-> 3]
MCRunParams == {MCAgentParams, [maxIter |-> 1, budget |-> 0]}

MCSymmetry == Permutations(Attempt)
=============================================================================
