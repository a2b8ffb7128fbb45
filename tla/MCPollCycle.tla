---------------------------- MODULE MCPollCycle ----------------------------
(* PollCycle with several pollers: they run the same code and no property  *)
(* names one, so TLC may identify states that differ by a permutation.     *)
EXTENDS PollCycle, TLC

Symmetry == Permutations(Pollers)
=============================================================================
