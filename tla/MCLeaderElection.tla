--------------------------- MODULE MCLeaderElection ---------------------------
(* Instances of LeaderElection for TLC. *)
EXTENDS LeaderElection, TLC

\* Node and token identities do not matter to any of the safety properties.
Symm == Permutations(Nodes) \cup Permutations(Tokens)
=============================================================================
