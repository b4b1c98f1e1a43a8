----------------------------- MODULE MCAccessCache ----------------------------
(* Instances of AccessCache for TLC. *)
EXTENDS AccessCache, TLC

CONSTANTS n1, n2, p, t1, w1, w2, c1, c2, k1

OfTenant == (k1 :> t1)
Symm == Permutations(Changes) \cup Permutations(Calls)

\* The deployments in which one counter publishes all that a token depends on.
OneCounterModes ==
    {[cluster |-> TRUE, tenancy |-> FALSE], [cluster |-> FALSE, tenancy |-> TRUE]}

TenantCluster == {[cluster |-> TRUE, tenancy |-> TRUE]}
=============================================================================
