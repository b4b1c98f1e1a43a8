--------------------------- MODULE MCRuntimeConfig ----------------------------
(* TLC instances of RuntimeConfig. *)
EXTENDS RuntimeConfig, TLC

CONSTANTS n1, n2, p, t1, w1, w2, c1, c2

\* Bound: in a cluster one write, of the platform, whose rows every tenant sees, in
\* one of two ticks; on a single node, where time plays no part, two writes, of
\* whatever tenants, one after the other.
Bounded ==
    IF cluster THEN write[w2].st = "none" /\ write[w1].tenant = Platform
               ELSE now = 0 /\ (write[w2].st # "none" => write[w1].st # "none")

\* Calls are interchangeable; where nothing tells writes apart, they are, too.
CallSymm == Permutations(Calls)
Symm     == Permutations(Nodes) \cup Permutations(Writes) \cup Permutations(Calls)
=============================================================================
