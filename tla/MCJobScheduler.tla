---------------------------- MODULE MCJobScheduler ----------------------------
(* TLC instances of JobScheduler. *)
EXTENDS JobScheduler, TLC

CONSTANTS n1, n2, c1, c2, a1, a2

\* A job of one execution that only the primary runs; one that every node runs
\* without end; and one whose quota and limit an update changes.
MasterOnce == {[master |-> TRUE, quota |-> 1, limit |-> 1]}
AllNode    == {[master |-> FALSE, quota |-> 0, limit |-> 1]}
Changing   == {[master |-> FALSE, quota |-> 0, limit |-> 2],
               [master |-> FALSE, quota |-> 1, limit |-> 1]}

\* Nodes, calls and requests are interchangeable.
Symm == Permutations(Nodes) \cup Permutations(Calls) \cup Permutations(Admins)
=============================================================================
