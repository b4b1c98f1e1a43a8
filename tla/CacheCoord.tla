------------------------------ MODULE CacheCoord ------------------------------
(***************************************************************************)
(* Cache coordination, internal/service/cachecoord, in cluster mode: one   *)
(* revision per scope of a cache domain in Redis, and on every node the    *)
(* revision that the node has consumed, with the time until which it may   *)
(* be used while Redis cannot be read.                                     *)
(*                                                                         *)
(* EnsureFresh reads Redis, then stores what it read (Observe), and other  *)
(* calls may come in between.  Events are left out: nothing in the program *)
(* subscribes to them.                                                     *)
(***************************************************************************)
EXTENDS Naturals

CONSTANTS
    Nodes,       \* the processes of the cluster
    Scopes,      \* revision scopes of the domain
    MaxStale     \* ticks after a sync during which a failed read is tolerated

ASSUME CoordAssumption == MaxStale \in Nat

VARIABLES
    now,         \* the clock of the nodes, in ticks
    revision,    \* scope: the counter in Redis, 0 when there is none
    observed     \* node, scope: revision consumed, end of its stale window

coordVars == <<now, revision, observed>>

Observation == [rev : Nat, until : Nat]

CoordTypeOK ==
    /\ now \in Nat
    /\ revision \in [Scopes -> Nat]
    /\ observed \in [Nodes -> [Scopes -> Observation]]

\* A window that ends at 0 is never open: the node has not synchronised yet.
Unobserved == [s \in Scopes |-> [rev |-> 0, until |-> 0]]

CoordInit(rev) ==
    /\ now = 0
    /\ revision = rev
    /\ observed = [n \in Nodes |-> Unobserved]

\* INCR of the revision key: returns revision[s] + 1.
Bump(s) == revision' = [revision EXCEPT ![s] = @ + 1]

\* storeObservedRevision and recordSuccess, with a revision read or bumped
\* before; a later revision may have been stored since.
Observe(n, s, r) ==
    observed' = [observed EXCEPT ![n][s] = [rev |-> r, until |-> now + MaxStale + 1]]

\* Mutant: the fallback does not look at the age of the observation.
WithinStaleWindow_Ever(n, s) == observed[n][s].until > 0

\* EnsureFresh returns observed[n][s].rev while Redis cannot be read.
WithinStaleWindow(n, s) == now < observed[n][s].until

\* The process starts again: its observations are in memory only.
ForgetObserved(n) == observed' = [observed EXCEPT ![n] = Unobserved]

Advance == now' = now + 1 /\ UNCHANGED <<revision, observed>>
=============================================================================
