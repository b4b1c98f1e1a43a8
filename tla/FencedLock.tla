------------------------------ MODULE FencedLock ------------------------------
(***************************************************************************)
(* What the coordination lock store promises beyond ExclusiveLock          *)
(* (coordination.LockStore, LockHandle.FencingToken): each fencing token   *)
(* is larger than the ones before, and goes with a grant of the lock.      *)
(***************************************************************************)
EXTENDS Naturals

CONSTANT Clients

VARIABLES
    claims,    \* the clients that own the lock
    last       \* the latest fencing token

Init == claims = {} /\ last = 0

Grant(c) ==
    /\ claims = {}
    /\ claims' = {c}
    /\ last' \in Nat /\ last' > last

End(c) ==
    /\ c \in claims
    /\ claims' = claims \ {c}
    /\ UNCHANGED last

Next == \E c \in Clients : Grant(c) \/ End(c)

Spec == Init /\ [][Next]_<<claims, last>>
=============================================================================
