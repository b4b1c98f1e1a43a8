----------------------------- MODULE ExclusiveLock -----------------------------
(***************************************************************************)
(* What a lock promises its clients (internal/service/locker): whoever is  *)
(* told that the lock is his may rely on it until the time he was told,    *)
(* and nobody else is told so meanwhile.                                   *)
(***************************************************************************)
CONSTANT Clients

VARIABLE claims    \* the clients that rely on the lock

Init == claims = {}

\* Only a lock nobody relies on is granted.
Grant(c) == claims = {} /\ claims' = {c}

\* The client released the lock, or its lease ran out.
End(c) == c \in claims /\ claims' = claims \ {c}

Next == \E c \in Clients : Grant(c) \/ End(c)

Spec == Init /\ [][Next]_claims
=============================================================================
