---------------------------- MODULE MCAuthSessions ----------------------------
(* Instances of AuthSessions for TLC. *)
EXTENDS AuthSessions, TLC

Symm == Permutations(Tokens) \cup Permutations(Calls)

\* Bounds: one token id at least is of the platform, since a reset ends nothing
\* else, and the timeout is the longer one at first, so that a change shortens it.
MCInit == Init /\ OfPlatform # {} /\ \A t \in Timeouts : t <= timeout

MCSpec == MCInit /\ [][Next]_vars
=============================================================================
