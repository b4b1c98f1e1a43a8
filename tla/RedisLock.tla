------------------------------ MODULE RedisLock ------------------------------
(***************************************************************************)
(* The lock store of the Redis coordination backend with its fencing       *)
(* counter, used by arbitrary clients (redis_lock.go, and on top of it the *)
(* coordination branch of internal/service/locker and the plugin-facing    *)
(* internal/service/hostlock, whose tickets carry the token).              *)
(*                                                                         *)
(* Acquire is two commands: SETNX of the key, then INCR of the fencing     *)
(* counter.  A client keeps its handle until it releases it, whether or    *)
(* not the lease behind it is still alive.                                 *)
(***************************************************************************)
EXTENDS LockStore

CONSTANTS
    Clients,   \* callers of the lock store
    Delay,     \* latency of the INCR that follows a SETNX, when Timely
    Timely,    \* does INCR follow within Delay ticks?
    MaxFence   \* bound on the fencing counter

ASSUME RedisLockAssumption ==
    /\ Delay \in Nat
    /\ Timely \in BOOLEAN
    /\ MaxFence \in Nat

VARIABLES
    fence,     \* the fencing counter in Redis
    state,     \* "idle", "incr" (SETNX done), "undo" (INCR failed), "held"
    token,     \* the client's token, from SETNX on
    fencing,   \* FencingToken of the client's handle
    lag        \* how long the INCR of a client has been waiting

vars == <<key, ttl, fence, state, token, fencing, lag>>

\* The variables have their types, and every handle carries a number that was
\* drawn from the counter.
TypeOK ==
    /\ StoreTypeOK
    /\ fence \in Nat
    /\ state \in [Clients -> {"idle", "incr", "undo", "held"}]
    /\ token \in [Clients -> Tokens \cup {NoToken}]
    /\ fencing \in [Clients -> Nat]
    /\ lag \in [Clients -> 0..Delay]
    /\ \A c \in Clients : state[c] = "held" => fencing[c] \in 1..fence

Init ==
    /\ StoreInit
    /\ fence = 0
    /\ state = [c \in Clients |-> "idle"]
    /\ token = [c \in Clients |-> NoToken]
    /\ fencing = [c \in Clients |-> 0]
    /\ lag = [c \in Clients |-> 0]

Fresh(t) == t # key /\ \A c \in Clients : t # token[c]

\* The client drops what it knows of the lock.
Forget(c) ==
    /\ state' = [state EXCEPT ![c] = "idle"]
    /\ token' = [token EXCEPT ![c] = NoToken]
    /\ fencing' = [fencing EXCEPT ![c] = 0]
    /\ lag' = [lag EXCEPT ![c] = 0]

-----------------------------------------------------------------------------
\* Acquire, first command.  When the key is taken nothing changes.
AcquireSetNX(c) ==
    /\ state[c] = "idle"
    /\ fence < MaxFence
    /\ \E t \in Tokens :
          /\ Fresh(t)
          /\ SetNX(t)
          /\ token' = [token EXCEPT ![c] = t]
    /\ state' = [state EXCEPT ![c] = "incr"]
    /\ lag' = [lag EXCEPT ![c] = 0]
    /\ UNCHANGED <<fence, fencing>>

\* The reply of SETNX is lost: the key is set and nobody has the handle.
AcquireLost(c) ==
    /\ state[c] = "idle"
    /\ \E t \in Tokens : Fresh(t) /\ SetNX(t)
    /\ UNCHANGED <<fence, state, token, fencing, lag>>

\* Mutant of AcquireIncr: the counter is read but its increment is lost.
AcquireIncr_Lost(c) ==
    /\ state[c] = "incr"
    /\ fencing' = [fencing EXCEPT ![c] = fence + 1]
    /\ state' = [state EXCEPT ![c] = "held"]
    /\ lag' = [lag EXCEPT ![c] = 0]
    /\ UNCHANGED <<key, ttl, fence, token>>

\* Acquire, second command, and the handle it returns.
AcquireIncr(c) ==
    /\ state[c] = "incr"
    /\ fence' = fence + 1
    /\ fencing' = [fencing EXCEPT ![c] = fence']
    /\ state' = [state EXCEPT ![c] = "held"]
    /\ lag' = [lag EXCEPT ![c] = 0]
    /\ UNCHANGED <<key, ttl, token>>

\* Mutant of AcquireIncrFails: the error of INCR is logged and Acquire returns
\* the handle all the same.
AcquireIncrFails_ErrorIgnored(c) ==
    /\ state[c] = "incr"
    /\ state' = [state EXCEPT ![c] = "held"]
    /\ lag' = [lag EXCEPT ![c] = 0]
    /\ UNCHANGED <<key, ttl, fence, token, fencing>>

AcquireIncrFails(c) ==
    /\ state[c] = "incr"
    /\ state' = [state EXCEPT ![c] = "undo"]
    /\ lag' = [lag EXCEPT ![c] = 0]
    /\ UNCHANGED <<key, ttl, fence, token, fencing>>

\* Acquire releases the key again; that command may fail as well.
AcquireUndo(c) ==
    /\ state[c] = "undo"
    /\ ReleaseScript(token[c]) \/ UNCHANGED storeVars
    /\ Forget(c)
    /\ UNCHANGED fence

\* Renew: a handle whose lease is gone gets LockNotHeld and changes nothing.
Renew(c) ==
    /\ state[c] = "held"
    /\ Extend(token[c])
    /\ UNCHANGED <<fence, state, token, fencing, lag>>

\* Release with any outcome, or a caller that just drops its handle.
Release(c) ==
    /\ state[c] = "held"
    /\ ReleaseScript(token[c]) \/ UNCHANGED storeVars
    /\ Forget(c)
    /\ UNCHANGED fence

Tick ==
    /\ Timely => \A c \in Clients : state[c] = "incr" => lag[c] < Delay
    /\ Age
    /\ lag' = [c \in Clients |-> IF Timely /\ state[c] = "incr" THEN lag[c] + 1 ELSE 0]
    /\ UNCHANGED <<fence, state, token, fencing>>

Next ==
    \/ Tick
    \/ \E c \in Clients :
          \/ AcquireSetNX(c) \/ AcquireLost(c) \/ AcquireIncr(c)
          \/ AcquireIncrFails(c) \/ AcquireUndo(c) \/ Renew(c) \/ Release(c)

Spec == Init /\ [][Next]_vars

-----------------------------------------------------------------------------
(* Properties. *)

\* INCR follows SETNX before the lease it fences can run out.
TimingAssumption == Timely /\ Delay < Lease

\* The live holder of the lock has the largest fencing token of all handles
\* still around: a resource that remembers the largest token it has seen
\* refuses every former holder (the purpose of LockHandle.FencingToken).
FenceOrdersHolders ==
    \A c, d \in Clients :
        /\ c # d
        /\ state[c] = "held" /\ key = token[c]
        /\ state[d] = "held"
        => fencing[d] < fencing[c]

\* Two handles never carry the same fencing token, at whatever pace their
\* INCR commands run.
FencesUnique ==
    \A c, d \in Clients :
        c # d /\ state[c] = "held" /\ state[d] = "held" => fencing[c] # fencing[d]

\* The clients whose lease is alive.
Owning == {c \in Clients : state[c] = "held" /\ key = token[c]}

Fenced == INSTANCE FencedLock WITH claims <- Owning, last <- fence

\* The store implements the fenced lock: every number drawn from the counter
\* goes to a client whose lease is alive when it gets it, so that no former
\* holder ever receives a number above that of its successor.
ImplementsFencedLock == Fenced!Spec
=============================================================================
