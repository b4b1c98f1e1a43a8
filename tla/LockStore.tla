------------------------------ MODULE LockStore ------------------------------
(***************************************************************************)
(* One lock key of the Redis coordination backend                          *)
(* (internal/service/coordination/internal/redis/redis_lock.go).           *)
(*                                                                         *)
(* The key holds the owner token of the current lease, or nothing.  Redis  *)
(* drops the key when its time to live runs out, so time is part of the    *)
(* model: ttl is what remains of the lease, in ticks.  Owner tokens are    *)
(* random in the code (core.NewOwnerToken); all that matters of a token is *)
(* that it differs from every token somebody still refers to.              *)
(*                                                                         *)
(* The operators below are the three Redis commands the lock uses.  The    *)
(* clients that issue them are in the modules that EXTEND this one.        *)
(***************************************************************************)
EXTENDS Integers

CONSTANTS
    Tokens,   \* owner tokens
    NoToken,  \* the key is absent; a client has no handle
    Lease     \* lease of an acquisition, in ticks

ASSUME LockStoreAssumption ==
    /\ NoToken \notin Tokens
    /\ Lease \in Nat \ {0}

VARIABLES
    key,      \* the token stored under the lock key
    ttl       \* what remains of the key's time to live

storeVars == <<key, ttl>>

StoreTypeOK ==
    /\ key \in Tokens \cup {NoToken}
    /\ ttl \in 0..Lease

StoreInit ==
    /\ key = NoToken
    /\ ttl = 0

\* Mutant of SetNX: SET without NX overwrites a lease that is still alive.
SetNX_Overwrites(t) ==
    /\ key' = t
    /\ ttl' = Lease

\* SET key t NX PX lease, when the key is absent.
SetNX(t) ==
    /\ key = NoToken
    /\ key' = t
    /\ ttl' = Lease

\* redisRenewScript when GET key = t.
Extend(t) ==
    /\ key = t
    /\ ttl' = Lease
    /\ UNCHANGED key

\* redisReleaseScript when GET key = t.
Delete(t) ==
    /\ key = t
    /\ key' = NoToken
    /\ ttl' = 0

\* Mutant of ReleaseScript: DEL without comparing the token.
ReleaseScript_AnyOwner(t) ==
    /\ key' = NoToken
    /\ ttl' = 0

\* The release command reaches Redis and runs, whoever owns the key.
ReleaseScript(t) ==
    \/ Delete(t)
    \/ key # t /\ UNCHANGED storeVars

\* One tick: Redis expires the key when its lease is used up.
Age ==
    /\ ttl' = IF ttl = 0 THEN 0 ELSE ttl - 1
    /\ key' = IF ttl <= 1 THEN NoToken ELSE key
=============================================================================
