----------------------------- MODULE AccessCache ------------------------------
(***************************************************************************)
(* The permission snapshots of internal/service/role.  Every process       *)
(* caches the access context of a login token, tagged with a topology      *)
(* revision.  In cluster mode the revisions are those of cachecoord, one   *)
(* per tenant, and the process keeps one copy (local) that it may use for  *)
(* a refresh window without asking Redis.  In single-node mode (cluster =  *)
(* FALSE) the copy is the revision.                                        *)
(*                                                                         *)
(* A snapshot is the set of topology changes that were committed when it   *)
(* was loaded; of these its token depends on those that touch its tenant.  *)
(* Requests, the watcher and the writers are taken apart at every access   *)
(* to Redis, to the database and to the state of the process.  The reverse *)
(* index of tokens is left out: it decides what clearing removes, so       *)
(* clearing removes any of the entries here, and an entry may expire at    *)
(* any time.  Without multi-tenancy every context is the platform's.       *)
(***************************************************************************)
EXTENDS CacheCoord

CONSTANTS
    Tokens,      \* login tokens, of one user each
    TenantOf,    \* token: the tenant of its session, if there are several
    Platform,    \* tenant 0: its changes touch every tenant
    Changes,     \* the topology changes of a behaviour, each done once
    Calls,       \* requests and watchers at work at the same time
    Window,      \* ticks for which the local revision is used unasked
    Home,        \* the node of a single-node deployment
    Nowhere,     \* the node of a call or a change that has not begun
    NoToken,     \* the token of a watcher
    Modes,       \* the deployments: cluster.enabled, multi-tenancy
    MaxTime,     \* bound on the clock
    MaxFaults    \* bound on failing accesses to Redis and restarts

ASSUME AccessAssumption ==
    /\ TenantOf \in [Tokens -> Scopes] /\ Platform \in Scopes
    /\ Window \in Nat /\ MaxTime \in Nat /\ MaxFaults \in Nat
    /\ Home \in Nodes /\ Nowhere \notin Nodes /\ NoToken \notin Tokens

ASSUME ModesAssumption == Modes \subseteq [cluster : BOOLEAN, tenancy : BOOLEAN]

VARIABLES
    cluster,     \* cluster.enabled, read at startup
    tenancy,     \* whether sessions and changes have tenants of their own
    local,       \* node: accessRevisionState, and whether it is from an outage
    change,      \* change: how far it is, where and when it was published
    cache,       \* node, token: accessContextCache
    call,        \* call: where a request or a sync is, and its locals
    faults       \* number of faults so far

vars == <<coordVars, cluster, tenancy, local, change, cache, call, faults>>

Local == [rev : Nat, until : Nat, fell : BOOLEAN]

ChangeState ==
    [st     : {"none", "committed", "cleared", "bumped", "done"},
     node   : Nodes \cup {Nowhere},
     tenant : Scopes,
     rev    : Nat,      \* the revision that published it; 0: not published
     at     : Nat]      \* when

Entry == [held : BOOLEAN, rev : Nat, data : SUBSET Changes]

CallState ==
    [pc    : {"idle", "ask", "refresh", "store", "clear", "lookup", "fill",
              "insert", "recheck", "compare", "load", "set", "done"},
     node  : Nodes \cup {Nowhere},
     token : Tokens \cup {NoToken},
     had   : Nat,                 \* the watcher: local revision when it began
     rev   : Nat,                 \* the latest revision it read
     fell  : BOOLEAN,             \* one of them may be from an outage
     entry : Entry,               \* the snapshot in its hands
     must  : SUBSET Changes,      \* what it may miss in an outage only (history)
     old   : SUBSET Changes]      \* what it may never miss (history)

NoLocal == [rev |-> 0, until |-> 0, fell |-> FALSE]
NoChange == [st |-> "none", node |-> Nowhere, tenant |-> Platform, rev |-> 0, at |-> 0]
NoEntry == [held |-> FALSE, rev |-> 0, data |-> {}]
IdleCall == [pc |-> "idle", node |-> Nowhere, token |-> NoToken, had |-> 0, rev |-> 0,
             fell |-> FALSE, entry |-> NoEntry, must |-> {}, old |-> {}]

Typed ==
    /\ CoordTypeOK
    /\ cluster \in BOOLEAN /\ tenancy \in BOOLEAN
    /\ local \in [Nodes -> Local]
    /\ change \in [Changes -> ChangeState]
    /\ cache \in [Nodes -> [Tokens -> Entry]]
    /\ call \in [Calls -> CallState]
    /\ faults \in 0..MaxFaults

\* Every variable has its type, and a request that is about to use a snapshot
\* has one (loadTokenAccessContextWithCacheLock tests what the cache returns).
TypeOK ==
    /\ Typed
    /\ \A c \in Calls :
          call[c].pc \in {"insert", "recheck", "compare", "set"} => call[c].entry.held

Init ==
    /\ CoordInit([s \in Scopes |-> 0])
    /\ \E m \in Modes : cluster = m.cluster /\ tenancy = m.tenancy
    /\ local = [n \in Nodes |-> NoLocal]
    /\ change = [w \in Changes |-> NoChange]
    /\ cache = [n \in Nodes |-> [k \in Tokens |-> NoEntry]]
    /\ call = [c \in Calls |-> IdleCall]
    /\ faults = 0

-----------------------------------------------------------------------------
(* Helpers. *)

Running == IF cluster THEN Nodes ELSE {Home}

\* CurrentTenantID; the context of a watcher is the platform's.
Tenant(k) == IF tenancy /\ k # NoToken THEN TenantOf[k] ELSE Platform

Tenants == IF tenancy THEN Scopes ELSE {Platform}

Touches(w, t) == change[w].tenant \in {Platform, t}

\* Mutant: the revision is published inside the transaction, before it commits.
Grants_BumpFirst == {w \in Changes : change[w].st = "done"}

\* loadUserAccessContext
Grants == {w \in Changes : change[w].st # "none"}

Snapshot(b) == [held |-> TRUE, rev |-> b.rev, data |-> Grants]

Published(t) == {w \in Changes : change[w].rev > 0 /\ Touches(w, t)}

\* Published so long ago that no local revision older than that is in use.
PublishedBefore(t, age) == {w \in Published(t) : change[w].at + age < now}

Fault == faults < MaxFaults /\ faults' = faults + 1

Becomes(c, b) == call' = [call EXCEPT ![c] = b]

Put(n, k, e) == cache' = [cache EXCEPT ![n][k] = e]

\* GetOrSetFuncLock runs its callback under the write lock of the cache.
Locked(n) == \E c \in Calls : call[c].node = n /\ call[c].pc = "insert"

\* clearLocalAccessCache removes the indexed entries.
ClearCache(n) ==
    /\ ~Locked(n)
    /\ \E kept \in SUBSET Tokens :
          cache' = [cache EXCEPT ![n] = [k \in Tokens |->
                       IF k \in kept THEN cache[n][k] ELSE NoEntry]]

\* storeLocalAccessRevision
StoreRevision(n, r, fell) ==
    local' = [local EXCEPT ![n] = [rev |-> r, until |-> now + Window + 1, fell |-> fell]]

\* bumpLocalAccessRevision
BumpLocal(n) == StoreRevision(n, local[n].rev + 1, FALSE)

-----------------------------------------------------------------------------
(* Writers: a transaction, then NotifyAccessTopologyChanged, which logs the *)
(* error of MarkAccessTopologyChanged and returns nothing.                  *)

Commit(w, n, t) ==
    /\ change[w].st = "none"
    /\ change' = [change EXCEPT ![w] = [NoChange EXCEPT !.st = "committed", !.node = n,
                                                        !.tenant = t]]
    /\ UNCHANGED <<coordVars, cluster, tenancy, local, cache, call, faults>>

ClearOwn(w) ==
    /\ change[w].st = "committed"
    /\ ClearCache(change[w].node)
    /\ change' = [change EXCEPT ![w].st = "cleared"]
    /\ UNCHANGED <<coordVars, cluster, tenancy, local, call, faults>>

\* The INCR of the tenant's revision.
BumpShared(w) ==
    /\ cluster /\ change[w].st = "cleared"
    /\ Bump(change[w].tenant)
    /\ change' = [change EXCEPT ![w].st = "bumped", ![w].at = now,
                                ![w].rev = revision[change[w].tenant] + 1]
    /\ UNCHANGED <<now, observed, cluster, tenancy, local, cache, call, faults>>

MarkChangedLocally(w) ==
    /\ ~cluster /\ change[w].st = "cleared"
    /\ BumpLocal(change[w].node)
    /\ change' = [change EXCEPT ![w].st = "done", ![w].at = now, ![w].node = Nowhere,
                                ![w].rev = local[change[w].node].rev + 1]
    /\ UNCHANGED <<coordVars, cluster, tenancy, cache, call, faults>>

\* MarkTenantChanged records the revision, and MarkChanged stores it.
StoreOwn(w) ==
    /\ change[w].st = "bumped"
    /\ Observe(change[w].node, change[w].tenant, change[w].rev)
    /\ StoreRevision(change[w].node, change[w].rev, FALSE)
    /\ change' = [change EXCEPT ![w].st = "done", ![w].node = Nowhere]
    /\ UNCHANGED <<now, revision, cluster, tenancy, cache, call, faults>>

\* The INCR, its reply or the event that follows is lost.
MarkFails(w) ==
    /\ cluster /\ Fault
    /\ \/ change[w].st \in {"cleared", "bumped"} /\ UNCHANGED observed
       \/ change[w].st = "bumped" /\ Observe(change[w].node, change[w].tenant, change[w].rev)
    /\ change' = [change EXCEPT ![w].st = "done", ![w].node = Nowhere]
    /\ UNCHANGED <<now, revision, cluster, tenancy, local, cache, call>>

-----------------------------------------------------------------------------
(* Revisions, as the call with locals b reads them. *)

\* Mutant: the local revision has no refresh window.
LocalFresh_Ever(n) == local[n].until > 0

\* getLocalAccessRevision; single-node, getLocalAccessRevisionForce.
LocalFresh(n) == IF cluster THEN now < local[n].until ELSE local[n].until > 0

\* The first revision is for the lookup, the second for a snapshot in hand.
AfterRevision(b) ==
    IF b.token = NoToken THEN "clear" ELSE IF b.entry.held THEN "compare" ELSE "lookup"

\* CurrentRevision
Consult(c, b) ==
    /\ Becomes(c, IF LocalFresh(b.node)
                  THEN [b EXCEPT !.pc = AfterRevision(b), !.rev = local[b.node].rev,
                                 !.fell = @ \/ local[b.node].fell]
                  ELSE [b EXCEPT !.pc = "ask"])
    /\ UNCHANGED <<coordVars, cluster, tenancy, local, change, cache, faults>>

Request(c, n, k) ==
    /\ call[c].pc = "idle"
    /\ n \in Running
    /\ Consult(c, [IdleCall EXCEPT
                     !.node = n, !.token = k,
                     !.must = IF cluster THEN PublishedBefore(Tenant(k), Window)
                                         ELSE Published(Tenant(k)),
                     !.old = IF cluster THEN PublishedBefore(Tenant(k), Window + MaxStale)
                                        ELSE Published(Tenant(k))])

\* SyncRevision reads the local revision, and asks Redis whatever its age.
\* (In single-node mode it does what CurrentRevision does.)
Sync(c, n) ==
    /\ cluster
    /\ call[c].pc = "idle"
    /\ Becomes(c, [IdleCall EXCEPT !.pc = "ask", !.node = n, !.had = local[n].rev])
    /\ UNCHANGED <<coordVars, cluster, tenancy, local, change, cache, faults>>

AskShared(c) ==
    /\ cluster /\ call[c].pc = "ask"
    /\ Becomes(c, [call[c] EXCEPT !.pc = "refresh",
                                  !.rev = revision[Tenant(call[c].token)]])
    /\ UNCHANGED <<coordVars, cluster, tenancy, local, change, cache, faults>>

\* EnsureFresh answers with the observed revision while Redis fails, and
\* ensureFresh stores it like one that Redis returned.
AskObserved(c) ==
    /\ cluster /\ call[c].pc = "ask"
    /\ Fault
    /\ WithinStaleWindow(call[c].node, Tenant(call[c].token))
    /\ Becomes(c, [call[c] EXCEPT !.pc = "store", !.fell = TRUE,
                     !.rev = observed[call[c].node][Tenant(call[c].token)].rev])
    /\ UNCHANGED <<coordVars, cluster, tenancy, local, change, cache>>

\* The first revision of a single node.
AskLocal(c) ==
    /\ ~cluster /\ call[c].pc = "ask"
    /\ BumpLocal(call[c].node)
    /\ Becomes(c, [call[c] EXCEPT !.pc = AfterRevision(call[c]),
                                  !.rev = local[call[c].node].rev + 1])
    /\ UNCHANGED <<coordVars, cluster, tenancy, change, cache, faults>>

\* EnsureFresh: the refresher stores a revision that was not observed before.
Refresh(c) ==
    LET n == call[c].node
        t == Tenant(call[c].token)
    IN /\ call[c].pc = "refresh"
       /\ IF observed[n][t].rev # call[c].rev
          THEN StoreRevision(n, call[c].rev, FALSE) ELSE UNCHANGED local
       /\ Observe(n, t, call[c].rev)
       /\ Becomes(c, [call[c] EXCEPT !.pc = "store"])
       /\ UNCHANGED <<now, revision, cluster, tenancy, change, cache, faults>>

\* ensureFresh stores the revision once more.  An outage is not over for a
\* revision that comes from the stale window.
StoreLocal(c) ==
    /\ call[c].pc = "store"
    /\ StoreRevision(call[c].node, call[c].rev, call[c].fell)
    /\ Becomes(c, [call[c] EXCEPT !.pc = AfterRevision(call[c])])
    /\ UNCHANGED <<coordVars, cluster, tenancy, change, cache, faults>>

\* SyncRevision clears the cache when the local revision was another one.
ClearStale(c) ==
    /\ call[c].pc = "clear"
    /\ IF call[c].had > 0 /\ call[c].had # call[c].rev
       THEN ClearCache(call[c].node) ELSE UNCHANGED cache
    /\ Becomes(c, IdleCall)
    /\ UNCHANGED <<coordVars, cluster, tenancy, local, change, faults>>

-----------------------------------------------------------------------------
(* Requests: getTokenAccessContext. *)

Cached(c) == cache[call[c].node][call[c].token]

Matches(e, r) == e.held /\ e.rev = r

Hit(c) ==
    /\ call[c].pc = "lookup" /\ ~Locked(call[c].node)
    /\ Matches(Cached(c), call[c].rev)
    /\ Becomes(c, [call[c] EXCEPT !.pc = "done", !.entry = Cached(c)])
    /\ UNCHANGED <<coordVars, cluster, tenancy, local, change, cache, faults>>

Miss(c) ==
    /\ call[c].pc = "lookup" /\ ~Locked(call[c].node)
    /\ ~Matches(Cached(c), call[c].rev)
    /\ Put(call[c].node, call[c].token, NoEntry)
    /\ Becomes(c, [call[c] EXCEPT !.pc = "fill"])
    /\ UNCHANGED <<coordVars, cluster, tenancy, local, change, faults>>

\* Mutant: what GetOrSetFuncLock returns is not tested.
FoundFilled_Nil(c) ==
    /\ call[c].pc = "fill" /\ ~Locked(call[c].node)
    /\ Becomes(c, [call[c] EXCEPT !.pc = "recheck", !.entry = Cached(c)])
    /\ UNCHANGED <<coordVars, cluster, tenancy, local, change, cache, faults>>

\* Another request with the token has filled the cache.
FoundFilled(c) ==
    /\ call[c].pc = "fill" /\ ~Locked(call[c].node)
    /\ Cached(c).held
    /\ Becomes(c, [call[c] EXCEPT !.pc = "recheck", !.entry = Cached(c)])
    /\ UNCHANGED <<coordVars, cluster, tenancy, local, change, cache, faults>>

LoadLocked(c) ==
    /\ call[c].pc = "fill" /\ ~Locked(call[c].node)
    /\ ~Cached(c).held
    /\ Becomes(c, [call[c] EXCEPT !.pc = "insert", !.entry = Snapshot(call[c])])
    /\ UNCHANGED <<coordVars, cluster, tenancy, local, change, cache, faults>>

Insert(c) ==
    /\ call[c].pc = "insert"
    /\ Put(call[c].node, call[c].token, call[c].entry)
    /\ Becomes(c, [call[c] EXCEPT !.pc = "recheck"])
    /\ UNCHANGED <<coordVars, cluster, tenancy, local, change, faults>>

Recheck(c) == call[c].pc = "recheck" /\ Consult(c, call[c])

\* The second revision cannot be read: the first one is compared.
RecheckFails(c) ==
    /\ cluster /\ call[c].pc = "ask" /\ call[c].entry.held
    /\ Fault
    /\ ~WithinStaleWindow(call[c].node, Tenant(call[c].token))
    /\ Becomes(c, [call[c] EXCEPT !.pc = "compare"])
    /\ UNCHANGED <<coordVars, cluster, tenancy, local, change, cache>>

Same(c) ==
    /\ call[c].pc = "compare"
    /\ call[c].entry.rev = call[c].rev
    /\ Becomes(c, [call[c] EXCEPT !.pc = "done"])
    /\ UNCHANGED <<coordVars, cluster, tenancy, local, change, cache, faults>>

Differs(c) ==
    /\ call[c].pc = "compare" /\ ~Locked(call[c].node)
    /\ call[c].entry.rev # call[c].rev
    /\ Put(call[c].node, call[c].token, NoEntry)
    /\ Becomes(c, [call[c] EXCEPT !.pc = "load", !.entry = NoEntry])
    /\ UNCHANGED <<coordVars, cluster, tenancy, local, change, faults>>

\* rebuildTokenAccessContext
Load(c) ==
    /\ call[c].pc = "load"
    /\ Becomes(c, [call[c] EXCEPT !.pc = "set", !.entry = Snapshot(call[c])])
    /\ UNCHANGED <<coordVars, cluster, tenancy, local, change, cache, faults>>

SetEntry(c) ==
    /\ call[c].pc = "set" /\ ~Locked(call[c].node)
    /\ Put(call[c].node, call[c].token, call[c].entry)
    /\ Becomes(c, [call[c] EXCEPT !.pc = "done"])
    /\ UNCHANGED <<coordVars, cluster, tenancy, local, change, faults>>

\* The request is refused: no revision for the lookup, or no database.
Refuse(c) ==
    /\ \/ /\ cluster /\ call[c].pc = "ask" /\ ~call[c].entry.held
          /\ ~WithinStaleWindow(call[c].node, Tenant(call[c].token))
       \/ call[c].pc \in {"insert", "load"}
    /\ Fault
    /\ Becomes(c, IdleCall)
    /\ UNCHANGED <<coordVars, cluster, tenancy, local, change, cache>>

Return(c) ==
    /\ call[c].pc = "done"
    /\ Becomes(c, IdleCall)
    /\ UNCHANGED <<coordVars, cluster, tenancy, local, change, cache, faults>>

-----------------------------------------------------------------------------
(* The environment. *)

\* The TTL of an entry, or InvalidateTokenAccessContext at the end of a session.
ExpireEntry(n, k) ==
    /\ cache[n][k].held /\ ~Locked(n)
    /\ Put(n, k, NoEntry)
    /\ UNCHANGED <<coordVars, cluster, tenancy, local, change, call, faults>>

\* A process starts again; a change it had committed stays unpublished.
Restart(n) ==
    /\ n \in Running /\ Fault
    /\ local' = [local EXCEPT ![n] = NoLocal]
    /\ cache' = [cache EXCEPT ![n] = [k \in Tokens |-> NoEntry]]
    /\ call' = [c \in Calls |-> IF call[c].node = n THEN IdleCall ELSE call[c]]
    /\ change' = [w \in Changes |->
                    IF change[w].node = n
                    THEN [change[w] EXCEPT !.st = "done", !.node = Nowhere] ELSE change[w]]
    /\ ForgetObserved(n)
    /\ UNCHANGED <<now, revision, cluster, tenancy>>

\* A revision is stored within the tick in which it was read.
NothingToStore ==
    /\ \A c \in Calls : call[c].pc \notin {"refresh", "store"}
    /\ \A w \in Changes : change[w].st # "bumped"

Tick ==
    /\ now < MaxTime
    /\ NothingToStore
    /\ Advance
    /\ UNCHANGED <<cluster, tenancy, local, change, cache, call, faults>>

ChangeStep(w) ==
    \/ \E n \in Running, t \in Tenants : Commit(w, n, t)
    \/ ClearOwn(w) \/ BumpShared(w) \/ MarkChangedLocally(w) \/ StoreOwn(w) \/ MarkFails(w)

CallStep(c) ==
    \/ \E n \in Nodes, k \in Tokens : Request(c, n, k)
    \/ \E n \in Nodes : Sync(c, n)
    \/ AskShared(c) \/ AskObserved(c) \/ AskLocal(c) \/ Refresh(c) \/ StoreLocal(c)
    \/ ClearStale(c) \/ Hit(c) \/ Miss(c) \/ FoundFilled(c) \/ LoadLocked(c) \/ Insert(c)
    \/ Recheck(c) \/ RecheckFails(c) \/ Same(c) \/ Differs(c) \/ Load(c) \/ SetEntry(c)
    \/ Refuse(c) \/ Return(c)

Next ==
    \/ \E w \in Changes : ChangeStep(w)
    \/ \E c \in Calls : CallStep(c)
    \/ \E n \in Nodes, k \in Tokens : ExpireEntry(n, k)
    \/ \E n \in Nodes : Restart(n)
    \/ Tick

Spec == Init /\ [][Next]_vars

-----------------------------------------------------------------------------
(* Properties. *)

\* A cached snapshot contains every change of its tenant whose revision is not
\* above its tag (role_access_cache.go: the revision is read before the grants,
\* and published after the commit).
TagSound ==
    \A n \in Nodes, k \in Tokens : \A w \in Published(Tenant(k)) :
        (cache[n][k].held /\ change[w].rev <= cache[n][k].rev) => w \in cache[n][k].data

\* A request whose revisions came from Redis decides on every change that was
\* published more than a refresh window before it began, on whatever node; on a
\* single node, on every change published before it began.
FreshAccess ==
    \A c \in Calls :
        (call[c].pc = "done" /\ ~call[c].fell) => call[c].must \subseteq call[c].entry.data

\* In an outage, too, no request decides on grants that were changed more than
\* a stale window and a refresh window before it began; it is refused.
BoundedStaleness ==
    \A c \in Calls : call[c].pc = "done" => call[c].old \subseteq call[c].entry.data

\* What openspec/specs/role-management/spec.md says: a request is refused when
\* Redis cannot be read and the local revision is older than the stale window.
FailsClosed ==
    \A c \in Calls : call[c].pc = "done" => call[c].must \subseteq call[c].entry.data
=============================================================================
