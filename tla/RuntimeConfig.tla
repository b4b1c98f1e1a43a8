---------------------------- MODULE RuntimeConfig -----------------------------
(***************************************************************************)
(* The runtime configuration of internal/service/config and its writers in *)
(* internal/service/sysconfig.  The rows of sys_config are the authority;  *)
(* every node caches one parsed snapshot per tenant, tagged with a         *)
(* revision, and a reader compares the tag with the current revision.      *)
(*                                                                         *)
(* A snapshot is the set of committed writes that its tenant can see, so   *)
(* "stale" is "a write is missing".  Reads and the sync watcher (call),    *)
(* and writes (write), are taken apart at every access to Redis, to the    *)
(* database and to the process cache.  A cache entry may also expire at    *)
(* any time, which is why Get and the Remove of what it rejects are one    *)
(* step.  On a single node (~cluster) the revision is a variable of the    *)
(* process, and revision stands for it; the sync at startup, before there  *)
(* are any requests, has made it 1.                                        *)
(***************************************************************************)
EXTENDS CacheCoord, FiniteSets

CONSTANTS
    Modes,       \* the modes, cluster.enabled or not, a behaviour may choose
    Faults,      \* Redis may fail, nodes may restart
    Serial,      \* writes do not overlap
    Tenants,     \* tenant contexts
    Platform,    \* tenant 0; its rows are visible to every tenant
    Writes,      \* the writes of a behaviour, each done once
    Calls,       \* readers and watchers at work at the same time
    Ops,         \* ways of writing: "create" (also delete), "update" (also import)
    Nowhere,     \* the node of a call or a write that has not begun
    MaxTime      \* bound on the clock

Scope == "global"

ASSUME ConfigAssumption ==
    /\ Modes \subseteq BOOLEAN /\ Faults \in BOOLEAN /\ Serial \in BOOLEAN
    /\ Scopes = {Scope}
    /\ Platform \in Tenants
    /\ Nowhere \notin Nodes
    /\ Ops \subseteq {"create", "update"}
    /\ MaxTime \in Nat

VARIABLES
    cluster,     \* cluster.enabled, set for good
    write,       \* write: how far it is, where and what it wrote
    cache,       \* node, tenant: the cached snapshot
    call         \* call: where a read or a sync is, and its locals

vars == <<coordVars, cluster, write, cache, call>>

WriteState ==
    [st     : {"none", "committed", "bumped", "mirrored", "ok", "failed"},
     op     : {"create", "update"},
     node   : Nodes \cup {Nowhere},
     tenant : Tenants,
     rev    : Nat,     \* the revision that published it; 0: not published
     at     : Nat]     \* when

Entry == [held : BOOLEAN, rev : Nat, data : SUBSET Writes]

CallState ==
    [pc     : {"idle", "observe", "lookup", "fill", "insert", "recheck",
               "compare", "load", "set", "done"},
     kind   : {"get", "sync"},
     node   : Nodes \cup {Nowhere},
     tenant : Tenants,
     rev    : Nat,             \* the latest revision it read
     fell   : BOOLEAN,         \* it went on with an observed revision
     entry  : Entry,           \* the snapshot in its hands
     must   : SUBSET Writes,   \* published before it began (history)
     old    : SUBSET Writes]   \* those published more than MaxStale before (history)

NoEntry == [held |-> FALSE, rev |-> 0, data |-> {}]

IdleCall == [pc |-> "idle", kind |-> "get", node |-> Nowhere, tenant |-> Platform,
             rev |-> 0, fell |-> FALSE, entry |-> NoEntry, must |-> {}, old |-> {}]

NoWrite == [st |-> "none", op |-> "create", node |-> Nowhere,
            tenant |-> Platform, rev |-> 0, at |-> 0]

Typed ==
    /\ CoordTypeOK
    /\ cluster \in Modes
    /\ write \in [Writes -> WriteState]
    /\ cache \in [Nodes -> [Tenants -> Entry]]
    /\ call \in [Calls -> CallState]

\* Where a call relies on the snapshot in its hands.
Holding == {"insert", "recheck", "compare", "set"}

\* Every variable has its type, and a call that is about to use a snapshot has
\* one (getRuntimeParamSnapshot tests the result of GetOrSetFuncLock for nil).
TypeOK == Typed /\ \A c \in Calls : call[c].pc \in Holding => call[c].entry.held

\* A revision is there from the startup of a single node on.
FirstRevision == [s \in Scopes |-> IF cluster THEN 0 ELSE 1]

Init ==
    /\ cluster \in Modes
    /\ CoordInit(FirstRevision)
    /\ write = [w \in Writes |-> NoWrite]
    /\ cache = [n \in Nodes |-> [t \in Tenants |-> NoEntry]]
    /\ call = [c \in Calls |-> IdleCall]

-----------------------------------------------------------------------------
(* Rows and snapshots. *)

\* The platform's rows are part of every tenant's view, a tenant's of its own.
Visible(w, t) == write[w].tenant \in {Platform, t}

\* Mutant: the revision is bumped inside the transaction, before it commits.
Rows_BumpFirst(t) == {w \in Writes : write[w].st \notin {"none", "bumped"} /\ Visible(w, t)}

\* loadRuntimeParamSnapshot
Rows(t) == {w \in Writes : write[w].st # "none" /\ Visible(w, t)}

\* The writes a read must not miss: those that have a revision; in single-node
\* mode, those whose writer has been told of success.
Published(t) ==
    {w \in Writes : Visible(w, t) /\ IF cluster THEN write[w].rev > 0 ELSE write[w].st = "ok"}

\* Those it must not miss during an outage either.
Old(t) == {w \in Published(t) : write[w].at + MaxStale < now}

Snapshot(t, r) == [held |-> TRUE, rev |-> r, data |-> Rows(t)]

\* GetOrSetFuncLock runs its callback under the write lock of the cache.
Locked(n) == \E c \in Calls : call[c].node = n /\ call[c].pc = "insert"

Put(n, t, e) == cache' = [cache EXCEPT ![n][t] = e]

-----------------------------------------------------------------------------
(* Writers: one transaction, then MarkRuntimeParamsChanged. *)

\* withConfigMutation commits the row.
Commit(w, n, t, op) ==
    /\ write[w].st = "none"
    /\ Serial => \A v \in Writes : write[v].st \in {"none", "ok", "failed"}
    /\ write' = [write EXCEPT ![w].st = "committed", ![w].node = n,
                              ![w].tenant = t, ![w].op = op]
    /\ UNCHANGED <<coordVars, cluster, cache, call>>

BumpRevision(w) ==
    /\ write[w].st = "committed"
    /\ Bump(Scope)
    /\ write' = [write EXCEPT ![w].st = "bumped", ![w].rev = revision[Scope] + 1,
                              ![w].at = now]
    /\ UNCHANGED <<now, observed, cluster, cache, call>>

\* The INCR fails: the caller gets an error, the row stays.
BumpFails(w) ==
    /\ cluster /\ Faults
    /\ write[w].st = "committed"
    /\ write' = [write EXCEPT ![w].st = "failed", ![w].node = Nowhere]
    /\ UNCHANGED <<coordVars, cluster, cache, call>>

\* The INCR is done but its reply is lost: the caller gets an error, too.
ReplyLost(w) ==
    /\ cluster /\ Faults
    /\ write[w].st = "bumped"
    /\ write' = [write EXCEPT ![w].st = "failed", ![w].node = Nowhere]
    /\ UNCHANGED <<coordVars, cluster, cache, call>>

\* MarkTenantChanged records the revision; publishing its event may fail, and
\* then the caller gets an error and the cache is not cleared.
Mirror(w) ==
    /\ cluster
    /\ write[w].st = "bumped"
    /\ Observe(write[w].node, Scope, write[w].rev)
    /\ \/ write' = [write EXCEPT ![w].st = "mirrored"]
       \/ Faults /\ write' = [write EXCEPT ![w].st = "failed", ![w].node = Nowhere]
    /\ UNCHANGED <<now, revision, cluster, cache, call>>

\* Single-node: bumpLocalRuntimeParamRevision has set the revision already,
\* storeLocalRuntimeParamRevision sets it again.
StoreLocal(w) ==
    /\ ~cluster
    /\ write[w].st = "bumped"
    /\ revision' = [revision EXCEPT ![Scope] = write[w].rev]
    /\ write' = [write EXCEPT ![w].st = "mirrored"]
    /\ UNCHANGED <<now, observed, cluster, cache, call>>

\* The writer removes the snapshot of its own tenant and reports success.
DropOwn(w) ==
    /\ write[w].st = "mirrored"
    /\ ~Locked(write[w].node)
    /\ Put(write[w].node, write[w].tenant, NoEntry)
    /\ write' = [write EXCEPT ![w].st = "ok", ![w].node = Nowhere]
    /\ UNCHANGED <<coordVars, cluster, call>>

\* An update that failed is done again.  The row has the value already, so
\* refreshRuntimeParamSnapshotIfNeeded sees no change and does nothing.
RetryUpdate(w) ==
    /\ write[w].st = "failed" /\ write[w].op = "update"
    /\ write' = [write EXCEPT ![w].st = "ok"]
    /\ UNCHANGED <<coordVars, cluster, cache, call>>

-----------------------------------------------------------------------------
(* Readers (getRuntimeParamSnapshot) and the watcher (SyncRuntimeParamSnapshot). *)

Becomes(c, b) == call' = [call EXCEPT ![c] = b]

\* The first revision is for the lookup, the second for a snapshot in hand.
AfterRevision(b) == IF b.entry.held THEN "compare" ELSE "lookup"

\* getRuntimeParamRevision for the call with locals b: Redis answers,
ReadShared(c, b) ==
    /\ cluster
    /\ Becomes(c, [b EXCEPT !.pc = "observe", !.rev = revision[Scope]])
    /\ UNCHANGED revision

\* Redis fails within the stale window,
ReadObserved(c, b) ==
    /\ cluster /\ Faults
    /\ WithinStaleWindow(b.node, Scope)
    /\ Becomes(c, [b EXCEPT !.pc = AfterRevision(b), !.fell = TRUE,
                            !.rev = observed[b.node][Scope].rev])
    /\ UNCHANGED revision

\* single-node.
ReadLocal(c, b) ==
    /\ ~cluster
    /\ Becomes(c, [b EXCEPT !.pc = AfterRevision(b), !.rev = revision[Scope]])
    /\ UNCHANGED revision

ReadRevision(c, b) ==
    /\ ReadShared(c, b) \/ ReadObserved(c, b) \/ ReadLocal(c, b)
    /\ UNCHANGED <<now, observed, cluster, write, cache>>

Start(c, n, t, kind) ==
    /\ call[c].pc = "idle"
    /\ kind = "sync" => t = Platform
    /\ ReadRevision(c, [IdleCall EXCEPT !.kind = kind, !.node = n, !.tenant = t,
                                        !.must = IF kind = "get" THEN Published(t) ELSE {},
                                        !.old = IF kind = "get" THEN Old(t) ELSE {}])

ObserveRevision(c) ==
    /\ call[c].pc = "observe"
    /\ Observe(call[c].node, Scope, call[c].rev)
    /\ Becomes(c, [call[c] EXCEPT !.pc = AfterRevision(call[c])])
    /\ UNCHANGED <<now, revision, cluster, write, cache>>

Cached(c) == cache[call[c].node][call[c].tenant]

\* Mutant: the tag is not compared.
Matches_AnyTag(e, r) == e.held

\* getCachedRuntimeParamSnapshot accepts any entry for a revision of 0.
Matches(e, r) == e.held /\ (r = 0 \/ e.rev = r)

\* The watcher compares the tag once more.
Usable(c) ==
    /\ Matches(Cached(c), call[c].rev)
    /\ call[c].kind = "sync" => Cached(c).rev = call[c].rev

Hit(c) ==
    /\ call[c].pc = "lookup"
    /\ ~Locked(call[c].node)
    /\ Usable(c)
    /\ Becomes(c, [call[c] EXCEPT !.pc = "done", !.entry = Cached(c)])
    /\ UNCHANGED <<coordVars, cluster, write, cache>>

\* A reader goes on to GetOrSetFuncLock, the watcher loads without the lock.
Miss(c) ==
    /\ call[c].pc = "lookup"
    /\ ~Locked(call[c].node)
    /\ ~Usable(c)
    /\ Put(call[c].node, call[c].tenant,
           IF Matches(Cached(c), call[c].rev) THEN Cached(c) ELSE NoEntry)
    /\ Becomes(c, [call[c] EXCEPT !.kind = "get",    \* of no use from here on
                                  !.pc = IF call[c].kind = "get" THEN "fill" ELSE "load"])
    /\ UNCHANGED <<coordVars, cluster, write>>

\* Mutant: what GetOrSetFuncLock returns is not tested.
FoundFilled_Nil(c) ==
    /\ call[c].pc = "fill"
    /\ ~Locked(call[c].node)
    /\ Becomes(c, [call[c] EXCEPT !.pc = "recheck", !.entry = Cached(c)])
    /\ UNCHANGED <<coordVars, cluster, write, cache>>

\* Another reader has filled the cache.
FoundFilled(c) ==
    /\ call[c].pc = "fill"
    /\ ~Locked(call[c].node)
    /\ Cached(c).held
    /\ Becomes(c, [call[c] EXCEPT !.pc = "recheck", !.entry = Cached(c)])
    /\ UNCHANGED <<coordVars, cluster, write, cache>>

LoadLocked(c) ==
    /\ call[c].pc = "fill"
    /\ ~Locked(call[c].node)
    /\ ~Cached(c).held
    /\ Becomes(c, [call[c] EXCEPT !.pc = "insert",
                                  !.entry = Snapshot(call[c].tenant, call[c].rev)])
    /\ UNCHANGED <<coordVars, cluster, write, cache>>

Insert(c) ==
    /\ call[c].pc = "insert"
    /\ Put(call[c].node, call[c].tenant, call[c].entry)
    /\ Becomes(c, [call[c] EXCEPT !.pc = "recheck"])
    /\ UNCHANGED <<coordVars, cluster, write>>

Recheck(c) == call[c].pc = "recheck" /\ ReadRevision(c, call[c])

Same(c) ==
    /\ call[c].pc = "compare"
    /\ call[c].entry.rev = call[c].rev
    /\ Becomes(c, [call[c] EXCEPT !.pc = "done"])
    /\ UNCHANGED <<coordVars, cluster, write, cache>>

\* Mutant: a snapshot filled under the lock is returned whatever its tag.
Differs_Trusts(c) ==
    /\ call[c].pc = "compare"
    /\ call[c].entry.rev # call[c].rev
    /\ Becomes(c, [call[c] EXCEPT !.pc = "done"])
    /\ UNCHANGED <<coordVars, cluster, write, cache>>

Differs(c) ==
    /\ call[c].pc = "compare"
    /\ ~Locked(call[c].node)
    /\ call[c].entry.rev # call[c].rev
    /\ Put(call[c].node, call[c].tenant, NoEntry)
    /\ Becomes(c, [call[c] EXCEPT !.pc = "load", !.entry = NoEntry])
    /\ UNCHANGED <<coordVars, cluster, write>>

Load(c) ==
    /\ call[c].pc = "load"
    /\ Becomes(c, [call[c] EXCEPT !.pc = "set",
                                  !.entry = Snapshot(call[c].tenant, call[c].rev)])
    /\ UNCHANGED <<coordVars, cluster, write, cache>>

SetEntry(c) ==
    /\ call[c].pc = "set"
    /\ ~Locked(call[c].node)
    /\ Put(call[c].node, call[c].tenant, call[c].entry)
    /\ Becomes(c, [call[c] EXCEPT !.pc = "done"])
    /\ UNCHANGED <<coordVars, cluster, write>>

\* The second revision cannot be read, or sys_config cannot: an error.
GiveUp(c) ==
    /\ \/ /\ call[c].pc = "recheck" /\ cluster /\ Faults
          /\ ~WithinStaleWindow(call[c].node, Scope)
       \/ call[c].pc \in {"insert", "load"}
    /\ Becomes(c, IdleCall)
    /\ UNCHANGED <<coordVars, cluster, write, cache>>

Return(c) ==
    /\ call[c].pc = "done"
    /\ Becomes(c, IdleCall)
    /\ UNCHANGED <<coordVars, cluster, write, cache>>

-----------------------------------------------------------------------------
(* The environment. *)

\* The hard TTL of an entry.
ExpireEntry(n, t) ==
    /\ cache[n][t].held
    /\ ~Locked(n)
    /\ Put(n, t, NoEntry)
    /\ UNCHANGED <<coordVars, cluster, write, call>>

\* A node starts again: calls, caches and observations are lost, and so is
\* what a writer had still to do; its caller gets no answer.
Restart(n) ==
    /\ Faults
    /\ call' = [c \in Calls |-> IF call[c].node = n THEN IdleCall ELSE call[c]]
    /\ cache' = [cache EXCEPT ![n] = [t \in Tenants |-> NoEntry]]
    /\ write' = [w \in Writes |->
                   IF write[w].node = n /\ write[w].st \in {"committed", "bumped", "mirrored"}
                   THEN [write[w] EXCEPT !.st = "failed", !.node = Nowhere] ELSE write[w]]
    /\ ForgetObserved(n)
    /\ revision' = IF cluster THEN revision ELSE FirstRevision
    /\ UNCHANGED <<now, cluster>>

\* A revision is stored within the tick in which Redis returned it.
NothingToStore ==
    /\ \A c \in Calls : call[c].pc # "observe"
    /\ \A w \in Writes : write[w].st # "bumped"

Tick ==
    /\ now < MaxTime
    /\ NothingToStore
    /\ Advance
    /\ UNCHANGED <<cluster, write, cache, call>>

WriteStep(w) ==
    \/ \E n \in Nodes, t \in Tenants, op \in Ops : Commit(w, n, t, op)
    \/ BumpRevision(w) \/ BumpFails(w) \/ ReplyLost(w) \/ Mirror(w) \/ StoreLocal(w)
    \/ DropOwn(w) \/ RetryUpdate(w)

CallStep(c) ==
    \/ \E n \in Nodes, t \in Tenants, kind \in {"get", "sync"} : Start(c, n, t, kind)
    \/ ObserveRevision(c)
    \/ Hit(c) \/ Miss(c) \/ FoundFilled(c) \/ LoadLocked(c) \/ Insert(c)
    \/ Recheck(c) \/ Same(c) \/ Differs(c) \/ Load(c) \/ SetEntry(c)
    \/ GiveUp(c) \/ Return(c)

Next ==
    \/ \E w \in Writes : WriteStep(w)
    \/ \E c \in Calls : CallStep(c)
    \/ \E n \in Nodes, t \in Tenants : ExpireEntry(n, t)
    \/ \E n \in Nodes : Restart(n)
    \/ Tick

Spec == Init /\ [][Next]_vars

-----------------------------------------------------------------------------
(* Properties. *)

\* A cached snapshot contains every write of a revision up to its tag, so that
\* no write hides behind a tag that matches (config_raw.go, the revision is
\* read before sys_config, and bumped after the commit).
TagSound ==
    \A n \in Nodes, t \in Tenants : \A w \in Published(t) :
        (cache[n][t].held /\ write[w].rev <= cache[n][t].rev) => w \in cache[n][t].data

\* A read that could read the revision returns every write that had been
\* published when it began, on any node.
FreshRead ==
    \A c \in Calls :
        (call[c].pc = "done" /\ ~call[c].fell) => call[c].must \subseteq call[c].entry.data

\* Also during an outage, a read returns every write published more than
\* MaxStale ago.
BoundedStaleness ==
    \A c \in Calls : call[c].pc = "done" => call[c].old \subseteq call[c].entry.data

\* A writer that is told of success has published a revision.
SuccessIsPublished == \A w \in Writes : write[w].st = "ok" => write[w].rev > 0

=============================================================================
