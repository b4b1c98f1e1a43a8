------------------------- MODULE RuntimeConfigProofs --------------------------
(***************************************************************************)
(* Proofs about RuntimeConfig for every number of nodes, tenants, writes   *)
(* and calls, with failures and restarts: the types in both modes, the     *)
(* freshness of reads in cluster mode.                                     *)
(***************************************************************************)
EXTENDS RuntimeConfig, TLAPS

USE ConfigAssumption, CoordAssumption

-----------------------------------------------------------------------------
(***************************************************************************)
(* The inductive invariant.  Revisions of writes are behind the counter; a *)
(* snapshot, cached or in the hands of a call, contains every write up to  *)
(* its tag, and its tag is not ahead of the counter, so that no later      *)
(* write can get a revision the tag already covers.                        *)
(***************************************************************************)

WritesBehind ==
    \A w \in Writes :
        /\ write[w].rev <= revision[Scope]
        /\ write[w].st \in {"none", "committed"} => write[w].rev = 0

ObservedBehind == \A n \in Nodes : observed[n][Scope].rev <= revision[Scope]

Sound(e, t) ==
    e.held => /\ e.rev <= revision[Scope]
              /\ \A w \in Published(t) : write[w].rev <= e.rev => w \in e.data

CacheSound == \A n \in Nodes, t \in Tenants : Sound(cache[n][t], t)

\* b is the record of a call.
Behaved(b) ==
    /\ Sound(b.entry, b.tenant)
    /\ b.rev <= revision[Scope]
    /\ b.must \subseteq Published(b.tenant)
    /\ b.pc # "idle" => b.node \in Nodes
    /\ ~b.fell => \A w \in b.must : write[w].rev <= b.rev
    /\ b.pc \in Holding => b.entry.held
    /\ (b.pc \in {"set", "done"} /\ ~b.fell) => b.must \subseteq b.entry.data

CallsBehave == \A c \in Calls : Behaved(call[c])

IInv == Typed /\ WritesBehind /\ ObservedBehind /\ CacheSound /\ CallsBehave

-----------------------------------------------------------------------------
\* The mode is chosen once.
LEMMA ModeStays == ASSUME [Next]_vars PROVE cluster' = cluster
<1>1. ASSUME NEW w \in Writes, WriteStep(w) PROVE cluster' = cluster
  BY <1>1 DEF WriteStep, Commit, BumpRevision, BumpFails, ReplyLost, Mirror, StoreLocal,
              DropOwn, RetryUpdate
<1>2. ASSUME NEW c \in Calls, CallStep(c) PROVE cluster' = cluster
  BY <1>2 DEF CallStep, Start, ReadRevision, ObserveRevision, Hit, Miss, FoundFilled, LoadLocked,
              Insert, Recheck, Same, Differs, Load, SetEntry, GiveUp, Return
<1> QED
  BY <1>1, <1>2 DEF Next, ExpireEntry, Restart, Tick, vars

LEMMA ScopeIsScope == Scope \in Scopes
  OBVIOUS

LEMMA IdleBehaves ==
    ASSUME Typed
    PROVE  IdleCall \in CallState /\ Behaved(IdleCall)
  BY ScopeIsScope DEF Typed, CoordTypeOK, IdleCall, NoEntry, CallState, Entry, Behaved, Sound, Holding

\* A step of call c that leaves the writes and the counter alone keeps the
\* invariant if the new record of c and the cache are as they should be.
LEMMA OneCall ==
    ASSUME cluster, cluster' = cluster, IInv, NEW c \in Calls, NEW b \in CallState,
           Behaved(b), Becomes(c, b), UNCHANGED <<now, revision, write>>,
           observed' \in [Nodes -> [Scopes -> Observation]], ObservedBehind',
           cache' \in [Nodes -> [Tenants -> Entry]], CacheSound'
    PROVE  IInv'
<1>1. Typed'
  BY DEF IInv, Typed, CoordTypeOK, Becomes
<1>2. WritesBehind'
  BY DEF IInv, WritesBehind
<1>3. CallsBehave'
  <2> SUFFICES ASSUME NEW d \in Calls PROVE Behaved(call[d])'
    BY DEF CallsBehave
  <2>1. call'[d] = b \/ call'[d] = call[d]
    BY DEF Becomes, IInv, Typed
  <2>2. Behaved(call[d])
    BY DEF IInv, CallsBehave
  <2>3. ASSUME NEW e PROVE Behaved(e) => Behaved(e)'
    BY DEF Behaved, Sound, Published, Visible
  <2> QED
    BY <2>1, <2>2, <2>3
<1> QED
  BY <1>1, <1>2, <1>3 DEF IInv

-----------------------------------------------------------------------------
\* A step that publishes nothing, and only drops entries and calls.
LEMMA NothingPublished ==
    ASSUME cluster, cluster' = cluster, IInv,
           write' \in [Writes -> WriteState],
           \A w \in Writes :
              /\ write'[w].rev = write[w].rev
              /\ write[w].rev > 0 => write'[w].tenant = write[w].tenant
              /\ write'[w].st \in {"none", "committed"} => write[w].rev = 0,
           UNCHANGED revision, now' \in Nat,
           observed' \in [Nodes -> [Scopes -> Observation]], ObservedBehind',
           cache' \in [Nodes -> [Tenants -> Entry]],
           \A n \in Nodes, t \in Tenants : cache'[n][t] \in {cache[n][t], NoEntry},
           call' \in [Calls -> CallState],
           \A c \in Calls : call'[c] \in {call[c], IdleCall}
    PROVE  IInv'
<1>1. Typed'
  BY DEF IInv, Typed, CoordTypeOK
<1>2. WritesBehind'
  BY DEF IInv, WritesBehind
<1>3. ASSUME NEW t PROVE Published(t)' = Published(t)
  <2>1. \A w \in Writes : write[w].rev \in Nat
    BY DEF IInv, Typed, WriteState
  <2> QED
    BY <2>1 DEF Published, Visible
<1>4. ASSUME NEW e, NEW t PROVE Sound(e, t) => Sound(e, t)'
  BY <1>3 DEF Sound, Published
<1>5. CacheSound'
  <2> SUFFICES ASSUME NEW n \in Nodes, NEW t \in Tenants PROVE Sound(cache[n][t], t)'
    BY DEF CacheSound
  <2>1. Sound(cache[n][t], t)
    BY DEF IInv, CacheSound
  <2>2. Sound(NoEntry, t)
    BY DEF Sound, NoEntry
  <2>3. cache'[n][t] = cache[n][t] \/ cache'[n][t] = NoEntry
    OBVIOUS
  <2> QED
    BY <1>4, <2>1, <2>2, <2>3
<1>6. CallsBehave'
  <2> SUFFICES ASSUME NEW c \in Calls PROVE Behaved(call[c])'
    BY DEF CallsBehave
  <2>1. Behaved(call[c]) /\ Behaved(IdleCall)
    BY IdleBehaves DEF IInv, CallsBehave
  <2>2. ASSUME NEW b PROVE Behaved(b) => Behaved(b)'
    BY <1>3, <1>4 DEF Behaved, Published
  <2>3. call'[c] = call[c] \/ call'[c] = IdleCall
    OBVIOUS
  <2> QED
    BY <2>1, <2>2, <2>3
<1> QED
  BY <1>1, <1>2, <1>5, <1>6 DEF IInv

\* The new revision is ahead of every tag, so no snapshot claims to cover it.
LEMMA BumpKeeps ==
    ASSUME cluster, cluster' = cluster, IInv, NEW w \in Writes, BumpRevision(w)
    PROVE  IInv'
<1> USE ScopeIsScope
<1>1. Typed'
  <2>1. revision[Scope] \in Nat /\ now \in Nat /\ write[w] \in WriteState
    BY DEF IInv, Typed, CoordTypeOK
  <2> DEFINE r == [write[w] EXCEPT !.st = "bumped", !.rev = revision[Scope] + 1, !.at = now]
  <2>a. r \in WriteState
    <3> DEFINE r1 == [write[w] EXCEPT !.st = "bumped"]
               r2 == [r1 EXCEPT !.rev = revision[Scope] + 1]
    <3>1. r1 \in WriteState
      BY <2>1 DEF WriteState
    <3>2. r2 \in WriteState
      <4> HIDE DEF r1
      <4> QED  BY <2>1, <3>1 DEF WriteState
    <3>3. [r2 EXCEPT !.at = now] \in WriteState
      <4> HIDE DEF r2
      <4> QED  BY <2>1, <3>2 DEF WriteState
    <3> QED
      BY <3>3
  <2>b. write' = [write EXCEPT ![w] = r]
    BY DEF BumpRevision
  <2>2. write' \in [Writes -> WriteState]
    BY <2>a, <2>b DEF IInv, Typed
  <2>3. revision' \in [Scopes -> Nat]
    BY <2>1 DEF IInv, Typed, CoordTypeOK, BumpRevision, Bump
  <2> QED
    BY <2>2, <2>3 DEF IInv, Typed, CoordTypeOK, BumpRevision
<1>2. revision'[Scope] = revision[Scope] + 1 /\ revision[Scope] \in Nat
  BY DEF IInv, Typed, CoordTypeOK, BumpRevision, Bump
<1>3. /\ write'[w].rev = revision[Scope] + 1
      /\ write[w].rev = 0
      /\ \A v \in Writes : v # w => write'[v] = write[v]
      /\ \A v \in Writes : write'[v].tenant = write[v].tenant /\ write[v].rev \in Nat
  BY DEF IInv, Typed, WritesBehind, BumpRevision, WriteState
<1>4. WritesBehind'
  BY <1>2, <1>3 DEF IInv, WritesBehind, BumpRevision, Typed, WriteState
<1>5. ObservedBehind'
  BY <1>2 DEF IInv, ObservedBehind, BumpRevision, Typed, CoordTypeOK, Observation
<1>6. ASSUME NEW t PROVE Published(t)' \subseteq Published(t) \cup {w} /\ Published(t) \subseteq Published(t)'
  BY <1>3 DEF Published, Visible
<1>7. ASSUME NEW e \in Entry, NEW t PROVE Sound(e, t) => Sound(e, t)'
  BY <1>2, <1>3, <1>6 DEF Sound, Entry, Published
<1>8. CacheSound'
  <2> SUFFICES ASSUME NEW n \in Nodes, NEW t \in Tenants PROVE Sound(cache[n][t], t)'
    BY DEF CacheSound
  <2>1. cache[n][t] \in Entry /\ cache' = cache /\ Sound(cache[n][t], t)
    BY DEF IInv, Typed, CacheSound, BumpRevision
  <2> QED
    BY <1>7, <2>1
<1>9. CallsBehave'
  <2> SUFFICES ASSUME NEW c \in Calls PROVE Behaved(call[c])'
    BY DEF CallsBehave
  <2> DEFINE b == call[c]
  <2>1. call' = call /\ b \in CallState /\ Behaved(b)
    BY DEF IInv, Typed, CallsBehave, BumpRevision
  <2>2. b.entry \in Entry /\ b.rev \in Nat /\ b.must \subseteq Writes
    BY <2>1 DEF CallState
  <2>3. Sound(b.entry, b.tenant)'
    BY <1>7, <2>1, <2>2 DEF Behaved
  <2>4. \A v \in b.must : v # w /\ write'[v].rev = write[v].rev
    BY <1>3, <2>1, <2>2 DEF Behaved, Published
  <2> QED
    BY <1>2, <1>6, <2>1, <2>2, <2>3, <2>4 DEF Behaved
<1> QED
  BY <1>1, <1>4, <1>5, <1>8, <1>9 DEF IInv

\* A revision read from Redis is not behind any published write; one that was
\* observed marks the call as fallen back.
LEMMA ReadKeeps ==
    ASSUME cluster, cluster' = cluster, IInv, NEW c \in Calls, NEW b \in CallState, b.node \in Nodes,
           Sound(b.entry, b.tenant), b.must \subseteq Published(b.tenant),
           ReadRevision(c, b)
    PROVE  IInv'
<1> USE ScopeIsScope
<1>1. UNCHANGED <<now, revision, observed, write, cache>>
  BY DEF ReadRevision, ReadShared, ReadObserved, ReadLocal
<1>2. ObservedBehind' /\ CacheSound'
  BY <1>1 DEF IInv, ObservedBehind, CacheSound, Sound, Published, Visible
<1>3. cache' \in [Nodes -> [Tenants -> Entry]] /\ observed' \in [Nodes -> [Scopes -> Observation]]
  BY <1>1 DEF IInv, Typed, CoordTypeOK
<1>4. revision[Scope] \in Nat /\ observed[b.node][Scope].rev \in Nat
  BY DEF IInv, Typed, CoordTypeOK, Observation
<1>5. CASE ReadShared(c, b)
  <2> DEFINE d == [b EXCEPT !.pc = "observe", !.rev = revision[Scope]]
  <2>1. d \in CallState /\ Becomes(c, d)
    BY <1>4, <1>5 DEF ReadShared, CallState
  <2>2. \A w \in d.must : write[w].rev <= d.rev
    BY DEF IInv, WritesBehind, Published, CallState
  <2>3. Behaved(d)
    BY <1>4, <2>2 DEF Behaved, Holding, CallState
  <2> HIDE DEF d
  <2> QED
    BY <1>1, <1>2, <1>3, <2>1, <2>3, OneCall
<1>6. CASE ReadObserved(c, b)
  <2> DEFINE d == [b EXCEPT !.pc = AfterRevision(b), !.fell = TRUE,
                            !.rev = observed[b.node][Scope].rev]
  <2>1. d \in CallState /\ Becomes(c, d)
    BY <1>4, <1>6 DEF ReadObserved, CallState, AfterRevision
  <2>2. d.rev <= revision[Scope]
    BY DEF IInv, ObservedBehind, CallState
  <2>3. Behaved(d)
    BY <1>4, <2>2 DEF Behaved, Holding, CallState, AfterRevision
  <2> HIDE DEF d
  <2> QED
    BY <1>1, <1>2, <1>3, <2>1, <2>3, OneCall
<1> QED
  BY <1>5, <1>6 DEF ReadRevision, ReadLocal

LEMMA WriteStepKeeps ==
    ASSUME cluster, cluster' = cluster, IInv, NEW w \in Writes, WriteStep(w)
    PROVE  IInv'
<1> USE ScopeIsScope
<1>0. /\ write[w] \in WriteState /\ write \in [Writes -> WriteState]
      /\ call' = call \/ \E v \in Writes : BumpRevision(v)
      /\ now \in Nat /\ call \in [Calls -> CallState]
      /\ cache \in [Nodes -> [Tenants -> Entry]]
      /\ observed \in [Nodes -> [Scopes -> Observation]]
      /\ NoEntry \in Entry
  BY DEF IInv, Typed, CoordTypeOK, WriteStep, Commit, BumpFails, ReplyLost, Mirror, StoreLocal,
         DropOwn, RetryUpdate, NoEntry, Entry
<1>1. ASSUME NEW n \in Nodes, NEW t \in Tenants, NEW op \in Ops, Commit(w, n, t, op)
      PROVE  IInv'
  <2>1. write' \in [Writes -> WriteState]
    BY <1>0, <1>1 DEF Commit, WriteState
  <2>2. write[w].rev = 0
    BY <1>1 DEF IInv, WritesBehind, Commit
  <2>3. \A v \in Writes : /\ write'[v].rev = write[v].rev
                          /\ write[v].rev > 0 => write'[v].tenant = write[v].tenant
                          /\ write'[v].st \in {"none", "committed"} => write[v].rev = 0
    BY <1>0, <1>1, <2>2 DEF Commit, WriteState, IInv, WritesBehind
  <2> QED
    BY <1>0, <1>1, <2>1, <2>3, NothingPublished
    DEF Commit, coordVars, IInv, ObservedBehind
<1>2. CASE BumpRevision(w)
  BY <1>2, BumpKeeps
<1>3. CASE BumpFails(w) \/ ReplyLost(w)
  <2> DEFINE f == [write[w] EXCEPT !.st = "failed", !.node = Nowhere]
  <2>1. write' = [write EXCEPT ![w] = f] /\ UNCHANGED <<coordVars, cache, call>>
    BY <1>3 DEF BumpFails, ReplyLost
  <2>2. f \in WriteState /\ f.rev = write[w].rev /\ f.tenant = write[w].tenant /\ f.st = "failed"
    BY <1>0 DEF WriteState
  <2> HIDE DEF f
  <2>3. write' \in [Writes -> WriteState]
    BY <1>0, <2>1, <2>2
  <2>4. \A v \in Writes : /\ write'[v].rev = write[v].rev
                          /\ write'[v].tenant = write[v].tenant
                          /\ write'[v].st \in {"none", "committed"} => write[v].rev = 0
    BY <1>0, <2>1, <2>2 DEF IInv, WritesBehind
  <2>5. ObservedBehind' /\ UNCHANGED <<now, revision, observed>>
    BY <2>1 DEF coordVars, IInv, ObservedBehind
  <2> QED
    BY <1>0, <2>1, <2>3, <2>4, <2>5, NothingPublished
<1>4. CASE Mirror(w)
  <2> DEFINE r == [write[w] EXCEPT !.st = "mirrored"]
             f == [write[w] EXCEPT !.st = "failed", !.node = Nowhere]
  <2>a. r \in WriteState /\ f \in WriteState
    BY <1>0 DEF WriteState
  <2>b. write' = [write EXCEPT ![w] = r] \/ write' = [write EXCEPT ![w] = f]
    BY <1>4 DEF Mirror
  <2>1. write' \in [Writes -> WriteState]
    BY <1>0, <2>a, <2>b
  <2>2. [rev |-> write[w].rev, until |-> now + MaxStale + 1] \in Observation
    BY <1>0 DEF Observation, WriteState
  <2>3. observed' \in [Nodes -> [Scopes -> Observation]]
    BY <1>0, <1>4, <2>2 DEF Mirror, Observe
  <2>4. ObservedBehind'
    BY <1>0, <1>4 DEF Mirror, Observe, IInv, ObservedBehind, WritesBehind
  <2>5. \A v \in Writes : /\ write'[v].rev = write[v].rev
                          /\ write'[v].tenant = write[v].tenant
                          /\ write'[v].st \in {"none", "committed"} => write[v].rev = 0
    <3>1. /\ write[w].st = "bumped"
          /\ r.rev = write[w].rev /\ r.tenant = write[w].tenant /\ r.st = "mirrored"
          /\ f.rev = write[w].rev /\ f.tenant = write[w].tenant /\ f.st = "failed"
      BY <1>0, <1>4 DEF Mirror, WriteState
    <3> HIDE DEF r, f
    <3> QED
      BY <1>0, <2>b, <3>1 DEF IInv, WritesBehind
  <2> QED
    BY <1>0, <1>4, <2>1, <2>3, <2>4, <2>5, NothingPublished DEF Mirror
<1>5. CASE DropOwn(w)
  <2>1. write' \in [Writes -> WriteState]
    BY <1>0, <1>5 DEF DropOwn, WriteState
  <2>2. cache' \in [Nodes -> [Tenants -> Entry]]
    BY <1>0, <1>5 DEF DropOwn, Put
  <2>3. \A n \in Nodes, t \in Tenants : cache'[n][t] \in {cache[n][t], NoEntry}
    BY <1>0, <1>5 DEF DropOwn, Put
  <2>4. \A v \in Writes : /\ write'[v].rev = write[v].rev
                          /\ write'[v].tenant = write[v].tenant
                          /\ write'[v].st \in {"none", "committed"} => write[v].rev = 0
    BY <1>0, <1>5 DEF DropOwn, WriteState, IInv, WritesBehind
  <2> QED
    BY <1>0, <1>5, <2>1, <2>2, <2>3, <2>4, NothingPublished
    DEF DropOwn, coordVars, IInv, ObservedBehind
<1>6. CASE RetryUpdate(w)
  <2>1. write' \in [Writes -> WriteState]
    BY <1>0, <1>6 DEF RetryUpdate, WriteState
  <2>2. \A v \in Writes : /\ write'[v].rev = write[v].rev
                          /\ write'[v].tenant = write[v].tenant
                          /\ write'[v].st \in {"none", "committed"} => write[v].rev = 0
    BY <1>0, <1>6 DEF RetryUpdate, WriteState, IInv, WritesBehind
  <2> QED
    BY <1>0, <1>6, <2>1, <2>2, NothingPublished
    DEF RetryUpdate, coordVars, IInv, ObservedBehind
<1> QED
  BY <1>1, <1>2, <1>3, <1>4, <1>5, <1>6 DEF WriteStep, StoreLocal

LEMMA CallStepKeeps ==
    ASSUME cluster, cluster' = cluster, IInv, NEW c \in Calls, CallStep(c)
    PROVE  IInv'
<1> USE ScopeIsScope
<1> DEFINE b == call[c]
<1>0. /\ b \in CallState /\ Behaved(b) /\ b.entry \in Entry
      /\ now \in Nat /\ call \in [Calls -> CallState]
      /\ cache \in [Nodes -> [Tenants -> Entry]]
      /\ observed \in [Nodes -> [Scopes -> Observation]]
      /\ NoEntry \in Entry
      /\ b.tenant \in Tenants /\ b.rev \in Nat /\ b.must \in SUBSET Writes
      /\ b.pc # "idle" => b.node \in Nodes
  BY DEF IInv, Typed, CoordTypeOK, NoEntry, Entry, CallsBehave, Behaved, CallState
<1>a. ASSUME UNCHANGED <<coordVars, write>>
      PROVE  /\ UNCHANGED <<now, revision, write>> /\ ObservedBehind'
             /\ observed' \in [Nodes -> [Scopes -> Observation]]
             /\ \A e, t : Sound(e, t)' = Sound(e, t)
  BY <1>0, <1>a DEF coordVars, IInv, ObservedBehind, Sound, Published, Visible
<1>b. ASSUME UNCHANGED <<coordVars, write, cache>>
      PROVE  CacheSound' /\ cache' \in [Nodes -> [Tenants -> Entry]]
  BY <1>0, <1>b DEF coordVars, IInv, CacheSound, Sound, Published, Visible
<1>c. ASSUME NEW e \in Entry, b.node \in Nodes, Sound(e, b.tenant),
             Put(b.node, b.tenant, e), UNCHANGED <<coordVars, write>>
      PROVE  CacheSound' /\ cache' \in [Nodes -> [Tenants -> Entry]]
  <2>1. cache' \in [Nodes -> [Tenants -> Entry]]
    BY <1>0, <1>c DEF Put
  <2>2. ASSUME NEW n \in Nodes, NEW t \in Tenants PROVE Sound(cache'[n][t], t)
    <3>1. cache'[n][t] = cache[n][t] \/ (t = b.tenant /\ cache'[n][t] = e)
      BY <1>0, <1>c DEF Put
    <3> QED
      BY <1>c, <3>1 DEF IInv, CacheSound
  <2>3. \A n \in Nodes, t \in Tenants : Sound(cache[n][t], t)'
    BY <1>c, <2>2 DEF coordVars, Sound, Published, Visible
  <2> QED
    BY <2>1, <2>3 DEF CacheSound
<1>d. Sound(NoEntry, b.tenant)
  BY DEF Sound, NoEntry
<1>e. ASSUME b.node \in Nodes PROVE Cached(c) \in Entry /\ Sound(Cached(c), b.tenant)
  BY <1>0, <1>e DEF Cached, IInv, CacheSound
<1>f. ASSUME NEW r \in Nat, r <= revision[Scope]
      PROVE  LET s == Snapshot(b.tenant, r)
             IN  s \in Entry /\ s.held /\ Sound(s, b.tenant) /\ b.must \subseteq s.data
  <2>1. Rows(b.tenant) \in SUBSET Writes
    BY DEF Rows
  <2>2. Published(b.tenant) \subseteq Rows(b.tenant)
    BY DEF Published, Rows, IInv, WritesBehind, Typed, WriteState
  <2> QED
    BY <1>0, <1>f, <2>1, <2>2 DEF Snapshot, Entry, Sound, Behaved
<1>1. ASSUME NEW n \in Nodes, NEW t \in Tenants, NEW kind \in {"get", "sync"},
             Start(c, n, t, kind)
      PROVE  IInv'
  <2> DEFINE d == [IdleCall EXCEPT !.kind = kind, !.node = n, !.tenant = t,
                                   !.must = IF kind = "get" THEN Published(t) ELSE {},
                                   !.old = IF kind = "get" THEN Old(t) ELSE {}]
  <2>1. Published(t) \in SUBSET Writes /\ Old(t) \in SUBSET Writes
    BY DEF Published, Old
  <2>2. d \in CallState
    BY <1>0, <2>1 DEF IdleCall, CallState
  <2>3. d.node = n /\ d.must \subseteq Published(t) /\ d.tenant = t /\ d.entry = NoEntry
    BY DEF IdleCall
  <2>4. ReadRevision(c, d) /\ Sound(d.entry, d.tenant)
    BY <1>1, <2>3 DEF Start, Sound, NoEntry
  <2> HIDE DEF d
  <2> QED
    BY <2>2, <2>3, <2>4, ReadKeeps
<1>2. CASE ObserveRevision(c)
  <2> DEFINE d == [b EXCEPT !.pc = AfterRevision(b)]
  <2>1. d \in CallState /\ Behaved(d) /\ Becomes(c, d)
    BY <1>0, <1>2 DEF ObserveRevision, AfterRevision, CallState, Behaved, Holding
  <2>2. UNCHANGED <<now, revision, write, cache>>
    BY <1>2 DEF ObserveRevision
  <2>3. [rev |-> b.rev, until |-> now + MaxStale + 1] \in Observation
    BY <1>0 DEF Observation
  <2>4. observed' \in [Nodes -> [Scopes -> Observation]]
    BY <1>0, <1>2, <2>3 DEF ObserveRevision, Observe
  <2>5. ObservedBehind'
    BY <1>0, <1>2, <2>2 DEF ObserveRevision, Observe, IInv, ObservedBehind, Behaved
  <2>6. CacheSound' /\ cache' \in [Nodes -> [Tenants -> Entry]]
    BY <1>0, <2>2 DEF IInv, CacheSound, Sound, Published, Visible
  <2> HIDE DEF d
  <2> QED
    BY <2>1, <2>2, <2>4, <2>5, <2>6, OneCall
<1>4. CASE Hit(c)
  <2> DEFINE d == [b EXCEPT !.pc = "done", !.entry = Cached(c)]
  <2>1. b.node \in Nodes /\ Becomes(c, d) /\ UNCHANGED <<coordVars, write, cache>>
    BY <1>0, <1>4 DEF Hit
  <2>2. d \in CallState
    BY <1>0, <1>e, <2>1 DEF CallState
  <2>3. ~b.fell => b.must \subseteq Cached(c).data
    BY <1>0, <1>4, <1>e, <2>1
    DEF Hit, Usable, Matches, Behaved, Sound, Published, IInv, Typed, WriteState
  <2>4. Behaved(d)
    BY <1>0, <1>e, <2>1, <2>3 DEF Behaved, Holding, CallState
  <2> HIDE DEF d
  <2> QED
    BY <1>a, <1>b, <2>1, <2>2, <2>4, OneCall
<1>5. CASE Miss(c)
  <2> DEFINE d == [b EXCEPT !.kind = "get", !.pc = IF b.kind = "get" THEN "fill" ELSE "load"]
             e == IF Matches(Cached(c), b.rev) THEN Cached(c) ELSE NoEntry
  <2>1. b.node \in Nodes /\ Becomes(c, d) /\ UNCHANGED <<coordVars, write>>
    BY <1>0, <1>5 DEF Miss
  <2>2. Put(b.node, b.tenant, e) /\ e \in Entry /\ Sound(e, b.tenant)
    BY <1>0, <1>5, <1>d, <1>e, <2>1 DEF Miss
  <2>3. d \in CallState /\ Behaved(d)
    BY <1>0, <1>5 DEF Miss, CallState, Behaved, Holding
  <2> HIDE DEF d, e
  <2> QED
    BY <1>a, <1>c, <2>1, <2>2, <2>3, OneCall
<1>6. CASE FoundFilled(c)
  <2> DEFINE d == [b EXCEPT !.pc = "recheck", !.entry = Cached(c)]
  <2>1. b.node \in Nodes /\ Becomes(c, d) /\ UNCHANGED <<coordVars, write, cache>>
        /\ Cached(c).held
    BY <1>0, <1>6 DEF FoundFilled
  <2>2. d \in CallState /\ Behaved(d)
    BY <1>0, <1>e, <2>1 DEF CallState, Behaved, Holding
  <2> HIDE DEF d
  <2> QED
    BY <1>a, <1>b, <2>1, <2>2, OneCall
<1>7. CASE LoadLocked(c)
  <2> DEFINE s == Snapshot(b.tenant, b.rev)
             d == [b EXCEPT !.pc = "insert", !.entry = s]
  <2>1. b.node \in Nodes /\ Becomes(c, d) /\ UNCHANGED <<coordVars, write, cache>>
    BY <1>0, <1>7 DEF LoadLocked
  <2>2. s \in Entry /\ s.held /\ Sound(s, b.tenant)
    BY <1>0, <1>f DEF Behaved
  <2> HIDE DEF s
  <2>3. d \in CallState /\ Behaved(d)
    BY <1>0, <2>1, <2>2 DEF CallState, Behaved, Holding
  <2> HIDE DEF d
  <2> QED
    BY <1>a, <1>b, <2>1, <2>3, OneCall
<1>8. CASE Insert(c)
  <2> DEFINE d == [b EXCEPT !.pc = "recheck"]
  <2>1. b.node \in Nodes /\ Becomes(c, d) /\ UNCHANGED <<coordVars, write>>
        /\ Put(b.node, b.tenant, b.entry)
    BY <1>0, <1>8 DEF Insert
  <2>2. d \in CallState /\ Behaved(d)
    BY <1>0, <1>8 DEF Insert, CallState, Behaved, Holding
  <2>3. Sound(b.entry, b.tenant)
    BY <1>0 DEF Behaved
  <2> HIDE DEF d
  <2> QED
    BY <1>0, <1>a, <1>c, <2>1, <2>2, <2>3, OneCall
<1>9. CASE Recheck(c)
  BY <1>0, <1>9, ReadKeeps DEF Recheck, Behaved
<1>10. CASE Same(c)
  <2> DEFINE d == [b EXCEPT !.pc = "done"]
  <2>1. Becomes(c, d) /\ UNCHANGED <<coordVars, write, cache>>
    BY <1>10 DEF Same
  <2>2. ~b.fell => b.must \subseteq b.entry.data
    BY <1>0, <1>10 DEF Same, Behaved, Holding, Sound, Published
  <2>3. d \in CallState /\ Behaved(d)
    BY <1>0, <1>10, <2>2 DEF Same, CallState, Behaved, Holding
  <2> HIDE DEF d
  <2> QED
    BY <1>a, <1>b, <2>1, <2>3, OneCall
<1>11. CASE Differs(c)
  <2> DEFINE d == [b EXCEPT !.pc = "load", !.entry = NoEntry]
  <2>1. b.node \in Nodes /\ Becomes(c, d) /\ UNCHANGED <<coordVars, write>>
        /\ Put(b.node, b.tenant, NoEntry)
    BY <1>0, <1>11 DEF Differs
  <2>2. d \in CallState /\ Behaved(d)
    BY <1>0, <1>d, <2>1 DEF CallState, Behaved, Holding
  <2> HIDE DEF d
  <2> QED
    BY <1>0, <1>a, <1>c, <1>d, <2>1, <2>2, OneCall
<1>12. CASE Load(c)
  <2> DEFINE s == Snapshot(b.tenant, b.rev)
             d == [b EXCEPT !.pc = "set", !.entry = s]
  <2>1. b.node \in Nodes /\ Becomes(c, d) /\ UNCHANGED <<coordVars, write, cache>>
    BY <1>0, <1>12 DEF Load
  <2>2. s \in Entry /\ s.held /\ Sound(s, b.tenant) /\ b.must \subseteq s.data
    BY <1>0, <1>f DEF Behaved
  <2> HIDE DEF s
  <2>3. d \in CallState /\ Behaved(d)
    BY <1>0, <2>1, <2>2 DEF CallState, Behaved, Holding
  <2> HIDE DEF d
  <2> QED
    BY <1>a, <1>b, <2>1, <2>3, OneCall
<1>13. CASE SetEntry(c)
  <2> DEFINE d == [b EXCEPT !.pc = "done"]
  <2>1. b.node \in Nodes /\ Becomes(c, d) /\ UNCHANGED <<coordVars, write>>
        /\ Put(b.node, b.tenant, b.entry)
    BY <1>0, <1>13 DEF SetEntry
  <2>2. d \in CallState /\ Behaved(d)
    BY <1>0, <1>13 DEF SetEntry, CallState, Behaved, Holding
  <2>3. Sound(b.entry, b.tenant)
    BY <1>0 DEF Behaved
  <2> HIDE DEF d
  <2> QED
    BY <1>0, <1>a, <1>c, <2>1, <2>2, <2>3, OneCall
<1>14. CASE GiveUp(c) \/ Return(c)
  <2>1. Becomes(c, IdleCall) /\ UNCHANGED <<coordVars, write, cache>>
    BY <1>14 DEF GiveUp, Return
  <2>2. IdleCall \in CallState /\ Behaved(IdleCall)
    BY IdleBehaves DEF IInv
  <2> QED
    BY <1>a, <1>b, <2>1, <2>2, OneCall
<1> QED
  BY <1>0, <1>1, <1>2, <1>4, <1>5, <1>6, <1>7, <1>8, <1>9, <1>10, <1>11, <1>12, <1>13, <1>14
  DEF CallStep, Behaved

-----------------------------------------------------------------------------
LEMMA InitKeeps ==
    ASSUME Init
    PROVE  IInv
<1> USE ScopeIsScope DEF Init, CoordInit, FirstRevision
<1>1. NoEntry \in Entry /\ NoWrite \in WriteState
  BY DEF NoEntry, Entry, NoWrite, WriteState
<1>2. IdleCall \in CallState
  BY DEF IdleCall, NoEntry, CallState, Entry
<1>3. Typed
  BY <1>1, <1>2 DEF Typed, CoordTypeOK, Unobserved, Observation
<1>4. WritesBehind /\ ObservedBehind
  BY DEF WritesBehind, ObservedBehind, NoWrite, Unobserved
<1>5. CacheSound
  BY DEF CacheSound, Sound, NoEntry
<1>6. CallsBehave
  BY <1>3, IdleBehaves DEF CallsBehave
<1> QED
  BY <1>3, <1>4, <1>5, <1>6 DEF IInv

LEMMA RestartKeeps ==
    ASSUME cluster, cluster' = cluster, IInv, NEW n \in Nodes, Restart(n)
    PROVE  IInv'
<1> USE ScopeIsScope
<1>1. /\ call \in [Calls -> CallState] /\ IdleCall \in CallState
      /\ write \in [Writes -> WriteState]
      /\ cache \in [Nodes -> [Tenants -> Entry]] /\ NoEntry \in Entry
      /\ observed \in [Nodes -> [Scopes -> Observation]]
      /\ revision[Scope] \in Nat /\ now \in Nat
  BY IdleBehaves DEF IInv, Typed, CoordTypeOK, NoEntry, Entry
<1>2. /\ call' \in [Calls -> CallState]
      /\ \A c \in Calls : call'[c] \in {call[c], IdleCall}
  BY <1>1 DEF Restart
<1>3. /\ cache' \in [Nodes -> [Tenants -> Entry]]
      /\ \A m \in Nodes, t \in Tenants : cache'[m][t] \in {cache[m][t], NoEntry}
  BY <1>1 DEF Restart
<1>4. /\ write' \in [Writes -> WriteState]
      /\ \A w \in Writes :
            /\ write'[w].rev = write[w].rev
            /\ write'[w].tenant = write[w].tenant
            /\ write'[w].st \in {"none", "committed"} => write[w].rev = 0
  <2>1. ASSUME NEW r \in WriteState
        PROVE  LET l == [r EXCEPT !.st = "failed", !.node = Nowhere]
               IN  l \in WriteState /\ l.rev = r.rev /\ l.tenant = r.tenant /\ l.st = "failed"
    BY DEF WriteState
  <2>2. \A w \in Writes : write'[w] = write[w] \/
            write'[w] = [write[w] EXCEPT !.st = "failed", !.node = Nowhere]
    BY DEF Restart
  <2>3. write' \in [Writes -> WriteState]
    BY <1>1, <2>1 DEF Restart
  <2> QED
    BY <1>1, <2>1, <2>2, <2>3 DEF IInv, WritesBehind
<1>5. Unobserved \in [Scopes -> Observation] /\ Unobserved[Scope].rev = 0
  BY DEF Unobserved, Observation
<1>6. observed' \in [Nodes -> [Scopes -> Observation]] /\ ObservedBehind'
  <2>1. observed' = [observed EXCEPT ![n] = Unobserved] /\ revision' = revision
    BY DEF Restart, ForgetObserved
  <2>2. \A m \in Nodes : observed'[m] = observed[m] \/ observed'[m] = Unobserved
    BY <1>1, <2>1
  <2>3. observed' \in [Nodes -> [Scopes -> Observation]]
    BY <1>1, <1>5, <2>1
  <2>4. \A m \in Nodes : observed[m][Scope].rev <= revision[Scope]
    BY DEF IInv, ObservedBehind
  <2>5. \A m \in Nodes : observed'[m][Scope].rev <= revision'[Scope]
    <3> SUFFICES ASSUME NEW m \in Nodes
                 PROVE  observed'[m][Scope].rev <= revision[Scope]
      BY <2>1
    <3>1. CASE observed'[m] = observed[m]
      BY <2>4, <3>1
    <3>2. CASE observed'[m] = Unobserved
      BY <1>1, <1>5, <3>2
    <3> QED
      BY <2>2, <3>1, <3>2
  <2> QED
    BY <2>3, <2>5 DEF ObservedBehind
<1> QED
  BY <1>1, <1>2, <1>3, <1>4, <1>6, NothingPublished DEF Restart

LEMMA NextKeeps ==
    ASSUME cluster, cluster' = cluster, IInv, [Next]_vars
    PROVE  IInv'
<1> USE ScopeIsScope
<1>1. /\ call \in [Calls -> CallState] /\ write \in [Writes -> WriteState]
      /\ cache \in [Nodes -> [Tenants -> Entry]] /\ NoEntry \in Entry
      /\ observed \in [Nodes -> [Scopes -> Observation]]
      /\ now \in Nat
  BY DEF IInv, Typed, CoordTypeOK, NoEntry, Entry
<1>2. \A w \in Writes : write[w].st \in {"none", "committed"} => write[w].rev = 0
  BY DEF IInv, WritesBehind
<1>3. ASSUME NEW n \in Nodes, NEW t \in Tenants, ExpireEntry(n, t)
      PROVE  IInv'
  <2>1. /\ cache' \in [Nodes -> [Tenants -> Entry]]
        /\ \A m \in Nodes, u \in Tenants : cache'[m][u] \in {cache[m][u], NoEntry}
    BY <1>1, <1>3 DEF ExpireEntry, Put
  <2> QED
    BY <1>1, <1>2, <1>3, <2>1, NothingPublished
    DEF ExpireEntry, coordVars, IInv, ObservedBehind
<1>4. CASE Tick \/ UNCHANGED vars
  <2>1. UNCHANGED <<revision, observed, write, cache, call>> /\ now' \in Nat
    BY <1>1, <1>4 DEF Tick, Advance, vars, coordVars
  <2>2. ObservedBehind'
    BY <2>1 DEF IInv, ObservedBehind
  <2> QED
    BY <1>1, <1>2, <2>1, <2>2, NothingPublished
<1>5. CASE \E w \in Writes : WriteStep(w)
  BY <1>5, WriteStepKeeps
<1>6. CASE \E c \in Calls : CallStep(c)
  BY <1>6, CallStepKeeps
<1>7. CASE \E n \in Nodes : Restart(n)
  BY <1>7, RestartKeeps
<1> QED
  BY <1>3, <1>4, <1>5, <1>6, <1>7 DEF Next

-----------------------------------------------------------------------------
(***************************************************************************)
(* Types, in both modes.  A call at work is on a node, and one that is     *)
(* about to use a snapshot has it.                                         *)
(***************************************************************************)

Placed(b) ==
    /\ b.pc # "idle" => b.node \in Nodes
    /\ b.pc \in Holding => b.entry.held

TypeInv == Typed /\ \A c \in Calls : Placed(call[c])

LEMMA TypeFacts ==
    ASSUME Typed
    PROVE  /\ now \in Nat /\ revision \in [Scopes -> Nat] /\ revision[Scope] \in Nat
           /\ observed \in [Nodes -> [Scopes -> Observation]]
           /\ write \in [Writes -> WriteState]
           /\ cache \in [Nodes -> [Tenants -> Entry]]
           /\ call \in [Calls -> CallState]
           /\ NoEntry \in Entry /\ IdleCall \in CallState /\ Placed(IdleCall)
  BY ScopeIsScope DEF Typed, CoordTypeOK, IdleCall, NoEntry, CallState, Entry, Placed, Holding

\* A step of one call that leaves the writes and the clock.
LEMMA CallTyped ==
    ASSUME TypeInv, NEW c \in Calls, NEW b \in CallState, Placed(b), Becomes(c, b),
           UNCHANGED <<now, cluster, write>>, revision' \in [Scopes -> Nat],
           observed' \in [Nodes -> [Scopes -> Observation]],
           cache' \in [Nodes -> [Tenants -> Entry]]
    PROVE  TypeInv'
<1>1. call \in [Calls -> CallState] /\ \A d \in Calls : Placed(call[d])
  BY TypeFacts DEF TypeInv
<1>2. call' \in [Calls -> CallState]
  BY <1>1 DEF Becomes
<1>3. \A d \in Calls : Placed(call'[d])
  BY <1>1 DEF Becomes
<1>4. Typed'
  BY <1>2, TypeFacts DEF TypeInv, Typed, CoordTypeOK
<1> QED BY <1>3, <1>4 DEF TypeInv, Placed

LEMMA ObserveTyped ==
    ASSUME Typed, NEW n \in Nodes, NEW r \in Nat, Observe(n, Scope, r)
    PROVE  observed' \in [Nodes -> [Scopes -> Observation]]
<1>1. [rev |-> r, until |-> now + MaxStale + 1] \in Observation
  BY TypeFacts DEF Observation
<1> QED BY <1>1, TypeFacts, ScopeIsScope DEF Observe

LEMMA PutTyped ==
    ASSUME Typed, NEW n, NEW t, NEW e \in Entry, Put(n, t, e)
    PROVE  cache' \in [Nodes -> [Tenants -> Entry]]
  BY TypeFacts DEF Put

LEMMA ReadTyped ==
    ASSUME TypeInv, NEW c \in Calls, NEW b \in CallState, b.node \in Nodes, ReadRevision(c, b)
    PROVE  TypeInv'
<1>0. UNCHANGED <<now, observed, cluster, write, cache>> /\ Typed
  BY DEF ReadRevision, TypeInv
<1>1. /\ observed' \in [Nodes -> [Scopes -> Observation]] /\ cache' \in [Nodes -> [Tenants -> Entry]]
      /\ revision \in [Scopes -> Nat] /\ revision[Scope] \in Nat
      /\ observed[b.node][Scope].rev \in Nat
  BY <1>0, TypeFacts, ScopeIsScope DEF Observation
<1>2. CASE ReadShared(c, b)
  <2> DEFINE d == [b EXCEPT !.pc = "observe", !.rev = revision[Scope]]
  <2>1. d \in CallState /\ Placed(d) /\ Becomes(c, d) /\ revision' = revision
    BY <1>1, <1>2 DEF ReadShared, CallState, Placed, Holding
  <2> HIDE DEF d
  <2> QED BY <1>0, <1>1, <2>1, CallTyped
<1>3. CASE ReadObserved(c, b)
  <2> DEFINE d == [b EXCEPT !.pc = AfterRevision(b), !.fell = TRUE,
                            !.rev = observed[b.node][Scope].rev]
  <2>1. d \in CallState /\ Placed(d) /\ Becomes(c, d) /\ revision' = revision
    BY <1>1, <1>3 DEF ReadObserved, CallState, AfterRevision, Placed, Holding
  <2> HIDE DEF d
  <2> QED BY <1>0, <1>1, <2>1, CallTyped
<1>4. CASE ReadLocal(c, b)
  <2> DEFINE d == [b EXCEPT !.pc = AfterRevision(b), !.rev = revision[Scope]]
  <2>1. d \in CallState /\ Placed(d) /\ Becomes(c, d) /\ revision' = revision
    BY <1>1, <1>4 DEF ReadLocal, CallState, AfterRevision, Placed, Holding
  <2> HIDE DEF d
  <2> QED BY <1>0, <1>1, <2>1, CallTyped
<1> QED BY <1>2, <1>3, <1>4 DEF ReadRevision

LEMMA CallStepTyped == ASSUME TypeInv, NEW c \in Calls, CallStep(c) PROVE TypeInv'
<1> USE ScopeIsScope
<1> DEFINE b == call[c]
<1>0. /\ Typed /\ b \in CallState /\ Placed(b) /\ b.entry \in Entry /\ NoEntry \in Entry
      /\ b.tenant \in Tenants /\ b.rev \in Nat
  BY TypeFacts DEF TypeInv, CallState
<1>1. /\ revision \in [Scopes -> Nat] /\ observed \in [Nodes -> [Scopes -> Observation]]
      /\ cache \in [Nodes -> [Tenants -> Entry]]
  BY <1>0, TypeFacts
<1>2. ASSUME NEW d \in CallState, Placed(d), Becomes(c, d), UNCHANGED <<coordVars, cluster, write>>,
             cache' = cache \/ \E n, t : \E e \in Entry : Put(n, t, e)
      PROVE  TypeInv'
  <2>1. cache' \in [Nodes -> [Tenants -> Entry]]
    BY <1>0, <1>1, <1>2, PutTyped
  <2>2. /\ UNCHANGED <<now, cluster, write>> /\ revision' \in [Scopes -> Nat]
        /\ observed' \in [Nodes -> [Scopes -> Observation]]
    BY <1>1, <1>2 DEF coordVars
  <2> QED BY <1>2, <2>1, <2>2, CallTyped
<1>3. ASSUME NEW pc \in {"lookup", "compare", "recheck", "done"}, NEW d,
             d = [b EXCEPT !.pc = pc], pc \in Holding => b.entry.held, b.node \in Nodes
      PROVE  d \in CallState /\ Placed(d)
  BY <1>0, <1>3 DEF CallState, Placed
<1>4. ASSUME NEW pc \in {"done", "recheck", "insert", "set", "load"}, NEW e \in Entry, NEW d,
             d = [b EXCEPT !.pc = pc, !.entry = e], pc \in Holding => e.held, b.node \in Nodes
      PROVE  d \in CallState /\ Placed(d)
  BY <1>0, <1>4 DEF CallState, Placed
<1>5. b.node \in Nodes => Cached(c) \in Entry
  BY <1>0, <1>1 DEF Cached
<1>6. \A t, r : r \in Nat => Snapshot(t, r) \in Entry /\ Snapshot(t, r).held
  BY DEF Snapshot, Entry, Rows
<1>7. b.pc # "idle" => b.node \in Nodes
  BY <1>0 DEF Placed
<1>8. CASE \E n \in Nodes, t \in Tenants, kind \in {"get", "sync"} : Start(c, n, t, kind)
  <2>1. PICK n \in Nodes, t \in Tenants, kind \in {"get", "sync"} : Start(c, n, t, kind)
    BY <1>8
  <2> DEFINE d == [IdleCall EXCEPT !.kind = kind, !.node = n, !.tenant = t,
                                   !.must = IF kind = "get" THEN Published(t) ELSE {},
                                   !.old = IF kind = "get" THEN Old(t) ELSE {}]
  <2>2. Published(t) \in SUBSET Writes /\ Old(t) \in SUBSET Writes /\ IdleCall \in CallState
    BY <1>0, TypeFacts DEF Published, Old
  <2>3. d \in CallState /\ d.node = n
    BY <2>2 DEF IdleCall, CallState
  <2>4. ReadRevision(c, d)
    BY <2>1 DEF Start
  <2> HIDE DEF d
  <2> QED BY <2>3, <2>4, ReadTyped
<1>9. CASE ObserveRevision(c)
  <2> DEFINE d == [b EXCEPT !.pc = AfterRevision(b)]
  <2>1. b.node \in Nodes /\ Becomes(c, d) /\ UNCHANGED <<now, revision, cluster, write, cache>>
        /\ Observe(b.node, Scope, b.rev)
    BY <1>7, <1>9 DEF ObserveRevision
  <2>2. d \in CallState /\ Placed(d)
    BY <1>3, <2>1 DEF AfterRevision, Holding
  <2>3. observed' \in [Nodes -> [Scopes -> Observation]]
    BY <1>0, <2>1, ObserveTyped
  <2> HIDE DEF d
  <2> QED BY <1>1, <2>1, <2>2, <2>3, CallTyped
<1>11. CASE Hit(c)
  <2>1. PICK d : d = [b EXCEPT !.pc = "done", !.entry = Cached(c)]
    OBVIOUS
  <2>2. d \in CallState /\ Placed(d)
    BY <1>4, <1>5, <1>7, <1>11, <2>1 DEF Hit, Holding
  <2> QED BY <1>2, <1>11, <2>1, <2>2 DEF Hit
<1>12. CASE Miss(c)
  <2>1. PICK d : d = [b EXCEPT !.kind = "get", !.pc = IF b.kind = "get" THEN "fill" ELSE "load"]
    OBVIOUS
  <2>2. b.node \in Nodes /\ Becomes(c, d) /\ UNCHANGED <<coordVars, cluster, write>>
    BY <1>7, <1>12, <2>1 DEF Miss
  <2>3. d \in CallState /\ Placed(d)
    BY <1>0, <2>1, <2>2 DEF CallState, Placed, Holding
  <2>4. \E e \in Entry : Put(b.node, b.tenant, e)
    BY <1>0, <1>5, <1>12, <2>2 DEF Miss
  <2> QED BY <1>2, <2>2, <2>3, <2>4
<1>13. CASE FoundFilled(c)
  <2>1. PICK d : d = [b EXCEPT !.pc = "recheck", !.entry = Cached(c)]
    OBVIOUS
  <2>2. d \in CallState /\ Placed(d)
    BY <1>4, <1>5, <1>7, <1>13, <2>1 DEF FoundFilled
  <2> QED BY <1>2, <1>13, <2>1, <2>2 DEF FoundFilled
<1>14. CASE LoadLocked(c) \/ Load(c)
  <2>1. PICK s : s = Snapshot(b.tenant, b.rev)
    OBVIOUS
  <2>2. PICK pc \in {"insert", "set"} :
             Becomes(c, [b EXCEPT !.pc = pc, !.entry = s]) /\ UNCHANGED <<coordVars, cluster, write, cache>>
    BY <1>14, <2>1 DEF LoadLocked, Load
  <2>3. PICK d : d = [b EXCEPT !.pc = pc, !.entry = s]
    OBVIOUS
  <2>4. s \in Entry /\ s.held /\ b.node \in Nodes
    BY <1>0, <1>6, <1>7, <1>14, <2>1 DEF LoadLocked, Load
  <2>5. d \in CallState /\ Placed(d)
    BY <1>4, <2>3, <2>4
  <2> QED BY <1>2, <2>2, <2>3, <2>5
<1>15. CASE Insert(c)
  <2>1. PICK d : d = [b EXCEPT !.pc = "recheck"]
    OBVIOUS
  <2>2. b.node \in Nodes /\ b.entry.held
    BY <1>0, <1>7, <1>15 DEF Insert, Placed, Holding
  <2>3. d \in CallState /\ Placed(d)
    BY <1>3, <2>1, <2>2
  <2>4. Becomes(c, d) /\ UNCHANGED <<coordVars, cluster, write>> /\ Put(b.node, b.tenant, b.entry)
    BY <1>15, <2>1 DEF Insert
  <2> QED BY <1>0, <1>2, <2>3, <2>4
<1>16. CASE Recheck(c)
  BY <1>0, <1>7, <1>16, ReadTyped DEF Recheck
<1>17. CASE Same(c)
  <2>1. PICK d : d = [b EXCEPT !.pc = "done"]
    OBVIOUS
  <2>2. d \in CallState /\ Placed(d)
    BY <1>3, <1>7, <1>17, <2>1 DEF Same, Holding
  <2> QED BY <1>2, <1>17, <2>1, <2>2 DEF Same
<1>18. CASE Differs(c)
  <2>1. PICK d : d = [b EXCEPT !.pc = "load", !.entry = NoEntry]
    OBVIOUS
  <2>2. d \in CallState /\ Placed(d)
    BY <1>0, <1>4, <1>7, <1>18, <2>1 DEF Differs, Holding
  <2>3. Becomes(c, d) /\ UNCHANGED <<coordVars, cluster, write>> /\ Put(b.node, b.tenant, NoEntry)
    BY <1>18, <2>1 DEF Differs
  <2> QED BY <1>0, <1>2, <2>2, <2>3
<1>19. CASE SetEntry(c)
  <2>1. PICK d : d = [b EXCEPT !.pc = "done"]
    OBVIOUS
  <2>2. d \in CallState /\ Placed(d)
    BY <1>3, <1>7, <1>19, <2>1 DEF SetEntry, Holding
  <2>3. Becomes(c, d) /\ UNCHANGED <<coordVars, cluster, write>> /\ Put(b.node, b.tenant, b.entry)
    BY <1>19, <2>1 DEF SetEntry
  <2> QED BY <1>0, <1>2, <2>2, <2>3
<1>20. CASE GiveUp(c) \/ Return(c)
  BY <1>0, <1>2, <1>20, TypeFacts DEF GiveUp, Return
<1> QED BY <1>8, <1>9, <1>11, <1>12, <1>13, <1>14, <1>15, <1>16, <1>17, <1>18, <1>19, <1>20
  DEF CallStep

\* Writers, time and restarts leave the calls that they do not end.
LEMMA OthersTyped ==
    ASSUME TypeInv, cluster' = cluster, now' \in Nat, revision' \in [Scopes -> Nat],
           observed' \in [Nodes -> [Scopes -> Observation]],
           write' \in [Writes -> WriteState], cache' \in [Nodes -> [Tenants -> Entry]],
           call' \in [Calls -> CallState], \A c \in Calls : call'[c] \in {call[c], IdleCall}
    PROVE  TypeInv'
<1>1. \A c \in Calls : Placed(call'[c])
  BY TypeFacts DEF TypeInv
<1> QED BY <1>1 DEF TypeInv, Typed, CoordTypeOK, Placed

LEMMA WriteStepTyped == ASSUME TypeInv, NEW w \in Writes, WriteStep(w) PROVE TypeInv'
<1>0. /\ Typed /\ now \in Nat /\ revision \in [Scopes -> Nat] /\ revision[Scope] \in Nat
      /\ observed \in [Nodes -> [Scopes -> Observation]]
      /\ write \in [Writes -> WriteState] /\ write[w] \in WriteState /\ write[w].rev \in Nat
      /\ cache \in [Nodes -> [Tenants -> Entry]] /\ NoEntry \in Entry
      /\ call' = call /\ now' = now /\ cluster' = cluster /\ call \in [Calls -> CallState]
  BY TypeFacts DEF TypeInv, WriteState, WriteStep, Commit, BumpRevision, BumpFails, ReplyLost, Mirror,
     StoreLocal, DropOwn, RetryUpdate, coordVars
<1>1. ASSUME NEW x \in WriteState, write' = [write EXCEPT ![w] = x], revision' \in [Scopes -> Nat],
             observed' \in [Nodes -> [Scopes -> Observation]], cache' \in [Nodes -> [Tenants -> Entry]]
      PROVE  TypeInv'
  <2>1. write' \in [Writes -> WriteState]
    BY <1>0, <1>1
  <2> QED BY <1>0, <1>1, <2>1, OthersTyped
<1>2. ASSUME NEW st \in {"failed", "mirrored", "ok"}, NEW n \in {write[w].node, Nowhere}
      PROVE  [write[w] EXCEPT !.st = st, !.node = n] \in WriteState
  BY <1>0, <1>2 DEF WriteState
<1>3. ASSUME NEW st PROVE [write[w] EXCEPT !.st = st] = [write[w] EXCEPT !.st = st, !.node = write[w].node]
  BY <1>0 DEF WriteState
<1>4. ASSUME NEW n \in Nodes, NEW t \in Tenants, NEW op \in Ops, Commit(w, n, t, op) PROVE TypeInv'
  <2>1. PICK x : x = [write[w] EXCEPT !.st = "committed", !.node = n, !.tenant = t, !.op = op]
    OBVIOUS
  <2>2. x \in WriteState
    BY <1>0, <2>1 DEF WriteState
  <2>3. write' = [write EXCEPT ![w] = x] /\ UNCHANGED <<revision, observed, cache>>
    BY <1>4, <2>1 DEF Commit, coordVars
  <2> QED BY <1>0, <1>1, <2>2, <2>3
<1>5. CASE BumpRevision(w)
  <2>0. PICK r \in Nat : r = revision[Scope] + 1
    BY <1>0
  <2>1. PICK x : x = [write[w] EXCEPT !.st = "bumped", !.rev = r, !.at = now]
    OBVIOUS
  <2>2. x \in WriteState
    BY <1>0, <2>1 DEF WriteState
  <2>3. write' = [write EXCEPT ![w] = x] /\ UNCHANGED <<observed, cache>>
    BY <1>5, <2>0, <2>1 DEF BumpRevision
  <2>4. revision' \in [Scopes -> Nat]
    BY <1>0, <1>5 DEF BumpRevision, Bump
  <2> QED BY <1>0, <1>1, <2>2, <2>3, <2>4
<1>6. CASE BumpFails(w) \/ ReplyLost(w)
  <2>1. PICK x : x = [write[w] EXCEPT !.st = "failed", !.node = Nowhere]
    OBVIOUS
  <2>2. write' = [write EXCEPT ![w] = x] /\ UNCHANGED <<revision, observed, cache>>
    BY <1>6, <2>1 DEF BumpFails, ReplyLost, coordVars
  <2> QED BY <1>0, <1>1, <1>2, <2>1, <2>2
<1>7. CASE Mirror(w)
  <2>1. \E x \in WriteState : write' = [write EXCEPT ![w] = x]
    <3>1. PICK x, y : /\ x = [write[w] EXCEPT !.st = "mirrored"]
                      /\ y = [write[w] EXCEPT !.st = "failed", !.node = Nowhere]
      OBVIOUS
    <3>2. x \in WriteState /\ y \in WriteState
      BY <1>0, <3>1 DEF WriteState
    <3>3. write' = [write EXCEPT ![w] = x] \/ write' = [write EXCEPT ![w] = y]
      BY <1>7, <3>1 DEF Mirror
    <3> QED BY <3>2, <3>3
  <2>2. observed' \in [Nodes -> [Scopes -> Observation]]
    <3>1. CASE write[w].node \in Nodes
      BY <1>0, <1>7, <3>1, ObserveTyped DEF Mirror
    <3>2. CASE write[w].node \notin Nodes
      BY <1>0, <1>7, <3>2 DEF Mirror, Observe
    <3> QED BY <3>1, <3>2
  <2>3. UNCHANGED <<revision, cache>>
    BY <1>7 DEF Mirror
  <2> QED BY <1>0, <1>1, <2>1, <2>2, <2>3
<1>8. CASE StoreLocal(w)
  <2>1. \E x \in WriteState : write' = [write EXCEPT ![w] = x]
    BY <1>2, <1>3, <1>8 DEF StoreLocal
  <2>2. revision' \in [Scopes -> Nat] /\ UNCHANGED <<observed, cache>>
    BY <1>0, <1>8 DEF StoreLocal
  <2> QED BY <1>0, <1>1, <2>1, <2>2
<1>9. CASE DropOwn(w)
  <2>1. \E x \in WriteState : write' = [write EXCEPT ![w] = x]
    BY <1>2, <1>9 DEF DropOwn
  <2>2. Put(write[w].node, write[w].tenant, NoEntry) /\ UNCHANGED <<revision, observed>>
    BY <1>9 DEF DropOwn, coordVars
  <2>3. cache' \in [Nodes -> [Tenants -> Entry]]
    BY <1>0, <2>2 DEF Put
  <2> QED BY <1>0, <1>1, <2>1, <2>2, <2>3
<1>10. CASE RetryUpdate(w)
  <2>1. \E x \in WriteState : write' = [write EXCEPT ![w] = x]
    BY <1>2, <1>3, <1>10 DEF RetryUpdate
  <2> QED BY <1>0, <1>1, <1>10, <2>1 DEF RetryUpdate, coordVars
<1> QED BY <1>4, <1>5, <1>6, <1>7, <1>8, <1>9, <1>10 DEF WriteStep

LEMMA TypeInvariant == Spec => []TypeInv
<1>1. Init => TypeInv
  <2> SUFFICES ASSUME Init PROVE TypeInv
    OBVIOUS
  <2>1. Typed
    BY InitKeeps DEF IInv
  <2> QED BY <2>1, TypeFacts DEF Init, TypeInv
<1>2. TypeInv /\ [Next]_vars => TypeInv'
  <2> SUFFICES ASSUME TypeInv, [Next]_vars PROVE TypeInv'
    OBVIOUS
  <2>0. /\ Typed /\ now \in Nat /\ revision \in [Scopes -> Nat]
        /\ observed \in [Nodes -> [Scopes -> Observation]] /\ write \in [Writes -> WriteState]
        /\ cache \in [Nodes -> [Tenants -> Entry]] /\ call \in [Calls -> CallState]
        /\ NoEntry \in Entry /\ IdleCall \in CallState
    BY TypeFacts DEF TypeInv
  <2>1. ASSUME NEW n \in Nodes, NEW t \in Tenants, ExpireEntry(n, t) PROVE TypeInv'
    <3>1. cache' \in [Nodes -> [Tenants -> Entry]] /\ UNCHANGED <<coordVars, cluster, write, call>>
      BY <2>0, <2>1, PutTyped DEF ExpireEntry
    <3> QED BY <2>0, <3>1, OthersTyped DEF coordVars
  <2>2. CASE Tick \/ UNCHANGED vars
    <3>1. UNCHANGED <<revision, observed, cluster, write, cache, call>> /\ now' \in Nat
      BY <2>0, <2>2 DEF Tick, Advance, vars, coordVars
    <3> QED BY <2>0, <3>1, OthersTyped
  <2>3. ASSUME NEW n \in Nodes, Restart(n) PROVE TypeInv'
    <3>1. call' \in [Calls -> CallState] /\ \A c \in Calls : call'[c] \in {call[c], IdleCall}
      BY <2>0, <2>3 DEF Restart
    <3>2. cache' \in [Nodes -> [Tenants -> Entry]]
      BY <2>0, <2>3 DEF Restart
    <3>3. write' \in [Writes -> WriteState]
      <4>1. ASSUME NEW r \in WriteState
            PROVE  [r EXCEPT !.st = "failed", !.node = Nowhere] \in WriteState
        BY DEF WriteState
      <4> QED BY <2>0, <2>3, <4>1 DEF Restart
    <3>4. Unobserved \in [Scopes -> Observation]
      BY DEF Unobserved, Observation
    <3>5. observed' \in [Nodes -> [Scopes -> Observation]]
      BY <2>0, <2>3, <3>4 DEF Restart, ForgetObserved
    <3>6. revision' \in [Scopes -> Nat] /\ UNCHANGED <<now, cluster>>
      BY <2>0, <2>3 DEF Restart, FirstRevision
    <3> QED BY <2>0, <3>1, <3>2, <3>3, <3>5, <3>6, OthersTyped
  <2> QED BY <2>1, <2>2, <2>3, WriteStepTyped, CallStepTyped DEF Next
<1> QED BY <1>1, <1>2, PTL DEF Spec

\* The types of the state, and that no call uses a snapshot it does not have, in
\* cluster mode and on a single node, whatever fails or restarts.
THEOREM TypeCorrect == Spec => []TypeOK
<1>1. TypeInv => TypeOK
  BY DEF TypeInv, TypeOK, Placed
<1> QED BY <1>1, TypeInvariant, PTL

-----------------------------------------------------------------------------
\* The inductive invariant, in cluster mode.
THEOREM Invariant == Spec => [](cluster => IInv)
<1>1. Init => (cluster => IInv)
  BY InitKeeps
<1>2. (cluster => IInv) /\ [Next]_vars => (cluster => IInv)'
  BY ModeStays, NextKeeps
<1> QED
  BY <1>1, <1>2, PTL DEF Spec

\* A cached snapshot contains every write of a revision up to its tag
\* (config_raw.go: the revision is read before sys_config is, and bumped after
\* the commit).
THEOREM TagSoundThm == Spec => [](cluster => TagSound)
<1>1. IInv => TagSound
  BY DEF IInv, CacheSound, Sound, TagSound
<1> QED
  BY <1>1, Invariant, PTL

\* A read that could read the revision returns every write published before it
\* began (config_raw.go, getRuntimeParamSnapshot), on any number of nodes, and
\* whatever fails or restarts meanwhile.
THEOREM FreshReadThm == Spec => [](cluster => FreshRead)
<1>1. IInv => FreshRead
  BY DEF IInv, CallsBehave, Behaved, FreshRead
<1> QED
  BY <1>1, Invariant, PTL

-----------------------------------------------------------------------------
(***************************************************************************)
(* Bounded staleness.  An observation that misses a write ends within      *)
(* MaxStale of that write: a revision is stored in the tick in which it    *)
(* was read, so a write it misses was published in that tick or later.     *)
(***************************************************************************)

\* The window of an observation that misses w ends in time for w.
ObservedInTime ==
    \A n \in Nodes, w \in Writes :
        write[w].rev > observed[n][Scope].rev =>
            observed[n][Scope].until <= write[w].at + MaxStale + 1

\* What a revision misses that is still to be stored was published just now.
StoredInTime ==
    \A w \in Writes :
        /\ \A c \in Calls : (call[c].pc = "observe" /\ write[w].rev > call[c].rev)
                               => write[w].at = now
        /\ \A v \in Writes : (write[v].st = "bumped" /\ write[w].rev > write[v].rev)
                               => write[w].at = now

NothingAhead ==
    /\ \A w \in Writes : write[w].at <= now
    /\ \A n \in Nodes : observed[n][Scope].until <= now + MaxStale + 1

\* b is the record of a call.
InTime(b) ==
    /\ b.old \subseteq b.must
    /\ \A w \in b.old : write[w].at + MaxStale < now /\ write[w].rev <= b.rev
    /\ b.pc \in {"set", "done"} => b.old \subseteq b.entry.data

CallsInTime == \A c \in Calls : InTime(call[c])

Window == ObservedInTime /\ StoredInTime /\ NothingAhead /\ CallsInTime

LEMMA WindowTypes ==
    ASSUME IInv
    PROVE  /\ now \in Nat /\ revision[Scope] \in Nat
           /\ \A w \in Writes : write[w].rev \in Nat /\ write[w].at \in Nat
           /\ \A n \in Nodes : /\ observed[n][Scope].rev \in Nat
                               /\ observed[n][Scope].until \in Nat
           /\ \A c \in Calls : /\ call[c] \in CallState /\ call[c].rev \in Nat
                               /\ call[c].must \subseteq Published(call[c].tenant)
  BY ScopeIsScope DEF IInv, Typed, CoordTypeOK, WriteState, Observation, CallState, CallsBehave, Behaved

LEMMA IdleInTime == InTime(IdleCall) /\ IdleCall.pc = "idle"
  BY DEF InTime, IdleCall

\* A step that publishes nothing and drops calls and observations, or lets
\* time pass while there is nothing to store.
LEMMA WindowStays ==
    ASSUME IInv, Window,
           \A w \in Writes : /\ write'[w].rev = write[w].rev
                             /\ write'[w].at = write[w].at
                             /\ write'[w].st = "bumped" => write[w].st = "bumped",
           \A c \in Calls : call'[c] \in {call[c], IdleCall},
           \A n \in Nodes : observed'[n] \in {observed[n], Unobserved},
           now' = now \/ (now' = now + 1 /\ NothingToStore)
    PROVE  Window'
<1>1. now' \in Nat /\ now' >= now
  BY WindowTypes
<1>2. Unobserved[Scope].rev = 0 /\ Unobserved[Scope].until = 0
  BY ScopeIsScope DEF Unobserved
<1>3. ObservedInTime'
  <2> SUFFICES ASSUME NEW n \in Nodes, NEW w \in Writes
               PROVE  write[w].rev > observed'[n][Scope].rev =>
                        observed'[n][Scope].until <= write[w].at + MaxStale + 1
    BY DEF ObservedInTime
  <2>1. CASE observed'[n] = observed[n]
    BY <2>1 DEF Window, ObservedInTime
  <2>2. CASE observed'[n] = Unobserved
    BY <1>2, <2>2, WindowTypes
  <2> QED
    BY <2>1, <2>2
<1>4. StoredInTime'
  <2>1. CASE now' = now
    BY <2>1, IdleInTime DEF Window, StoredInTime
  <2>2. CASE NothingToStore
    BY <2>2, IdleInTime DEF NothingToStore, StoredInTime
  <2> QED
    BY <2>1, <2>2
<1>5. NothingAhead'
  <2>1. \A w \in Writes : write'[w].at <= now'
    BY <1>1, WindowTypes DEF Window, NothingAhead
  <2>2. ASSUME NEW n \in Nodes PROVE observed'[n][Scope].until <= now' + MaxStale + 1
    <3>1. CASE observed'[n] = observed[n]
      BY <1>1, <3>1, WindowTypes DEF Window, NothingAhead
    <3>2. CASE observed'[n] = Unobserved
      BY <1>1, <1>2, <3>2
    <3> QED
      BY <3>1, <3>2
  <2> QED
    BY <2>1, <2>2 DEF NothingAhead
<1>6. CallsInTime'
  <2> SUFFICES ASSUME NEW c \in Calls PROVE InTime(call[c])'
    BY DEF CallsInTime
  <2>1. InTime(call[c])
    BY DEF Window, CallsInTime
  <2>2. CASE call'[c] = call[c]
    <3>1. \A w \in call[c].old : w \in Writes
      BY <2>1, WindowTypes DEF InTime, Published
    <3> QED
      BY <1>1, <2>1, <2>2, <3>1, WindowTypes DEF InTime
  <2>3. CASE call'[c] = IdleCall
    BY <2>3 DEF InTime, IdleCall
  <2> QED
    BY <2>2, <2>3
<1> QED
  BY <1>3, <1>4, <1>5, <1>6 DEF Window

\* A step of call c that leaves the writes and the clock alone.
LEMMA WindowOfCall ==
    ASSUME IInv, Window, NEW c \in Calls, NEW b \in CallState, Becomes(c, b), InTime(b),
           UNCHANGED <<now, write>>, ObservedInTime',
           \A n \in Nodes : observed'[n][Scope].until <= now + MaxStale + 1,
           b.pc = "observe" => \A w \in Writes : write[w].rev <= b.rev
    PROVE  Window'
<1>1. \A d \in Calls : call'[d] = IF d = c THEN b ELSE call[d]
  BY DEF Becomes, IInv, Typed
<1>2. StoredInTime'
  <2> SUFFICES ASSUME NEW w \in Writes
               PROVE  /\ \A d \in Calls : (call'[d].pc = "observe" /\ write[w].rev > call'[d].rev)
                                            => write[w].at = now
                      /\ \A v \in Writes : (write[v].st = "bumped" /\ write[w].rev > write[v].rev)
                                            => write[w].at = now
    BY DEF StoredInTime
  <2>1. ASSUME NEW d \in Calls, call'[d].pc = "observe", write[w].rev > call'[d].rev
        PROVE  write[w].at = now
    <3>1. d # c
      <4> SUFFICES ASSUME d = c PROVE FALSE
        OBVIOUS
      <4>1. call'[d] = b
        BY <1>1
      <4>2. b.rev \in Nat
        BY DEF CallState
      <4> QED
        BY <2>1, <4>1, <4>2, WindowTypes
    <3> QED
      BY <1>1, <2>1, <3>1 DEF Window, StoredInTime
  <2> QED
    BY <2>1 DEF Window, StoredInTime
<1>3. NothingAhead'
  BY <1>1 DEF Window, NothingAhead
<1>4. CallsInTime'
  <2> SUFFICES ASSUME NEW d \in Calls PROVE InTime(call[d])'
    BY DEF CallsInTime
  <2>1. InTime(call'[d])
    BY <1>1 DEF Window, CallsInTime
  <2> QED
    BY <2>1 DEF InTime
<1> QED
  BY <1>2, <1>3, <1>4 DEF Window

\* The write that is published now is in every window that is open.
LEMMA BumpInTime ==
    ASSUME cluster, cluster' = cluster, IInv, Window, NEW w \in Writes, BumpRevision(w)
    PROVE  Window'
<1>1. /\ write'[w].rev = revision[Scope] + 1 /\ write'[w].at = now /\ write'[w].st = "bumped"
      /\ write[w].rev = 0
      /\ \A v \in Writes : v # w => write'[v] = write[v]
      /\ UNCHANGED <<now, observed, cache, call>>
  BY DEF IInv, Typed, WritesBehind, BumpRevision, WriteState
<1>2. /\ \A v \in Writes : write[v].rev <= revision[Scope]
      /\ \A n \in Nodes : observed[n][Scope].rev <= revision[Scope]
      /\ \A c \in Calls : call[c].rev <= revision[Scope] /\ w \notin call[c].must
  BY <1>1 DEF IInv, WritesBehind, ObservedBehind, CallsBehave, Behaved, Published
<1>3. ObservedInTime'
  <2> SUFFICES ASSUME NEW n \in Nodes, NEW v \in Writes, write'[v].rev > observed[n][Scope].rev
               PROVE  observed[n][Scope].until <= write'[v].at + MaxStale + 1
    BY <1>1 DEF ObservedInTime
  <2>1. CASE v = w
    BY <1>1, <2>1 DEF Window, NothingAhead
  <2>2. CASE v # w
    BY <1>1, <2>2 DEF Window, ObservedInTime
  <2> QED
    BY <2>1, <2>2
<1>4. StoredInTime'
  <2>1. ASSUME NEW v \in Writes, NEW c \in Calls, call[c].pc = "observe", write'[v].rev > call[c].rev
        PROVE  write'[v].at = now
    BY <1>1, <2>1 DEF Window, StoredInTime
  <2>2. ASSUME NEW u \in Writes, NEW v \in Writes, write'[v].st = "bumped", write'[u].rev > write'[v].rev
        PROVE  write'[u].at = now
    <3>1. CASE u = w
      BY <1>1, <3>1
    <3>2. CASE u # w /\ v = w
      BY <1>1, <1>2, <2>2, <3>2, WindowTypes
    <3>3. CASE u # w /\ v # w
      BY <1>1, <2>2, <3>3 DEF Window, StoredInTime
    <3> QED
      BY <3>1, <3>2, <3>3
  <2> QED
    BY <1>1, <2>1, <2>2 DEF StoredInTime
<1>5. NothingAhead'
  BY <1>1, WindowTypes DEF Window, NothingAhead
<1>6. CallsInTime'
  <2> SUFFICES ASSUME NEW c \in Calls PROVE InTime(call[c])'
    BY DEF CallsInTime
  <2>1. InTime(call[c]) /\ call[c].must \subseteq Writes
    BY WindowTypes DEF Window, CallsInTime, Published
  <2>2. \A v \in call[c].must : write'[v] = write[v]
    BY <1>1, <1>2, <2>1
  <2> QED
    BY <1>1, <2>1, <2>2 DEF InTime
<1> QED
  BY <1>3, <1>4, <1>5, <1>6 DEF Window

LEMMA MirrorInTime ==
    ASSUME IInv, Window, NEW w \in Writes, Mirror(w)
    PROVE  Window'
<1> USE ScopeIsScope
<1>1. /\ write[w].st = "bumped"
      /\ UNCHANGED <<now, call>>
      /\ \A v \in Writes : /\ write'[v].rev = write[v].rev /\ write'[v].at = write[v].at
                           /\ write'[v].st = "bumped" => write[v].st = "bumped"
  <2>1. write \in [Writes -> WriteState] /\ write[w] \in WriteState
    BY DEF IInv, Typed
  <2>2. write[w].st = "bumped" /\ UNCHANGED <<now, call>>
    BY DEF Mirror
  <2>3. \A v \in Writes : v # w => write'[v] = write[v]
    BY <2>1 DEF Mirror
  <2>4. write'[w].rev = write[w].rev /\ write'[w].at = write[w].at
    BY <2>1 DEF Mirror, WriteState
  <2> QED
    BY <2>2, <2>3, <2>4
<1>2. ASSUME NEW n \in Nodes
      PROVE  \/ observed'[n][Scope] = observed[n][Scope]
             \/ observed'[n][Scope] = [rev |-> write[w].rev, until |-> now + MaxStale + 1]
  BY DEF Mirror, Observe, IInv, Typed, CoordTypeOK
<1>3. ObservedInTime'
  <2> SUFFICES ASSUME NEW n \in Nodes, NEW v \in Writes, write[v].rev > observed'[n][Scope].rev
               PROVE  observed'[n][Scope].until <= write[v].at + MaxStale + 1
    BY <1>1 DEF ObservedInTime
  <2>1. CASE observed'[n][Scope] = observed[n][Scope]
    BY <2>1 DEF Window, ObservedInTime
  <2>2. CASE observed'[n][Scope] = [rev |-> write[w].rev, until |-> now + MaxStale + 1]
    BY <1>1, <2>2, WindowTypes DEF Window, StoredInTime
  <2> QED
    BY <1>2, <2>1, <2>2
<1>4. StoredInTime'
  BY <1>1 DEF Window, StoredInTime
<1>5. NothingAhead'
  <2>1. \A n \in Nodes : observed'[n][Scope].until <= now + MaxStale + 1
    BY <1>2, WindowTypes DEF Window, NothingAhead
  <2> QED
    BY <1>1, <2>1 DEF Window, NothingAhead
<1>6. CallsInTime'
  <2> SUFFICES ASSUME NEW c \in Calls PROVE InTime(call[c])'
    BY DEF CallsInTime
  <2>1. InTime(call[c]) /\ call[c].must \subseteq Writes
    BY WindowTypes DEF Window, CallsInTime, Published
  <2> QED
    BY <1>1, <2>1 DEF InTime
<1> QED
  BY <1>3, <1>4, <1>5, <1>6 DEF Window

LEMMA WriteStepInTime ==
    ASSUME cluster, cluster' = cluster, IInv, Window, NEW w \in Writes, WriteStep(w)
    PROVE  Window'
<1>1. ASSUME ~BumpRevision(w), ~Mirror(w)
      PROVE  /\ UNCHANGED <<now, observed, call>>
             /\ \A v \in Writes : /\ write'[v].rev = write[v].rev /\ write'[v].at = write[v].at
                                  /\ write'[v].st = "bumped" => write[v].st = "bumped"
  <2>1. write \in [Writes -> WriteState]
    BY DEF IInv, Typed
  <2>2. UNCHANGED <<now, observed, call>>
    BY <1>1 DEF WriteStep, Commit, BumpFails, ReplyLost, StoreLocal, DropOwn, RetryUpdate, coordVars
  <2>3. \A v \in Writes : v # w => write'[v] = write[v]
    BY <1>1, <2>1 DEF WriteStep, Commit, BumpFails, ReplyLost, StoreLocal, DropOwn, RetryUpdate
  <2>4. write'[w].rev = write[w].rev /\ write'[w].at = write[w].at /\ write'[w].st # "bumped"
    <3>0. write[w] \in WriteState
      BY <2>1
    <3>1. CASE \E n \in Nodes, t \in Tenants, op \in Ops : Commit(w, n, t, op)
      BY <2>1, <3>0, <3>1 DEF Commit, WriteState
    <3>2. CASE BumpFails(w) \/ ReplyLost(w)
      BY <2>1, <3>0, <3>2 DEF BumpFails, ReplyLost, WriteState
    <3>3. CASE DropOwn(w) \/ RetryUpdate(w)
      BY <2>1, <3>0, <3>3 DEF DropOwn, RetryUpdate, WriteState
    <3> QED
      BY <1>1, <3>1, <3>2, <3>3 DEF WriteStep, StoreLocal
  <2> QED
    BY <2>2, <2>3, <2>4
<1>2. CASE ~BumpRevision(w) /\ ~Mirror(w)
  BY <1>1, <1>2, WindowStays
<1> QED
  BY <1>2, BumpInTime, MirrorInTime

\* Redis returned a revision that misses nothing, or the window of the
\* observation has not ended.
LEMMA ReadInTime ==
    ASSUME cluster, cluster' = cluster, IInv, Window, NEW c \in Calls, NEW b \in CallState,
           b.node \in Nodes, b.must \subseteq Published(b.tenant), b.old \subseteq b.must,
           \A w \in b.old : write[w].at + MaxStale < now,
           ReadRevision(c, b)
    PROVE  Window'
<1>1. UNCHANGED <<now, revision, observed, write, cache>> /\ b.old \subseteq Writes
  BY DEF ReadRevision, ReadShared, ReadObserved, ReadLocal, CallState
<1>2. /\ ObservedInTime'
      /\ \A n \in Nodes : observed'[n][Scope].until <= now + MaxStale + 1
  BY <1>1 DEF Window, ObservedInTime, NothingAhead
<1>3. CASE ReadShared(c, b)
  <2> DEFINE d == [b EXCEPT !.pc = "observe", !.rev = revision[Scope]]
  <2>1. d \in CallState /\ Becomes(c, d) /\ d.old = b.old /\ d.must = b.must
        /\ d.pc = "observe" /\ d.rev = revision[Scope]
    BY <1>3, WindowTypes DEF ReadShared, CallState
  <2>2. \A w \in Writes : write[w].rev <= d.rev
    BY <2>1 DEF IInv, WritesBehind
  <2>3. InTime(d)
    BY <1>1, <2>1, <2>2 DEF InTime
  <2> HIDE DEF d
  <2> QED
    BY <1>1, <1>2, <2>1, <2>2, <2>3, WindowOfCall
<1>4. CASE ReadObserved(c, b)
  <2> DEFINE d == [b EXCEPT !.pc = AfterRevision(b), !.fell = TRUE,
                            !.rev = observed[b.node][Scope].rev]
  <2>1. d \in CallState /\ Becomes(c, d) /\ d.old = b.old /\ d.must = b.must
        /\ d.pc \in {"compare", "lookup"} /\ d.rev = observed[b.node][Scope].rev
    BY <1>4, WindowTypes DEF ReadObserved, CallState, AfterRevision
  <2>2. now < observed[b.node][Scope].until
    BY <1>4 DEF ReadObserved, WithinStaleWindow
  <2>3. \A w \in b.old : write[w].rev <= d.rev
    BY <1>1, <2>1, <2>2, WindowTypes DEF Window, ObservedInTime
  <2>4. InTime(d)
    BY <2>1, <2>3 DEF InTime
  <2> HIDE DEF d
  <2> QED
    BY <1>1, <1>2, <2>1, <2>4, WindowOfCall
<1> QED
  BY <1>3, <1>4 DEF ReadRevision, ReadLocal

LEMMA CallStepInTime ==
    ASSUME cluster, cluster' = cluster, IInv, Window, NEW c \in Calls, CallStep(c)
    PROVE  Window'
<1> USE ScopeIsScope
<1> DEFINE b == call[c]
<1>0. /\ b \in CallState /\ Behaved(b) /\ InTime(b)
      /\ b.must \subseteq Published(b.tenant) /\ b.old \subseteq Published(b.tenant)
      /\ b.old \subseteq Writes /\ b.rev \in Nat /\ now \in Nat
      /\ b.pc # "idle" => b.node \in Nodes
  BY WindowTypes DEF Window, CallsInTime, InTime, IInv, CallsBehave, Behaved, Published
\* Every step but a read of the revision, or storing one, only moves c.
<1>a. ASSUME NEW d \in CallState, Becomes(c, d), InTime(d), d.pc # "observe",
             UNCHANGED <<coordVars, write>>
      PROVE  Window'
  <2>1. /\ ObservedInTime' /\ UNCHANGED <<now, write>>
        /\ \A n \in Nodes : observed'[n][Scope].until <= now + MaxStale + 1
    BY <1>a DEF Window, ObservedInTime, NothingAhead, coordVars
  <2> QED
    BY <1>a, <2>1, WindowOfCall
\* Old writes are in a snapshot whose tag covers the revision of the call.
<1>b. ASSUME NEW e \in Entry, e.held, Sound(e, b.tenant), b.rev <= e.rev \/ b.rev = 0
      PROVE  b.old \subseteq e.data
  <2> SUFFICES ASSUME NEW w \in b.old PROVE w \in e.data
    OBVIOUS
  <2>1. w \in Writes /\ w \in Published(b.tenant) /\ write[w].rev <= b.rev
    BY <1>0 DEF InTime
  <2>2. write[w].rev \in Nat /\ write[w].rev > 0 /\ e.rev \in Nat
    BY <1>0, <2>1, WindowTypes DEF Published, Entry
  <2> QED
    BY <1>0, <1>b, <2>1, <2>2 DEF Sound
<1>c. b.pc # "idle" => Cached(c) \in Entry /\ Sound(Cached(c), b.tenant)
  BY <1>0 DEF Cached, IInv, Typed, CacheSound, CallState
<1>d. \A r : b.old \subseteq Snapshot(b.tenant, r).data
  <2>1. Published(b.tenant) \subseteq Rows(b.tenant)
    BY DEF Published, Rows, IInv, WritesBehind, Typed, WriteState
  <2> QED
    BY <1>0, <2>1 DEF Snapshot
<1>1. ASSUME NEW n \in Nodes, NEW t \in Tenants, NEW kind \in {"get", "sync"},
             Start(c, n, t, kind)
      PROVE  Window'
  <2> DEFINE d == [IdleCall EXCEPT !.kind = kind, !.node = n, !.tenant = t,
                                   !.must = IF kind = "get" THEN Published(t) ELSE {},
                                   !.old = IF kind = "get" THEN Old(t) ELSE {}]
  <2>1. Published(t) \in SUBSET Writes /\ Old(t) \subseteq Published(t)
    BY DEF Published, Old
  <2>2. d \in CallState
    BY <1>0, <2>1, IdleBehaves DEF IInv, IdleCall, CallState
  <2>3. /\ d.node = n /\ d.must \subseteq Published(d.tenant) /\ d.old \subseteq d.must
        /\ \A w \in d.old : write[w].at + MaxStale < now
    BY <2>1 DEF IdleCall, Old
  <2>4. ReadRevision(c, d)
    BY <1>1 DEF Start
  <2> HIDE DEF d
  <2> QED
    BY <2>2, <2>3, <2>4, ReadInTime
<1>2. CASE ObserveRevision(c)
  <2> DEFINE d == [b EXCEPT !.pc = AfterRevision(b)]
  <2>1. d \in CallState /\ InTime(d) /\ d.pc # "observe" /\ Becomes(c, d)
    BY <1>0, <1>2 DEF ObserveRevision, AfterRevision, CallState, InTime
  <2>2. UNCHANGED <<now, write>> /\ b.pc = "observe"
    BY <1>2 DEF ObserveRevision
  <2>3. ASSUME NEW n \in Nodes
        PROVE  \/ observed'[n][Scope] = observed[n][Scope]
               \/ observed'[n][Scope] = [rev |-> b.rev, until |-> now + MaxStale + 1]
    BY <1>2 DEF ObserveRevision, Observe, IInv, Typed, CoordTypeOK
  <2>4. \A n \in Nodes : observed'[n][Scope].until <= now + MaxStale + 1
    BY <2>3, <1>0 DEF Window, NothingAhead
  <2>5. ObservedInTime'
    <3> SUFFICES ASSUME NEW n \in Nodes, NEW v \in Writes, write[v].rev > observed'[n][Scope].rev
                 PROVE  observed'[n][Scope].until <= write[v].at + MaxStale + 1
      BY <2>2 DEF ObservedInTime
    <3>1. CASE observed'[n][Scope] = observed[n][Scope]
      BY <3>1 DEF Window, ObservedInTime
    <3>2. CASE observed'[n][Scope] = [rev |-> b.rev, until |-> now + MaxStale + 1]
      BY <2>2, <3>2, WindowTypes DEF Window, StoredInTime
    <3> QED
      BY <2>3, <3>1, <3>2
  <2> HIDE DEF d
  <2> QED
    BY <2>1, <2>2, <2>4, <2>5, WindowOfCall
<1>3. CASE Hit(c)
  <2> DEFINE d == [b EXCEPT !.pc = "done", !.entry = Cached(c)]
  <2>1. Becomes(c, d) /\ UNCHANGED <<coordVars, write>>
        /\ Cached(c) \in Entry /\ Cached(c).held /\ Sound(Cached(c), b.tenant)
        /\ (b.rev = 0 \/ Cached(c).rev = b.rev)
    BY <1>c, <1>3 DEF Hit, Usable, Matches
  <2>2. b.old \subseteq Cached(c).data
    BY <1>0, <1>b, <2>1
  <2>3. d \in CallState /\ InTime(d) /\ d.pc # "observe"
    BY <1>0, <2>1, <2>2 DEF CallState, InTime
  <2> HIDE DEF d
  <2> QED
    BY <1>a, <2>1, <2>3
<1>4. CASE Miss(c)
  <2> DEFINE d == [b EXCEPT !.kind = "get", !.pc = IF b.kind = "get" THEN "fill" ELSE "load"]
  <2>1. Becomes(c, d) /\ UNCHANGED <<coordVars, write>>
    BY <1>4 DEF Miss
  <2>2. d \in CallState /\ InTime(d) /\ d.pc # "observe"
    BY <1>0 DEF CallState, InTime
  <2> HIDE DEF d
  <2> QED
    BY <1>a, <2>1, <2>2
<1>5. CASE FoundFilled(c)
  <2> DEFINE d == [b EXCEPT !.pc = "recheck", !.entry = Cached(c)]
  <2>1. Becomes(c, d) /\ UNCHANGED <<coordVars, write>> /\ Cached(c) \in Entry
    BY <1>c, <1>5 DEF FoundFilled
  <2>2. d \in CallState /\ InTime(d) /\ d.pc # "observe"
    BY <1>0, <2>1 DEF CallState, InTime
  <2> HIDE DEF d
  <2> QED
    BY <1>a, <2>1, <2>2
<1>6. CASE LoadLocked(c) \/ Load(c)
  <2> DEFINE s == Snapshot(b.tenant, b.rev)
             d == [b EXCEPT !.pc = IF b.pc = "fill" THEN "insert" ELSE "set", !.entry = s]
  <2>1. Becomes(c, d) /\ UNCHANGED <<coordVars, write>>
    BY <1>6 DEF LoadLocked, Load
  <2>2. s \in Entry /\ b.old \subseteq s.data
    BY <1>0, <1>d DEF Snapshot, Entry, Rows
  <2> HIDE DEF s
  <2>3. d \in CallState /\ InTime(d) /\ d.pc # "observe"
    BY <1>0, <2>2 DEF CallState, InTime
  <2> HIDE DEF d
  <2> QED
    BY <1>a, <2>1, <2>3
<1>7. CASE Insert(c) \/ Differs(c)
  <2> DEFINE d == [b EXCEPT !.pc = IF b.pc = "insert" THEN "recheck" ELSE "load",
                            !.entry = IF b.pc = "insert" THEN b.entry ELSE NoEntry]
  <2>1. Becomes(c, d) /\ UNCHANGED <<coordVars, write>>
    BY <1>0, <1>7 DEF Insert, Differs, CallState
  <2>2. d \in CallState /\ InTime(d) /\ d.pc # "observe"
    BY <1>0 DEF CallState, InTime, NoEntry, Entry
  <2> HIDE DEF d
  <2> QED
    BY <1>a, <2>1, <2>2
<1>8. CASE Recheck(c)
  BY <1>0, <1>8, ReadInTime DEF Recheck, InTime
<1>9. CASE Same(c) \/ SetEntry(c)
  <2> DEFINE d == [b EXCEPT !.pc = "done"]
  <2>1. Becomes(c, d) /\ UNCHANGED <<coordVars, write>>
    BY <1>9 DEF Same, SetEntry
  <2>2. b.old \subseteq b.entry.data
    <3>1. CASE Same(c)
      <4>1. b.entry \in Entry /\ b.entry.held /\ b.entry.rev = b.rev /\ Sound(b.entry, b.tenant)
        BY <1>0, <3>1 DEF Same, Behaved, Holding, CallState
      <4> QED
        BY <1>0, <1>b, <4>1
    <3>2. CASE SetEntry(c)
      BY <1>0, <3>2 DEF SetEntry, InTime
    <3> QED
      BY <1>9, <3>1, <3>2
  <2>3. d \in CallState /\ InTime(d) /\ d.pc # "observe"
    BY <1>0, <2>2 DEF CallState, InTime
  <2> HIDE DEF d
  <2> QED
    BY <1>a, <2>1, <2>3
<1>10. CASE GiveUp(c) \/ Return(c)
  <2>1. Becomes(c, IdleCall) /\ UNCHANGED <<coordVars, write>> /\ IdleCall \in CallState
    BY <1>10, IdleBehaves DEF GiveUp, Return, IInv
  <2> QED
    BY <1>a, <2>1, IdleInTime
<1> QED
  BY <1>0, <1>1, <1>2, <1>3, <1>4, <1>5, <1>6, <1>7, <1>8, <1>9, <1>10
  DEF CallStep, Behaved

LEMMA WindowKept ==
    ASSUME cluster, cluster' = cluster, IInv, Window, [Next]_vars
    PROVE  Window'
<1>1. CASE \E w \in Writes : WriteStep(w)
  BY <1>1, WriteStepInTime
<1>2. CASE \E c \in Calls : CallStep(c)
  BY <1>2, CallStepInTime
<1>3. CASE UNCHANGED vars \/ \E n \in Nodes, t \in Tenants : ExpireEntry(n, t)
  <2>1. UNCHANGED <<now, observed, write, call>>
    BY <1>3 DEF vars, coordVars, ExpireEntry
  <2> QED
    BY <2>1, WindowStays
<1>4. CASE Tick
  <2>1. UNCHANGED <<observed, write, call>> /\ now' = now + 1 /\ NothingToStore
    BY <1>4 DEF Tick, Advance
  <2> QED
    BY <2>1, WindowStays
<1>5. ASSUME NEW n \in Nodes, Restart(n)
      PROVE  Window'
  <2>1. /\ UNCHANGED now
        /\ \A c \in Calls : call'[c] \in {call[c], IdleCall}
        /\ \A m \in Nodes : observed'[m] \in {observed[m], Unobserved}
    BY <1>5 DEF Restart, ForgetObserved, IInv, Typed, CoordTypeOK
  <2>2. ASSUME NEW w \in Writes
        PROVE  /\ write'[w].rev = write[w].rev /\ write'[w].at = write[w].at
               /\ write'[w].st = "bumped" => write[w].st = "bumped"
    BY <1>5 DEF Restart, IInv, Typed, WriteState
  <2> QED
    BY <2>1, <2>2, WindowStays
<1> QED
  BY <1>1, <1>2, <1>3, <1>4, <1>5 DEF Next

LEMMA WindowInit ==
    ASSUME Init
    PROVE  Window
<1> USE ScopeIsScope DEF Init, CoordInit, FirstRevision
<1>1. ObservedInTime /\ StoredInTime /\ NothingAhead
  BY DEF ObservedInTime, StoredInTime, NothingAhead, NoWrite, Unobserved, IdleCall
<1>2. CallsInTime
  BY IdleInTime DEF CallsInTime
<1> QED
  BY <1>1, <1>2 DEF Window

\* Also while Redis cannot be read, no read misses a write that was published
\* more than MaxStale before it began (cachecoord, isWithinStaleWindow), for
\* any number of nodes, tenants, writes and calls.
THEOREM BoundedStalenessThm == Spec => [](cluster => BoundedStaleness)
<1>1. Init => (cluster => IInv /\ Window)
  BY InitKeeps, WindowInit
<1>2. (cluster => IInv /\ Window) /\ [Next]_vars => (cluster => IInv /\ Window)'
  BY ModeStays, NextKeeps, WindowKept
<1>3. Window => BoundedStaleness
  BY DEF Window, CallsInTime, InTime, BoundedStaleness
<1> QED
  BY <1>1, <1>2, <1>3, PTL DEF Spec

=============================================================================
