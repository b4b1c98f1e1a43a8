--------------------------- MODULE AccessCacheProofs ---------------------------
(***************************************************************************)
(* Proofs about AccessCache in cluster and in single-node mode, for every  *)
(* number of nodes, tokens, changes and requests, with failing accesses to *)
(* Redis and restarts.                                                     *)
(***************************************************************************)
EXTENDS AccessCache, TLAPS

USE AccessAssumption, CoordAssumption

-----------------------------------------------------------------------------
(* Types. *)

Asking == {"idle", "ask", "refresh", "store", "clear"}

\* A call on its way has a node; past its first revision it has a token.
CallOK(b) ==
    /\ b \in CallState
    /\ b.pc # "idle" => b.node \in Nodes
    /\ b.pc \notin Asking \/ b.entry.held => b.token \in Tokens
    /\ b.pc \in {"insert", "recheck", "compare", "set"} => b.entry.held

ChangeOK(x) ==
    x \in ChangeState /\ (x.st \in {"committed", "cleared", "bumped"} => x.node \in Nodes)

TypeInv ==
    /\ Typed
    /\ \A c \in Calls : CallOK(call[c])
    /\ \A w \in Changes : ChangeOK(change[w])

LEMMA TypeInvImplies == TypeInv => TypeOK
BY DEF TypeInv, TypeOK, CallOK

LEMMA RunningNodes == Running \subseteq Nodes /\ Home \in Running \cup Nodes
BY DEF Running

LEMMA IdleOK == CallOK(IdleCall)
BY DEF CallOK, CallState, IdleCall, NoEntry, Entry, Asking

LEMMA CallIs ==
    ASSUME TypeInv, NEW c \in Calls
    PROVE  /\ call \in [Calls -> CallState] /\ call[c] \in CallState /\ CallOK(call[c])
           /\ call[c].rev \in Nat /\ call[c].had \in Nat /\ call[c].entry \in Entry
           /\ call[c].token \in Tokens \cup {NoToken}
           /\ call[c].fell \in BOOLEAN
BY DEF TypeInv, Typed, CallState

LEMMA TenantIsScope == \A k \in Tokens \cup {NoToken} : Tenant(k) \in Scopes
BY DEF Tenant

\* What a step of one call keeps typed.
LEMMA CallTyped ==
    ASSUME TypeInv, NEW c \in Calls, NEW b, CallOK(b), Becomes(c, b),
           UNCHANGED <<now, revision, cluster, tenancy, change>>,
           observed' \in [Nodes -> [Scopes -> Observation]],
           local' \in [Nodes -> Local],
           cache' \in [Nodes -> [Tokens -> Entry]],
           UNCHANGED faults \/ Fault
    PROVE  TypeInv'
<1>1. call' = [call EXCEPT ![c] = b] /\ b \in CallState
  BY DEF Becomes, CallOK
<1>2. call' \in [Calls -> CallState]
  BY <1>1 DEF TypeInv, Typed
<1>3. ASSUME NEW d \in Calls PROVE CallOK(call[d])'
  <2>1. CallOK(call'[d])
    <3>1. call'[d] = (IF d = c THEN b ELSE call[d])
      BY <1>1 DEF TypeInv, Typed
    <3> QED BY <3>1 DEF TypeInv
  <2> QED BY <2>1 DEF CallOK
<1>4. \A w \in Changes : ChangeOK(change[w])'
  BY DEF TypeInv, ChangeOK
<1>5. faults' \in 0..MaxFaults
  BY DEF TypeInv, Typed, Fault
<1> QED BY <1>2, <1>3, <1>4, <1>5 DEF TypeInv, Typed, CoordTypeOK

\* What a step of one change keeps typed.
LEMMA ChangeTyped ==
    ASSUME TypeInv, NEW w \in Changes, NEW x, ChangeOK(x), change' = [change EXCEPT ![w] = x],
           UNCHANGED <<now, cluster, tenancy, call>>,
           revision' \in [Scopes -> Nat],
           observed' \in [Nodes -> [Scopes -> Observation]],
           local' \in [Nodes -> Local],
           cache' \in [Nodes -> [Tokens -> Entry]],
           UNCHANGED faults \/ Fault
    PROVE  TypeInv'
<1>1. change' \in [Changes -> ChangeState]
  BY DEF TypeInv, Typed, ChangeOK
<1>2. ASSUME NEW v \in Changes PROVE ChangeOK(change[v])'
  <2>1. ChangeOK(change'[v])
    <3>1. change'[v] = (IF v = w THEN x ELSE change[v])
      BY DEF TypeInv, Typed
    <3> QED BY <3>1 DEF TypeInv
  <2> QED BY <2>1 DEF ChangeOK
<1>3. \A d \in Calls : CallOK(call[d])'
  BY DEF TypeInv, CallOK
<1>4. faults' \in 0..MaxFaults
  BY DEF TypeInv, Typed, Fault
<1> QED BY <1>1, <1>2, <1>3, <1>4 DEF TypeInv, Typed, CoordTypeOK

LEMMA NoEntryTyped == NoEntry \in Entry /\ ~NoEntry.held
BY DEF NoEntry, Entry

\* Steps on the cache, on the local revision and on the observed revisions.
LEMMA StoresTyped ==
    ASSUME TypeInv
    PROVE  /\ \A n \in Nodes : ClearCache(n) => cache' \in [Nodes -> [Tokens -> Entry]]
           /\ \A n \in Nodes : \A k : \A e \in Entry :
                 Put(n, k, e) => cache' \in [Nodes -> [Tokens -> Entry]]
           /\ \A n \in Nodes : \A r \in Nat : \A f \in BOOLEAN :
                 StoreRevision(n, r, f) => local' \in [Nodes -> Local]
           /\ \A n \in Nodes : local[n].rev \in Nat /\ local[n].fell \in BOOLEAN
           /\ \A n \in Nodes : \A s \in Scopes : \A r \in Nat :
                 Observe(n, s, r) => observed' \in [Nodes -> [Scopes -> Observation]]
           /\ \A n \in Nodes : \A s \in Scopes : observed[n][s].rev \in Nat
           /\ \A s \in Scopes : revision[s] \in Nat
<1>0. /\ cache \in [Nodes -> [Tokens -> Entry]] /\ local \in [Nodes -> Local]
      /\ observed \in [Nodes -> [Scopes -> Observation]] /\ now \in Nat
      /\ revision \in [Scopes -> Nat]
  BY DEF TypeInv, Typed, CoordTypeOK
<1>1. ASSUME NEW n \in Nodes, ClearCache(n) PROVE cache' \in [Nodes -> [Tokens -> Entry]]
  BY <1>0, <1>1, NoEntryTyped DEF ClearCache
<1>2. ASSUME NEW n \in Nodes, NEW k, NEW e \in Entry, Put(n, k, e)
      PROVE  cache' \in [Nodes -> [Tokens -> Entry]]
  BY <1>0, <1>2 DEF Put
<1>3. ASSUME NEW n \in Nodes, NEW r \in Nat, NEW f \in BOOLEAN, StoreRevision(n, r, f)
      PROVE  local' \in [Nodes -> Local]
  <2>1. [rev |-> r, until |-> now + Window + 1, fell |-> f] \in Local
    BY <1>0 DEF Local
  <2> QED BY <1>0, <1>3, <2>1 DEF StoreRevision
<1>4. ASSUME NEW n \in Nodes, NEW s \in Scopes, NEW r \in Nat, Observe(n, s, r)
      PROVE  observed' \in [Nodes -> [Scopes -> Observation]]
  <2>1. [rev |-> r, until |-> now + MaxStale + 1] \in Observation
    BY <1>0 DEF Observation
  <2> QED BY <1>0, <1>4, <2>1 DEF Observe
<1>5. \A n \in Nodes : local[n].rev \in Nat /\ local[n].fell \in BOOLEAN
  BY <1>0 DEF Local
<1>6. \A n \in Nodes : \A s \in Scopes : observed[n][s].rev \in Nat
  BY <1>0 DEF Observation
<1> QED BY <1>0, <1>1, <1>2, <1>3, <1>4, <1>5, <1>6

Places == {"idle", "ask", "refresh", "store", "clear", "lookup", "fill",
           "insert", "recheck", "compare", "load", "set", "done"}

\* Call b has moved to x: it is where pc says, with a revision and a snapshot.
Moved(b, x, pc, rev, fell, entry) ==
    /\ x \in CallState
    /\ x.pc = pc /\ x.rev = rev /\ x.fell = fell /\ x.entry = entry
    /\ x.node = b.node /\ x.token = b.token /\ x.must = b.must /\ x.old = b.old
    /\ x.had = b.had

LEMMA MovedTo ==
    ASSUME NEW b \in CallState, NEW pc \in Places
    PROVE  Moved(b, [b EXCEPT !.pc = pc], pc, b.rev, b.fell, b.entry)
BY DEF CallState, Moved, Places

LEMMA MovedRev ==
    ASSUME NEW b \in CallState, NEW pc \in Places, NEW r \in Nat
    PROVE  Moved(b, [b EXCEPT !.pc = pc, !.rev = r], pc, r, b.fell, b.entry)
BY DEF CallState, Moved, Places

LEMMA MovedEntry ==
    ASSUME NEW b \in CallState, NEW pc \in Places, NEW e \in Entry
    PROVE  Moved(b, [b EXCEPT !.pc = pc, !.entry = e], pc, b.rev, b.fell, e)
BY DEF CallState, Moved, Places

LEMMA MovedFell ==
    ASSUME NEW b \in CallState, NEW pc \in Places, NEW r \in Nat, NEW f \in BOOLEAN
    PROVE  /\ Moved(b, [b EXCEPT !.pc = pc, !.rev = r, !.fell = f], pc, r, f, b.entry)
           /\ Moved(b, [b EXCEPT !.pc = pc, !.fell = f, !.rev = r], pc, r, f, b.entry)
BY DEF CallState, Moved, Places

LEMMA MovedOK ==
    ASSUME NEW b, CallOK(b), NEW pc, NEW r, NEW f, NEW e, NEW x, Moved(b, x, pc, r, f, e),
           pc # "idle" => b.pc # "idle",
           pc \notin Asking \/ e.held => b.token \in Tokens,
           pc \in {"insert", "recheck", "compare", "set"} => e.held
    PROVE  CallOK(x)
BY DEF CallOK, Moved

LEMMA AfterRevisionIs ==
    ASSUME NEW b, CallOK(b)
    PROVE  /\ AfterRevision(b) \in {"clear", "compare", "lookup"}
           /\ AfterRevision(b) = "compare" => b.entry.held
           /\ AfterRevision(b) # "clear" => b.token \in Tokens
           /\ AfterRevision(b) = "lookup" => ~b.entry.held
           /\ AfterRevision(b) = "clear" => b.token = NoToken
BY DEF CallOK, CallState, AfterRevision

\* CurrentRevision of the call with locals b, which has just begun or rechecks.
LEMMA ConsultMoves ==
    ASSUME TypeInv, NEW c \in Calls, NEW b, CallOK(b), b.node \in Nodes, Consult(c, b)
    PROVE  \E x : /\ Becomes(c, x)
                  /\ \/ /\ LocalFresh(b.node)
                        /\ Moved(b, x, AfterRevision(b), local[b.node].rev,
                                 b.fell \/ local[b.node].fell, b.entry)
                     \/ ~LocalFresh(b.node) /\ Moved(b, x, "ask", b.rev, b.fell, b.entry)
<1>0. b \in CallState /\ local[b.node].rev \in Nat /\ (b.fell \/ local[b.node].fell) \in BOOLEAN
  BY StoresTyped DEF CallOK
<1>1. CASE LocalFresh(b.node)
  <2>1. PICK f \in BOOLEAN : f = (b.fell \/ local[b.node].fell)
    BY <1>0
  <2>2. Becomes(c, [b EXCEPT !.pc = AfterRevision(b), !.rev = local[b.node].rev, !.fell = f])
    BY <1>1, <2>1 DEF Consult
  <2>3. AfterRevision(b) \in Places
    BY AfterRevisionIs DEF Places
  <2>4. ASSUME NEW pc \in Places, NEW q \in Nat
        PROVE  Moved(b, [b EXCEPT !.pc = pc, !.rev = q, !.fell = f], pc, q, f, b.entry)
    BY <1>0, MovedFell
  <2>5. Moved(b, [b EXCEPT !.pc = AfterRevision(b), !.rev = local[b.node].rev, !.fell = f],
              AfterRevision(b), local[b.node].rev, f, b.entry)
    BY <1>0, <2>3, <2>4
  <2> QED BY <1>1, <2>1, <2>2, <2>5
<1>2. CASE ~LocalFresh(b.node)
  <2>1. Becomes(c, [b EXCEPT !.pc = "ask"])
    BY <1>2 DEF Consult
  <2>2. "ask" \in Places
    BY DEF Places
  <2>3. Moved(b, [b EXCEPT !.pc = "ask"], "ask", b.rev, b.fell, b.entry)
    BY <1>0, <2>2, MovedTo
  <2> QED BY <1>2, <2>1, <2>3
<1> QED BY <1>1, <1>2

-----------------------------------------------------------------------------
(***************************************************************************)
(* The inductive invariant.  The properties hold where one counter         *)
(* publishes all that a token depends on: on a single node, whose counter  *)
(* is that of the process, for any number of tenants, and in a cluster as  *)
(* long as there is no tenant but the platform.  With tenants a cluster    *)
(* breaks them (access_tenants.cfg).                                       *)
(***************************************************************************)

OneCounter == ~cluster \/ ~tenancy

Pub == {w \in Changes : change[w].rev > 0}

\* The revision that every tag is behind.
Top == IF cluster THEN revision[Platform] ELSE local[Home].rev

\* A snapshot has every change up to its tag; on a single node, whose revision
\* starts again with the process, one with the current tag has every change.
Sound(e) ==
    e.held => /\ e.rev <= Top
              /\ \A w \in Pub : change[w].rev <= e.rev => w \in e.data
              /\ ~cluster /\ e.rev = Top => Pub \subseteq e.data

\* Every snapshot with tag r, cached or in the hands of a call, has the changes S.
Covers(S, r) ==
    /\ \A n \in Nodes, k \in Tokens :
          cache[n][k].held /\ cache[n][k].rev = r => S \subseteq cache[n][k].data
    /\ \A c \in Calls :
          call[c].entry.held /\ call[c].entry.rev = r => S \subseteq call[c].entry.data

Covered == {"lookup", "fill", "insert", "recheck", "compare"}

\* b is the record of a call.  A revision read from Redis in this tick, or from
\* what was observed, is not behind what was published so long ago; from then on
\* every snapshot with that tag has what the call may not miss.
Behaved(b) ==
    /\ b.pc = "idle" => b = IdleCall
    /\ b.rev <= Top
    /\ ~cluster => ~b.fell /\ b.pc \notin {"refresh", "store"} /\ (b.pc # "idle" => b.node = Home)
    /\ b.must \subseteq Pub /\ b.old \subseteq Pub
    /\ cluster => /\ \A w \in b.must : change[w].at + Window < now
                  /\ \A w \in b.old : change[w].at + Window + MaxStale < now
    /\ b.pc = "refresh" => \A w \in Pub : change[w].at < now => change[w].rev <= b.rev
    /\ b.pc = "store" =>
         \A w \in Pub : /\ change[w].at + MaxStale < now => change[w].rev <= b.rev
                        /\ ~b.fell /\ change[w].at < now => change[w].rev <= b.rev
    /\ b.pc \in Covered \/ (b.pc = "ask" /\ b.entry.held) =>
         Covers(b.old, b.rev) /\ (b.fell \/ Covers(b.must, b.rev))
    /\ b.pc \in {"set", "done"} =>
         b.old \subseteq b.entry.data /\ (b.fell \/ b.must \subseteq b.entry.data)

ChangeBehaved(x) ==
    /\ x.st \in {"none", "committed", "cleared"} => x.rev = 0
    /\ x.at <= now
    /\ ~tenancy => x.tenant = Platform
    /\ cluster => x.rev <= revision[Platform]
    /\ x.st = "bumped" =>
         cluster /\ x.rev > 0 /\ \A v \in Pub : change[v].at < now => change[v].rev <= x.rev
    /\ ~cluster /\ x.st \in {"committed", "cleared"} => x.node = Home

\* A local revision with an open window is not behind what is older than the window.
LocalOK(l) ==
    IF cluster
    THEN /\ l.rev <= revision[Platform] /\ l.until <= now + Window + 1
         /\ \A w \in Pub :
               /\ change[w].at + MaxStale + Window + 1 < l.until => change[w].rev <= l.rev
               /\ ~l.fell /\ change[w].at + Window + 1 < l.until => change[w].rev <= l.rev
    ELSE ~l.fell

ObservedOK(o) ==
    cluster => /\ o.rev <= revision[Platform] /\ o.until <= now + MaxStale + 1
               /\ \A w \in Pub : change[w].at + MaxStale + 1 < o.until => change[w].rev <= o.rev

CacheOK ==
    \A n \in Nodes, k \in Tokens :
        Sound(cache[n][k]) /\ (~cluster /\ cache[n][k].held => n = Home)

CallsOK == \A c \in Calls : Sound(call[c].entry) /\ Behaved(call[c])

SInv ==
    /\ \A w \in Changes : ChangeBehaved(change[w])
    /\ \A n \in Nodes : LocalOK(local[n]) /\ ObservedOK(observed[n][Platform])
    /\ CacheOK /\ CallsOK

Inv == TypeInv /\ (OneCounter => SInv)

-----------------------------------------------------------------------------

\* A snapshot just loaded, and one that was there before.
Full(e) == e.rev <= Top /\ Pub \subseteq e.data

NewOK(e) ==
    \/ ~e.held
    \/ Full(e)
    \/ \E n \in Nodes, k \in Tokens : cache[n][k] = e
    \/ \E c \in Calls : call[c].entry = e

LEMMA NewSound == ASSUME SInv, NEW e, NewOK(e) PROVE Sound(e)
BY DEF SInv, CacheOK, CallsOK, NewOK, Sound, Full

LEMMA NewCovered ==
    ASSUME NEW S, NEW r, S \subseteq Pub, Covers(S, r), NEW e, NewOK(e), e.held, e.rev = r
    PROVE  S \subseteq e.data
BY DEF Covers, NewOK, Full

\* A step of one call that leaves changes, revisions and the top alone.
LEMMA CallKeeps ==
    ASSUME Inv, NEW c \in Calls, NEW x, CallOK(x), Becomes(c, x),
           UNCHANGED <<now, revision, cluster, tenancy, change>>,
           observed' \in [Nodes -> [Scopes -> Observation]],
           local' \in [Nodes -> Local],
           cache' \in [Nodes -> [Tokens -> Entry]],
           UNCHANGED faults \/ Fault,
           OneCounter =>
             /\ Top' = Top
             /\ \A n \in Nodes : LocalOK(local'[n]) /\ ObservedOK(observed'[n][Platform])
             /\ \A n \in Nodes, k \in Tokens :
                   NewOK(cache'[n][k]) /\ (~cluster /\ cache'[n][k].held => n = Home)
             /\ NewOK(x.entry) /\ Behaved(x)
    PROVE  Inv'
<1>1. TypeInv'
  BY CallTyped DEF Inv
<1>2. ASSUME OneCounter PROVE SInv'
  <2>0. SInv /\ Pub' = Pub /\ Top' = Top /\ change' = change /\ cluster' = cluster
        /\ now' = now /\ revision' = revision
    BY <1>2 DEF Inv, Pub
  <2>1. \A d \in Calls : call'[d] = (IF d = c THEN x ELSE call[d])
    BY CallIs DEF Inv, Becomes
  <2>2. \A w \in Changes : ChangeBehaved(change[w])'
    BY <2>0 DEF SInv, ChangeBehaved
  <2>3. \A n \in Nodes : LocalOK(local[n])' /\ ObservedOK(observed[n][Platform])'
    BY <1>2, <2>0 DEF LocalOK, ObservedOK
  <2>4. \A d \in Calls : NewOK(call'[d].entry) /\ Behaved(call'[d])
    BY <1>2, <2>0, <2>1 DEF SInv, CallsOK, NewOK
  <2>5. ASSUME NEW e, NewOK(e) PROVE Sound(e)'
    <3>1. Sound(e)
      BY <2>0, <2>5, NewSound
    <3> QED BY <2>0, <3>1 DEF Sound
  <2>6. CacheOK'
    <3> SUFFICES ASSUME NEW n \in Nodes, NEW k \in Tokens
                 PROVE  Sound(cache[n][k])' /\ (~cluster' /\ cache'[n][k].held => n = Home)
      BY DEF CacheOK
    <3>1. NewOK(cache'[n][k]) /\ (~cluster /\ cache'[n][k].held => n = Home)
      BY <1>2
    <3>2. Sound(cache[n][k])'
      BY <2>5, <3>1 DEF Sound
    <3> QED BY <2>0, <3>1, <3>2
  <2>7. ASSUME NEW S, NEW r, S \subseteq Pub, Covers(S, r) PROVE Covers(S, r)'
    <3>1. ASSUME NEW n \in Nodes, NEW k \in Tokens, cache'[n][k].held, cache'[n][k].rev = r
          PROVE  S \subseteq cache'[n][k].data
      <4>1. NewOK(cache'[n][k])
        BY <1>2
      <4> QED BY <2>7, <3>1, <4>1, NewCovered
    <3>2. ASSUME NEW d \in Calls, call'[d].entry.held, call'[d].entry.rev = r
          PROVE  S \subseteq call'[d].entry.data
      <4>1. NewOK(call'[d].entry)
        BY <2>4
      <4> QED BY <2>7, <3>2, <4>1, NewCovered
    <3> QED BY <3>1, <3>2 DEF Covers
  <2>8. ASSUME NEW b, Behaved(b) PROVE Behaved(b)'
    <3>1. b.must \subseteq Pub /\ b.old \subseteq Pub
      BY <2>8 DEF Behaved
    <3>2. /\ Covers(b.old, b.rev) => Covers(b.old, b.rev)'
          /\ Covers(b.must, b.rev) => Covers(b.must, b.rev)'
      BY <2>7, <3>1
    <3> QED BY <2>0, <2>8, <3>2 DEF Behaved
  <2>9. CallsOK'
    <3> SUFFICES ASSUME NEW d \in Calls PROVE Sound(call[d].entry)' /\ Behaved(call[d])'
      BY DEF CallsOK
    <3>1. Sound(call[d].entry)'
      BY <2>4, <2>5 DEF Sound
    <3>2. Behaved(call[d])'
      BY <2>4, <2>8 DEF Behaved, Covers
    <3> QED BY <3>1, <3>2
  <2> QED BY <2>2, <2>3, <2>6, <2>9 DEF SInv
<1> QED BY <1>1, <1>2 DEF Inv, OneCounter

\* A step of one call that leaves every revision alone.
LEMMA CallQuiet ==
    ASSUME Inv, NEW c \in Calls, NEW x, CallOK(x), Becomes(c, x),
           UNCHANGED <<coordVars, cluster, tenancy, local, change>>,
           cache' \in [Nodes -> [Tokens -> Entry]],
           UNCHANGED faults \/ Fault,
           OneCounter =>
             /\ \A n \in Nodes, k \in Tokens :
                   NewOK(cache'[n][k]) /\ (~cluster /\ cache'[n][k].held => n = Home)
             /\ NewOK(x.entry) /\ Behaved(x)
    PROVE  Inv'
<1>1. /\ observed' \in [Nodes -> [Scopes -> Observation]] /\ local' \in [Nodes -> Local]
      /\ UNCHANGED <<now, revision, cluster, tenancy, change>>
  BY DEF Inv, TypeInv, Typed, CoordTypeOK, coordVars
<1>2. OneCounter => /\ Top' = Top
                     /\ \A n \in Nodes : LocalOK(local'[n]) /\ ObservedOK(observed'[n][Platform])
  BY DEF Inv, SInv, Top, coordVars
<1> QED BY <1>1, <1>2, CallKeeps

\* The cache as it is, and with some entries gone.
LEMMA CacheNewOK ==
    ASSUME Inv, OneCounter
    PROVE  \A n \in Nodes, k \in Tokens :
              NewOK(cache[n][k]) /\ NewOK(NoEntry) /\ (~cluster /\ cache[n][k].held => n = Home)
BY NoEntryTyped DEF Inv, SInv, CacheOK, NewOK

LEMMA CallPure ==
    ASSUME Inv, NEW c \in Calls, NEW x, CallOK(x), Becomes(c, x),
           UNCHANGED <<coordVars, cluster, tenancy, local, change, cache>>,
           UNCHANGED faults \/ Fault,
           OneCounter => NewOK(x.entry) /\ Behaved(x)
    PROVE  Inv'
<1>1. cache' \in [Nodes -> [Tokens -> Entry]]
  BY DEF Inv, TypeInv, Typed
<1>2. OneCounter => \A n \in Nodes, k \in Tokens :
                        NewOK(cache'[n][k]) /\ (~cluster /\ cache'[n][k].held => n = Home)
  BY CacheNewOK
<1> QED BY <1>1, <1>2, CallQuiet

LEMMA IdleBehaved == ASSUME Inv, OneCounter PROVE Behaved(IdleCall) /\ NewOK(IdleCall.entry)
<1>1. Top \in Nat
  BY StoresTyped DEF Inv, Top
<1> QED BY <1>1 DEF IdleCall, NoEntry, Behaved, NewOK, Covered

LEMMA CallIdle ==
    ASSUME Inv, NEW c \in Calls, Becomes(c, IdleCall),
           UNCHANGED <<coordVars, cluster, tenancy, local, change, cache>>, UNCHANGED faults \/ Fault
    PROVE  Inv'
BY CallPure, IdleBehaved, IdleOK

\* A snapshot in hand, one in the cache, and one that is loaded.
LEMMA HandNewOK ==
    ASSUME Inv, NEW c \in Calls
    PROVE  NewOK(call[c].entry) /\ (OneCounter => Behaved(call[c]) /\ Sound(call[c].entry))
BY DEF Inv, SInv, CallsOK, NewOK

LEMMA SnapshotFull ==
    ASSUME Inv, NEW c \in Calls
    PROVE  /\ Snapshot(call[c]).held /\ Snapshot(call[c]).rev = call[c].rev
           /\ Snapshot(call[c]) \in Entry
           /\ OneCounter => Full(Snapshot(call[c])) /\ NewOK(Snapshot(call[c]))
<1>1. /\ Snapshot(call[c]).held /\ Snapshot(call[c]).rev = call[c].rev
      /\ Snapshot(call[c]).data = Grants
  BY DEF Snapshot
<1>2. Snapshot(call[c]) \in Entry
  BY CallIs DEF Inv, Snapshot, Entry, Grants
<1>3. ASSUME OneCounter PROVE Full(Snapshot(call[c]))
  <2>1. call[c].rev <= Top
    BY <1>3, HandNewOK DEF Behaved
  <2>2. ASSUME NEW w \in Pub PROVE w \in Grants
    <3>1. w \in Changes /\ change[w].rev > 0 /\ ChangeBehaved(change[w]) /\ ChangeOK(change[w])
      BY <1>3 DEF Pub, Inv, SInv, TypeInv
    <3>2. change[w].st # "none"
      BY <1>3, <3>1 DEF ChangeBehaved, ChangeOK, ChangeState
    <3> QED BY <3>1, <3>2 DEF Grants
  <2> QED BY <1>1, <2>1, <2>2 DEF Full
<1> QED BY <1>1, <1>2, <1>3 DEF NewOK

\* Every snapshot with a revision that is not behind some changes has them.
LEMMA RevisionCovers ==
    ASSUME Inv, OneCounter, NEW S, S \subseteq Pub, NEW r,
           IF cluster THEN \A w \in S : change[w].rev <= r ELSE r = Top
    PROVE  Covers(S, r)
<1>1. ASSUME NEW e, Sound(e), e.held, e.rev = r PROVE S \subseteq e.data
  BY <1>1 DEF Sound
<1>2. \A n \in Nodes, k \in Tokens : Sound(cache[n][k])
  BY DEF Inv, SInv, CacheOK
<1>3. \A c \in Calls : Sound(call[c].entry)
  BY DEF Inv, SInv, CallsOK
<1> QED BY <1>1, <1>2, <1>3 DEF Covers

LEMMA Numbers ==
    ASSUME Inv
    PROVE  /\ now \in Nat /\ Top \in Nat
           /\ \A s \in Scopes : revision[s] \in Nat
           /\ \A n \in Nodes : local[n].rev \in Nat /\ local[n].until \in Nat /\ local[n].fell \in BOOLEAN
           /\ \A n \in Nodes : \A s \in Scopes :
                 observed[n][s].rev \in Nat /\ observed[n][s].until \in Nat
           /\ \A w \in Changes : change[w].rev \in Nat /\ change[w].at \in Nat
<1>1. /\ now \in Nat /\ revision \in [Scopes -> Nat] /\ local \in [Nodes -> Local]
      /\ observed \in [Nodes -> [Scopes -> Observation]] /\ change \in [Changes -> ChangeState]
  BY DEF Inv, TypeInv, Typed, CoordTypeOK
<1>2. \A n \in Nodes : local[n].rev \in Nat /\ local[n].until \in Nat /\ local[n].fell \in BOOLEAN
  BY <1>1 DEF Local
<1>3. \A n \in Nodes : \A s \in Scopes : observed[n][s] \in Observation
  BY <1>1
<1>4. \A w \in Changes : change[w].rev \in Nat /\ change[w].at \in Nat
  BY <1>1 DEF ChangeState
<1> QED BY <1>1, <1>2, <1>3, <1>4 DEF Observation, Top

\* A local revision that a request may use has what is older than the window.
LEMMA LocalCovers ==
    ASSUME Inv, OneCounter, NEW n \in Running, LocalFresh(n)
    PROVE  /\ \A S \in SUBSET Pub :
                 (cluster => \A w \in S : change[w].at + Window + MaxStale < now)
                   => Covers(S, local[n].rev)
           /\ \A S \in SUBSET Pub :
                 (cluster => \A w \in S : change[w].at + Window < now)
                   => local[n].fell \/ Covers(S, local[n].rev)
           /\ local[n].rev <= Top
<1>0. n \in Nodes /\ LocalOK(local[n])
  BY RunningNodes DEF Inv, SInv
<1>1. CASE cluster
  <2>1. now < local[n].until
    BY <1>1 DEF LocalFresh
  <2>2. \A w \in Pub : w \in Changes
    BY DEF Pub
  <2>3. ASSUME NEW S \in SUBSET Pub, \A w \in S : change[w].at + Window + MaxStale < now
        PROVE  Covers(S, local[n].rev)
    <3>1. ASSUME NEW w \in S PROVE change[w].rev <= local[n].rev
      <4>1. change[w].at + MaxStale + Window + 1 < local[n].until
        BY <1>0, <2>1, <2>2, <2>3, <3>1, Numbers
      <4> QED BY <1>0, <1>1, <4>1 DEF LocalOK
    <3> QED BY <1>1, <3>1, RevisionCovers
  <2>4. ASSUME NEW S \in SUBSET Pub, \A w \in S : change[w].at + Window < now, ~local[n].fell
        PROVE  Covers(S, local[n].rev)
    <3>1. ASSUME NEW w \in S PROVE change[w].rev <= local[n].rev
      <4>1. change[w].at + Window + 1 < local[n].until
        BY <1>0, <2>1, <2>2, <2>4, <3>1, Numbers
      <4> QED BY <1>0, <1>1, <2>4, <4>1 DEF LocalOK
    <3> QED BY <1>1, <3>1, RevisionCovers
  <2> QED BY <1>0, <1>1, <2>3, <2>4 DEF LocalOK, Top
<1>2. CASE ~cluster
  <2>1. n = Home /\ local[n].rev = Top /\ Top <= Top
    BY <1>2, Numbers DEF Running, Top
  <2>2. \A S \in SUBSET Pub : Covers(S, local[n].rev)
    BY <1>2, <2>1, RevisionCovers
  <2> QED BY <2>1, <2>2
<1> QED BY <1>1, <1>2

\* What a call must bring to read a revision.
Ready(b) ==
    /\ NewOK(b.entry) /\ b.rev <= Top
    /\ ~cluster => ~b.fell
    /\ b.must \subseteq Pub /\ b.old \subseteq Pub
    /\ cluster => /\ \A w \in b.must : change[w].at + Window < now
                  /\ \A w \in b.old : change[w].at + Window + MaxStale < now
    /\ b.entry.held => Covers(b.old, b.rev) /\ (b.fell \/ Covers(b.must, b.rev))

LEMMA ConsultKeeps ==
    ASSUME Inv, NEW c \in Calls, NEW b, CallOK(b), b.node \in Running, Consult(c, b),
           OneCounter => Ready(b)
    PROVE  Inv'
<1>0. b.node \in Nodes /\ (~cluster => b.node = Home) /\ b \in CallState
  BY RunningNodes DEF Running, CallOK
<1>1. PICK x : /\ Becomes(c, x)
               /\ \/ /\ LocalFresh(b.node)
                     /\ Moved(b, x, AfterRevision(b), local[b.node].rev,
                              b.fell \/ local[b.node].fell, b.entry)
                  \/ ~LocalFresh(b.node) /\ Moved(b, x, "ask", b.rev, b.fell, b.entry)
  BY <1>0, ConsultMoves DEF Inv
<1>2. UNCHANGED <<coordVars, cluster, tenancy, local, change, cache, faults>>
  BY DEF Consult
<1>3. CASE LocalFresh(b.node) /\ Moved(b, x, AfterRevision(b), local[b.node].rev,
                                       b.fell \/ local[b.node].fell, b.entry)
  <2>1. CallOK(x)
    <3>1. \/ AfterRevision(b) = "clear" /\ (b.entry.held => b.token \in Tokens)
          \/ AfterRevision(b) \in {"lookup", "compare"} /\ b.token \in Tokens
      BY AfterRevisionIs DEF CallOK
    <3> QED BY <1>0, <1>3, <3>1, AfterRevisionIs DEF CallOK, Moved, Asking
  <2>2. ASSUME OneCounter PROVE NewOK(x.entry) /\ Behaved(x)
    <3>0. Ready(b) /\ LocalOK(local[b.node])
      BY <1>0, <2>2 DEF Inv, SInv
    <3>1. /\ Covers(b.old, local[b.node].rev) /\ (local[b.node].fell \/ Covers(b.must, local[b.node].rev))
          /\ local[b.node].rev <= Top
      BY <1>3, <2>2, <3>0, LocalCovers DEF Ready
    <3>2. ~cluster => ~local[b.node].fell
      BY <3>0 DEF LocalOK
    <3>3. /\ x.pc \in {"clear", "compare", "lookup"} /\ x.rev = local[b.node].rev
          /\ x.fell = (b.fell \/ local[b.node].fell) /\ x.entry = b.entry /\ x.node = b.node
          /\ x.must = b.must /\ x.old = b.old
      BY <1>3, AfterRevisionIs DEF Moved
    <3> QED BY <1>0, <3>0, <3>1, <3>2, <3>3 DEF Ready, Behaved, Covered
  <2> QED BY <1>1, <1>2, <2>1, <2>2, CallPure
<1>4. CASE Moved(b, x, "ask", b.rev, b.fell, b.entry)
  <2>1. CallOK(x)
    BY <1>0, <1>4 DEF CallOK, Moved, Asking
  <2>2. ASSUME OneCounter PROVE NewOK(x.entry) /\ Behaved(x)
    <3>0. Ready(b)
      BY <2>2
    <3> QED BY <1>0, <1>4, <3>0 DEF Ready, Behaved, Covered, Moved
  <2> QED BY <1>1, <1>2, <2>1, <2>2, CallPure
<1> QED BY <1>1, <1>3, <1>4

LEMMA RequestKeeps ==
    ASSUME Inv, NEW c \in Calls, NEW n \in Nodes, NEW k \in Tokens, Request(c, n, k) PROVE Inv'
<1> DEFINE must == IF cluster THEN PublishedBefore(Tenant(k), Window) ELSE Published(Tenant(k))
           old == IF cluster THEN PublishedBefore(Tenant(k), Window + MaxStale)
                             ELSE Published(Tenant(k))
           b == [IdleCall EXCEPT !.node = n, !.token = k, !.must = must, !.old = old]
<1>1. Consult(c, b) /\ n \in Running
  BY DEF Request
<1>2. /\ b.pc = "idle" /\ b.node = n /\ b.token = k /\ b.must = must /\ b.old = old
      /\ b.rev = 0 /\ ~b.fell /\ b.entry = NoEntry
  BY DEF IdleCall
<1>3. must \subseteq Pub /\ old \subseteq Pub /\ must \in SUBSET Changes /\ old \in SUBSET Changes
  BY DEF Published, PublishedBefore, Pub
<1>4. CallOK(b)
  <2> HIDE DEF must, old
  <2> QED BY <1>3 DEF CallOK, CallState, IdleCall, NoEntry, Entry, Asking
<1>5. cluster => /\ \A w \in must : change[w].at + Window < now
                 /\ \A w \in old : change[w].at + Window + MaxStale < now
  <2>1. \A w \in old : w \in Changes
    BY <1>3
  <2>2. cluster => \A w \in old : change[w].at + (Window + MaxStale) < now
    BY DEF PublishedBefore
  <2>3. cluster => \A w \in must : change[w].at + Window < now
    BY DEF PublishedBefore
  <2> HIDE DEF old, must
  <2> QED BY <2>1, <2>2, <2>3, Numbers
<1>6. OneCounter => NewOK(NoEntry) /\ 0 <= Top
  BY NoEntryTyped, Numbers DEF NewOK
<1> HIDE DEF must, old, b
<1>7. OneCounter => Ready(b)
  BY <1>2, <1>3, <1>5, <1>6, NoEntryTyped DEF Ready
<1> QED BY <1>1, <1>2, <1>4, <1>7, ConsultKeeps

LEMMA RecheckKeeps == ASSUME Inv, NEW c \in Calls, Recheck(c) PROVE Inv'
<1>1. /\ CallOK(call[c]) /\ call[c].pc = "recheck" /\ Consult(c, call[c]) /\ call[c].node \in Nodes
  BY CallIs DEF Inv, Recheck, CallOK
<1>2. CASE ~OneCounter
  <2>1. PICK x : /\ Becomes(c, x)
                 /\ \/ /\ LocalFresh(call[c].node)
                       /\ Moved(call[c], x, AfterRevision(call[c]), local[call[c].node].rev,
                                call[c].fell \/ local[call[c].node].fell, call[c].entry)
                    \/ ~LocalFresh(call[c].node)
                       /\ Moved(call[c], x, "ask", call[c].rev, call[c].fell, call[c].entry)
    BY <1>1, ConsultMoves DEF Inv
  <2>2. CallOK(x)
    BY <1>1, <2>1, AfterRevisionIs DEF CallOK, Moved, Asking
  <2> QED BY <1>1, <1>2, <2>1, <2>2, CallPure DEF Consult
<1>3. CASE OneCounter
  <2>1. Behaved(call[c]) /\ NewOK(call[c].entry)
    BY <1>3, HandNewOK
  <2>2. Ready(call[c])
    BY <1>1, <2>1 DEF Behaved, Ready, Covered
  <2>3. call[c].node \in Running
    BY <1>1, <2>1 DEF Behaved, Running
  <2> QED BY <1>1, <2>2, <2>3, ConsultKeeps
<1> QED BY <1>2, <1>3

\* Redis, or what was observed of it, is asked.
LEMMA AskKeeps ==
    ASSUME Inv, NEW c \in Calls,
           (\E n \in Nodes : Sync(c, n)) \/ AskShared(c) \/ AskObserved(c)
    PROVE  Inv'
<1>0. /\ UNCHANGED <<coordVars, cluster, tenancy, local, change, cache>> /\ (UNCHANGED faults \/ Fault)
      /\ cluster
  BY DEF Sync, AskShared, AskObserved
<1>1. ASSUME NEW n \in Nodes, Sync(c, n) PROVE Inv'
  <2> DEFINE x == [IdleCall EXCEPT !.pc = "ask", !.node = n, !.had = local[n].rev]
  <2>1. /\ x.pc = "ask" /\ x.node = n /\ x.rev = 0 /\ x.entry = NoEntry /\ ~x.fell
        /\ x.must = {} /\ x.old = {}
    BY DEF IdleCall
  <2>2. CallOK(x)
    BY Numbers DEF CallOK, CallState, IdleCall, NoEntry, Entry, Asking
  <2>3. Becomes(c, x)
    BY <1>1 DEF Sync
  <2> HIDE DEF x
  <2>4. OneCounter => NewOK(x.entry) /\ Behaved(x)
    BY <1>0, <2>1, NoEntryTyped, Numbers DEF Behaved, NewOK, Covered
  <2> QED BY <1>0, <2>2, <2>3, <2>4, CallPure
<1>2. ASSUME NEW pc \in {"refresh", "store"}, NEW r \in Nat, NEW f \in BOOLEAN,
             call[c].pc = "ask", NEW x, Moved(call[c], x, pc, r, f, call[c].entry), Becomes(c, x),
             OneCounter =>
               /\ r <= revision[Platform]
               /\ pc = "refresh" => \A w \in Pub : change[w].rev <= r
               /\ pc = "store" => /\ f
                                  /\ \A w \in Pub : change[w].at + MaxStale < now => change[w].rev <= r
      PROVE  Inv'
  <2>1. CallOK(x)
    BY <1>2, CallIs DEF Inv, CallOK, Moved, Asking
  <2>2. ASSUME OneCounter PROVE NewOK(x.entry) /\ Behaved(x)
    <3>1. NewOK(call[c].entry) /\ Behaved(call[c])
      BY <2>2, HandNewOK
    <3> QED BY <1>0, <1>2, <2>2, <3>1 DEF Behaved, Moved, Covered, Top
  <2> QED BY <1>0, <1>2, <2>1, <2>2, CallPure
<1>3. CASE AskShared(c)
  <2> DEFINE r == revision[Tenant(call[c].token)]
             x == [call[c] EXCEPT !.pc = "refresh", !.rev = r]
  <2>1. r \in Nat /\ Becomes(c, x) /\ call[c].pc = "ask" /\ call[c].fell \in BOOLEAN
    BY <1>3, CallIs, TenantIsScope, Numbers DEF Inv, AskShared
  <2>2. Moved(call[c], x, "refresh", r, call[c].fell, call[c].entry)
    BY <2>1, CallIs, MovedRev DEF Inv, Places
  <2>3. OneCounter => r <= revision[Platform] /\ \A w \in Pub : change[w].rev <= r
    <3>1. OneCounter => r = revision[Platform]
      BY <1>0 DEF Tenant, OneCounter
    <3>2. OneCounter => \A w \in Pub : ChangeBehaved(change[w])
      BY DEF Inv, SInv, Pub
    <3> QED BY <1>0, <2>1, <3>1, <3>2 DEF ChangeBehaved
  <2> HIDE DEF r, x
  <2> QED BY <1>2, <2>1, <2>2, <2>3
<1>4. CASE AskObserved(c)
  <2> DEFINE t == Tenant(call[c].token)
             o == observed[call[c].node][t]
             x == [call[c] EXCEPT !.pc = "store", !.fell = TRUE, !.rev = o.rev]
  <2>1. /\ t \in Scopes /\ call[c].node \in Nodes /\ call[c].pc = "ask" /\ Becomes(c, x)
        /\ now < o.until
    BY <1>4, CallIs, TenantIsScope DEF Inv, AskObserved, CallOK, WithinStaleWindow
  <2>2. o.rev \in Nat /\ o.until \in Nat
    BY <2>1, Numbers
  <2>3. Moved(call[c], x, "store", o.rev, TRUE, call[c].entry)
    <3> HIDE DEF o
    <3> QED BY <2>2, CallIs, MovedFell DEF Inv, Places
  <2>4. OneCounter =>
          /\ o.rev <= revision[Platform]
          /\ \A w \in Pub : change[w].at + MaxStale < now => change[w].rev <= o.rev
    <3>1. OneCounter => ObservedOK(o)
      BY <1>0, <2>1 DEF Inv, SInv, OneCounter, Tenant
    <3> HIDE DEF o
    <3> QED BY <1>0, <2>1, <2>2, <3>1, Numbers DEF ObservedOK, Pub
  <2> HIDE DEF o, x
  <2> QED BY <1>2, <2>1, <2>2, <2>3, <2>4
<1> QED BY <1>1, <1>3, <1>4

\* The snapshots as they are.
LEMMA CacheStays ==
    ASSUME Inv, cache' = cache
    PROVE  /\ cache' \in [Nodes -> [Tokens -> Entry]]
           /\ OneCounter => \A n \in Nodes, k \in Tokens :
                 NewOK(cache'[n][k]) /\ (~cluster /\ cache'[n][k].held => n = Home)
BY CacheNewOK DEF Inv, TypeInv, Typed

\* A local revision stored in this tick.
LEMMA LocalStored ==
    ASSUME Inv, OneCounter, cluster, NEW n \in Nodes, NEW r \in Nat, NEW f \in BOOLEAN,
           StoreRevision(n, r, f), r <= revision[Platform],
           \A w \in Pub : /\ change[w].at + MaxStale < now => change[w].rev <= r
                          /\ ~f /\ change[w].at < now => change[w].rev <= r
    PROVE  \A m \in Nodes : LocalOK(local'[m])
<1>1. ASSUME NEW m \in Nodes PROVE LocalOK(local'[m])
  <2>1. CASE m # n
    BY <2>1 DEF Inv, TypeInv, Typed, SInv, StoreRevision
  <2>2. CASE m = n
    <3>1. local'[m].rev = r /\ local'[m].until = now + Window + 1 /\ local'[m].fell = f
      BY <2>2 DEF Inv, TypeInv, Typed, StoreRevision
    <3>2. \A w \in Pub : w \in Changes
      BY DEF Pub
    <3> QED BY <3>1, <3>2, Numbers DEF LocalOK
  <2> QED BY <2>1, <2>2
<1> QED BY <1>1

\* What is observed in this tick.
LEMMA ObservedStored ==
    ASSUME Inv, OneCounter, NEW n \in Nodes, NEW s \in Scopes, NEW r \in Nat, Observe(n, s, r),
           cluster => s = Platform /\ r <= revision[Platform],
           \A w \in Pub : change[w].at < now => change[w].rev <= r
    PROVE  \A m \in Nodes : ObservedOK(observed'[m][Platform])
<1>1. ASSUME NEW m \in Nodes, cluster PROVE ObservedOK(observed'[m][Platform])
  <2>1. s = Platform /\ observed \in [Nodes -> [Scopes -> Observation]]
    BY <1>1 DEF Inv, TypeInv, Typed, CoordTypeOK
  <2>2. CASE m # n
    <3>1. observed'[m][Platform] = observed[m][Platform]
      BY <2>1, <2>2 DEF Observe
    <3> QED BY <3>1 DEF Inv, SInv
  <2>3. CASE m = n
    <3>1. observed'[m][Platform] = [rev |-> r, until |-> now + MaxStale + 1]
      BY <2>1, <2>3 DEF Observe
    <3>2. \A w \in Pub : w \in Changes
      BY DEF Pub
    <3> QED BY <3>1, <3>2, Numbers DEF ObservedOK
  <2> QED BY <2>2, <2>3
<1> QED BY <1>1 DEF ObservedOK

\* EnsureFresh stores what Redis returned.
LEMMA RefreshKeeps == ASSUME Inv, NEW c \in Calls, Refresh(c) PROVE Inv'
<1> DEFINE n == call[c].node
           t == Tenant(call[c].token)
           r == call[c].rev
           x == [call[c] EXCEPT !.pc = "store"]
<1>0. /\ CallOK(call[c]) /\ call[c] \in CallState /\ n \in Nodes /\ t \in Scopes /\ r \in Nat
      /\ call[c].pc = "refresh" /\ Becomes(c, x) /\ Observe(n, t, r)
      /\ StoreRevision(n, r, FALSE) \/ local' = local
      /\ UNCHANGED <<now, revision, cluster, tenancy, change, cache, faults>>
  BY CallIs, TenantIsScope DEF Inv, Refresh, CallOK
<1>1. Moved(call[c], x, "store", r, call[c].fell, call[c].entry)
  BY <1>0, MovedTo DEF Places
<1> HIDE DEF n, t, x
<1>2. CallOK(x)
  BY <1>0, <1>1 DEF CallOK, Moved, Asking
<1>3. local' \in [Nodes -> Local] /\ observed' \in [Nodes -> [Scopes -> Observation]]
  <2>1. CASE local' = local
    BY <1>0, <2>1, StoresTyped DEF Inv, TypeInv, Typed
  <2>2. CASE StoreRevision(n, r, FALSE)
    BY <1>0, <2>2, StoresTyped DEF Inv
  <2> QED BY <1>0, <2>1, <2>2, StoresTyped DEF Inv
<1>4. ASSUME OneCounter
      PROVE  /\ Top' = Top
             /\ \A m \in Nodes : LocalOK(local'[m]) /\ ObservedOK(observed'[m][Platform])
             /\ NewOK(x.entry) /\ Behaved(x)
  <2>0. /\ Behaved(call[c]) /\ NewOK(call[c].entry) /\ cluster
        /\ r <= revision[Platform] /\ \A w \in Pub : change[w].at < now => change[w].rev <= r
    BY <1>0, <1>4, HandNewOK DEF Behaved, Top
  <2>1. Top' = Top
    BY <1>0, <2>0 DEF Top
  <2>2. \A w \in Pub : change[w].at + MaxStale < now => change[w].at < now
    <3>1. \A w \in Pub : w \in Changes
      BY DEF Pub
    <3> QED BY <3>1, Numbers
  <2>3. \A m \in Nodes : LocalOK(local'[m])
    <3>1. CASE local' = local
      BY <1>4, <3>1 DEF Inv, SInv
    <3>2. CASE StoreRevision(n, r, FALSE)
      BY <1>0, <1>4, <2>0, <2>2, <3>2, LocalStored
    <3> QED BY <1>0, <3>1, <3>2
  <2>4. \A m \in Nodes : ObservedOK(observed'[m][Platform])
    <3>1. t = Platform
      BY <1>4, <2>0 DEF OneCounter, Tenant, t
    <3> QED BY <1>0, <1>4, <2>0, <3>1, ObservedStored
  <2>5. Behaved(x)
    BY <1>1, <2>0, <2>2 DEF Behaved, Moved, Covered
  <2> QED BY <1>1, <2>0, <2>1, <2>3, <2>4, <2>5 DEF Moved
<1> QED BY <1>0, <1>2, <1>3, <1>4, CacheStays, CallKeeps

\* ensureFresh stores the revision once more, and goes on with it.
LEMMA StoreKeeps == ASSUME Inv, NEW c \in Calls, StoreLocal(c) PROVE Inv'
<1> DEFINE n == call[c].node
           r == call[c].rev
           f == call[c].fell
           x == [call[c] EXCEPT !.pc = AfterRevision(call[c])]
<1>0. /\ CallOK(call[c]) /\ call[c] \in CallState /\ n \in Nodes /\ r \in Nat /\ f \in BOOLEAN
      /\ call[c].pc = "store" /\ Becomes(c, x) /\ StoreRevision(n, r, f)
      /\ UNCHANGED <<now, revision, observed, cluster, tenancy, change, cache, faults>>
  BY CallIs DEF Inv, StoreLocal, CallOK, coordVars
<1>1. Moved(call[c], x, AfterRevision(call[c]), r, f, call[c].entry)
  <2>1. AfterRevision(call[c]) \in Places
    BY <1>0, AfterRevisionIs DEF Places
  <2> QED BY <1>0, <2>1, MovedTo
<1> HIDE DEF n, f, x
<1>2. CallOK(x)
  BY <1>0, <1>1, AfterRevisionIs DEF CallOK, Moved, Asking
<1>3. local' \in [Nodes -> Local] /\ observed' \in [Nodes -> [Scopes -> Observation]]
  BY <1>0, StoresTyped DEF Inv, TypeInv, Typed, CoordTypeOK
<1>4. ASSUME OneCounter
      PROVE  /\ Top' = Top
             /\ \A m \in Nodes : LocalOK(local'[m]) /\ ObservedOK(observed'[m][Platform])
             /\ NewOK(x.entry) /\ Behaved(x)
  <2>0. Behaved(call[c]) /\ NewOK(call[c].entry)
    BY <1>4, HandNewOK
  <2>1. /\ cluster /\ r <= revision[Platform] /\ call[c].must \subseteq Pub /\ call[c].old \subseteq Pub
        /\ \A w \in Pub : /\ change[w].at + MaxStale < now => change[w].rev <= r
                          /\ ~f /\ change[w].at < now => change[w].rev <= r
    BY <1>0, <2>0 DEF Behaved, Top, f
  <2>2. Top' = Top
    BY <1>0, <2>1 DEF Top
  <2>3. \A m \in Nodes : LocalOK(local'[m])
    BY <1>0, <1>4, <2>1, LocalStored
  <2>4. \A m \in Nodes : ObservedOK(observed'[m][Platform])
    BY <1>0, <1>4 DEF Inv, SInv
  <2>5. \A w \in Pub : w \in Changes
    BY DEF Pub
  <2>6. Covers(call[c].old, r)
    <3>1. \A w \in call[c].old : change[w].rev <= r
      <4> TAKE w \in call[c].old
      <4>1. change[w].at + MaxStale < now
        BY <2>0, <2>1, <2>5, Numbers DEF Behaved
      <4> QED BY <2>1, <4>1
    <3> QED BY <1>4, <2>1, <3>1, RevisionCovers
  <2>7. f \/ Covers(call[c].must, r)
    <3> SUFFICES ASSUME ~f PROVE Covers(call[c].must, r)
      OBVIOUS
    <3>1. \A w \in call[c].must : change[w].rev <= r
      <4> TAKE w \in call[c].must
      <4>1. change[w].at < now
        BY <2>0, <2>1, <2>5, Numbers DEF Behaved
      <4> QED BY <2>1, <4>1
    <3> QED BY <1>4, <2>1, <3>1, RevisionCovers
  <2>8. Behaved(x)
    <3>1. x.pc \in {"clear", "compare", "lookup"}
      BY <1>0, <1>1, AfterRevisionIs DEF Moved
    <3> QED BY <1>1, <2>0, <2>1, <2>6, <2>7, <3>1 DEF Behaved, Moved, Covered
  <2> QED BY <1>1, <2>0, <2>2, <2>3, <2>4, <2>8 DEF Moved
<1> QED BY <1>0, <1>2, <1>3, <1>4, CacheStays, CallKeeps

\* A single node raises its revision: no tag is that large yet.
LEMMA TopGrows ==
    ASSUME Inv, OneCounter, ~cluster, UNCHANGED <<now, revision, cluster, tenancy, cache>>, Top' = Top + 1,
           \A d \in Calls : call'[d].entry = call[d].entry,
           \A w \in Changes : \/ change'[w].rev = change[w].rev
                              \/ change[w].rev = 0 /\ change'[w].rev = Top + 1
    PROVE  /\ \A n \in Nodes, k \in Tokens : Sound(cache[n][k])'
           /\ \A d \in Calls : Sound(call[d].entry)'
           /\ \A S, r : r = Top + 1 => Covers(S, r)'
           /\ \A d \in Calls : call'[d] = call[d] => Behaved(call[d])'
<1>0. /\ Top \in Nat /\ Pub \subseteq Pub'
      /\ \A w \in Pub' : (w \in Pub /\ change'[w].rev = change[w].rev) \/ change'[w].rev = Top + 1
  BY Numbers DEF Pub
<1>1. /\ \A n \in Nodes, k \in Tokens : Sound(cache[n][k]) /\ cache[n][k].rev \in Nat
      /\ \A d \in Calls : Sound(call[d].entry) /\ call[d].entry.rev \in Nat
  BY CallIs DEF Inv, SInv, CacheOK, CallsOK, TypeInv, Typed, Entry
<1>2. ASSUME NEW e, Sound(e), e.rev \in Nat PROVE Sound(e)'
  BY <1>0, <1>2 DEF Sound
<1>3. \A n \in Nodes, k \in Tokens : Sound(cache[n][k])'
  <2> SUFFICES ASSUME NEW n \in Nodes, NEW k \in Tokens PROVE Sound(cache[n][k])'
    OBVIOUS
  <2>1. cache'[n][k] = cache[n][k] /\ Sound(cache[n][k])'
    BY <1>1, <1>2 DEF Sound
  <2> QED BY <2>1
<1>4. \A d \in Calls : Sound(call[d].entry)'
  <2> SUFFICES ASSUME NEW d \in Calls PROVE Sound(call[d].entry)'
    OBVIOUS
  <2> DEFINE e == call[d].entry
  <2>1. Sound(e) /\ e.rev \in Nat /\ call'[d].entry = e
    BY <1>1
  <2> QED BY <1>0, <2>1 DEF Sound
<1>5. \A S, r : r = Top + 1 => Covers(S, r)'
  <2> SUFFICES ASSUME NEW S, NEW r, r = Top + 1 PROVE Covers(S, r)'
    OBVIOUS
  <2>1. /\ \A n \in Nodes, k \in Tokens : cache[n][k].held => cache[n][k].rev # r
        /\ \A d \in Calls : call[d].entry.held => call[d].entry.rev # r
    BY <1>0, <1>1 DEF Sound
  <2> QED BY <2>1 DEF Covers
<1>6. ASSUME NEW S, NEW r, Covers(S, r) PROVE Covers(S, r)'
  BY <1>6 DEF Covers
<1>7. \A d \in Calls : call'[d] = call[d] => Behaved(call[d])'
  <2> SUFFICES ASSUME NEW d \in Calls, call'[d] = call[d] PROVE Behaved(call[d])'
    OBVIOUS
  <2> DEFINE b == call[d]
  <2>1. Behaved(b) /\ b.rev \in Nat
    BY CallIs DEF Inv, SInv, CallsOK
  <2>2. /\ Covers(b.old, b.rev) => Covers(b.old, b.rev)'
        /\ Covers(b.must, b.rev) => Covers(b.must, b.rev)'
    <3>1. b' = b
      OBVIOUS
    <3> QED BY <3>1 DEF Covers
  <2> QED BY <1>0, <2>1, <2>2 DEF Behaved
<1> QED BY <1>3, <1>4, <1>5, <1>7

LEMMA AskLocalKeeps == ASSUME Inv, NEW c \in Calls, AskLocal(c) PROVE Inv'
<1> DEFINE n == call[c].node
<1>0. /\ CallOK(call[c]) /\ call[c] \in CallState /\ n \in Nodes /\ call \in [Calls -> CallState]
      /\ call[c].pc = "ask" /\ ~cluster
  BY CallIs DEF Inv, AskLocal, CallOK
<1>1. /\ StoreRevision(n, local[n].rev + 1, FALSE) /\ local[n].rev + 1 \in Nat
      /\ UNCHANGED <<now, revision, observed, cluster, tenancy, change, cache, faults>>
  <2>1. UNCHANGED <<now, revision, observed, cluster, tenancy, change, cache, faults>>
    BY DEF AskLocal, coordVars
  <2>2. StoreRevision(n, local[n].rev + 1, FALSE)
    BY DEF AskLocal, BumpLocal
  <2>3. local[n].rev \in Nat
    BY <1>0, Numbers
  <2>4. local[n].rev + 1 \in Nat
    BY <2>3
  <2> QED BY <2>1, <2>2, <2>4
<1>2. PICK x : /\ Becomes(c, x)
               /\ Moved(call[c], x, AfterRevision(call[c]), local[n].rev + 1, call[c].fell, call[c].entry)
  <2> DEFINE y == [call[c] EXCEPT !.pc = AfterRevision(call[c]), !.rev = local[n].rev + 1]
  <2>1. Becomes(c, y)
    BY DEF AskLocal
  <2>2. AfterRevision(call[c]) \in Places
    BY <1>0, AfterRevisionIs DEF Places
  <2>3. Moved(call[c], y, AfterRevision(call[c]), local[n].rev + 1, call[c].fell, call[c].entry)
    BY <1>0, <1>1, <2>2, MovedRev
  <2> QED BY <2>1, <2>3
<1>3. CallOK(x) /\ x.pc \in {"clear", "compare", "lookup"}
  BY <1>0, <1>2, AfterRevisionIs DEF CallOK, Moved, Asking
<1>4. TypeInv'
  <2>1. local' \in [Nodes -> Local] /\ observed' \in [Nodes -> [Scopes -> Observation]]
        /\ cache' \in [Nodes -> [Tokens -> Entry]]
    BY <1>0, <1>1, StoresTyped DEF Inv, TypeInv, Typed, CoordTypeOK
  <2> QED BY <1>1, <1>2, <1>3, <2>1, CallTyped DEF Inv
<1>5. ASSUME OneCounter PROVE SInv'
  <2>0. /\ SInv /\ Behaved(call[c]) /\ n = Home
    BY <1>0, <1>5, HandNewOK DEF Inv, Behaved
  <2>1. Top' = Top + 1 /\ Top = local[n].rev
    BY <1>0, <1>1, <2>0 DEF Top, StoreRevision, Inv, TypeInv, Typed
  <2>2. call'[c] = x /\ \A d \in Calls : d # c => call'[d] = call[d]
    BY <1>0, <1>2 DEF Becomes
  <2>3. /\ \A m \in Nodes, k \in Tokens : Sound(cache[m][k])'
        /\ \A d \in Calls : Sound(call[d].entry)'
        /\ \A S, r : r = Top + 1 => Covers(S, r)'
        /\ \A d \in Calls : call'[d] = call[d] => Behaved(call[d])'
    <3>1. \A d \in Calls : call'[d].entry = call[d].entry
      BY <1>2, <2>2 DEF Moved
    <3> HIDE DEF n
    <3> QED BY <1>0, <1>1, <1>5, <2>1, <3>1, TopGrows
  <2>4. Behaved(x)'
    <3>1. /\ x.rev = Top + 1 /\ ~x.fell /\ x.node = Home
          /\ x.must = call[c].must /\ x.old = call[c].old
      BY <1>0, <1>2, <2>0, <2>1 DEF Moved, Behaved
    <3>2. x.must \subseteq Pub /\ x.old \subseteq Pub /\ Pub' = Pub /\ x.rev <= Top'
      BY <1>1, <2>0, <2>1, <3>1, Numbers DEF Behaved, Pub
    <3>3. Covers(x.must, x.rev)' /\ Covers(x.old, x.rev)'
      BY <2>3, <3>1
    <3> QED BY <1>0, <1>1, <1>3, <3>1, <3>2, <3>3 DEF Behaved, Covered
  <2>5. \A d \in Calls : Behaved(call[d])'
    <3> SUFFICES ASSUME NEW d \in Calls PROVE Behaved(call[d])'
      OBVIOUS
    <3>1. CASE d = c
      <4>1. call'[d] = x
        BY <2>2, <3>1
      <4> QED BY <2>4, <4>1 DEF Behaved, Covers
    <3>2. CASE d # c
      BY <2>2, <2>3, <3>2
    <3> QED BY <3>1, <3>2
  <2>6. \A m \in Nodes : LocalOK(local[m])' /\ ObservedOK(observed[m][Platform])'
    <3>1. \A m \in Nodes : ~local'[m].fell
      BY <1>0, <1>1, <2>0 DEF StoreRevision, Inv, TypeInv, Typed, SInv, LocalOK
    <3> QED BY <1>0, <1>1, <3>1 DEF LocalOK, ObservedOK
  <2>7. \A w \in Changes : ChangeBehaved(change[w])'
    <3>1. Pub' = Pub
      BY <1>1 DEF Pub
    <3> QED BY <1>0, <1>1, <2>0, <3>1 DEF SInv, ChangeBehaved
  <2>8. CacheOK'
    BY <1>0, <1>1, <2>0, <2>3 DEF SInv, CacheOK
  <2> QED BY <2>3, <2>5, <2>6, <2>7, <2>8 DEF SInv, CallsOK
<1> QED BY <1>1, <1>4, <1>5 DEF Inv, OneCounter

-----------------------------------------------------------------------------
(* Requests that leave the revisions alone. *)

\* A snapshot in the cache.
LEMMA CachedIs ==
    ASSUME Inv, NEW c \in Calls, call[c].pc \notin Asking
    PROVE  /\ call[c].node \in Nodes /\ call[c].token \in Tokens
           /\ Cached(c) \in Entry /\ NewOK(Cached(c))
<1>1. call[c].node \in Nodes /\ call[c].token \in Tokens
  BY CallIs DEF Inv, CallOK, Asking
<1> QED BY <1>1 DEF Inv, TypeInv, Typed, Cached, NewOK

\* A step that moves call c to pc with snapshot e.
LEMMA CallGoes ==
    ASSUME Inv, NEW c \in Calls, call[c].pc \notin Asking,
           NEW pc \in Places \ Asking, NEW e \in Entry,
           pc \in {"insert", "recheck", "compare", "set"} => e.held,
           Becomes(c, [call[c] EXCEPT !.pc = pc, !.entry = e]),
           UNCHANGED <<coordVars, cluster, tenancy, local, change>>,
           cache' \in [Nodes -> [Tokens -> Entry]],
           UNCHANGED faults \/ Fault,
           OneCounter =>
             /\ \A n \in Nodes, k \in Tokens :
                   NewOK(cache'[n][k]) /\ (~cluster /\ cache'[n][k].held => n = Home)
             /\ NewOK(e)
             /\ pc \in {"set", "done"} => /\ call[c].old \subseteq e.data
                                          /\ call[c].fell \/ call[c].must \subseteq e.data
             /\ pc \in Covered => call[c].pc \in Covered
    PROVE  Inv'
<1> DEFINE x == [call[c] EXCEPT !.pc = pc, !.entry = e]
<1>1. Moved(call[c], x, pc, call[c].rev, call[c].fell, e)
  BY CallIs, MovedEntry DEF Inv
<1>2. Becomes(c, x)
  OBVIOUS
<1> HIDE DEF x
<1>3. CallOK(x)
  BY <1>1, CallIs DEF Inv, CallOK, Moved, Asking
<1>4. ASSUME OneCounter PROVE NewOK(x.entry) /\ Behaved(x)
  <2>1. Behaved(call[c])
    BY <1>4, HandNewOK
  <2> QED BY <1>1, <1>4, <2>1 DEF Behaved, Moved, Covered, Asking
<1> QED BY <1>2, <1>3, <1>4, CallQuiet

\* The same record, with the snapshot it has.
LEMMA SameEntry ==
    ASSUME NEW b \in CallState, NEW pc
    PROVE  [b EXCEPT !.pc = pc] = [b EXCEPT !.pc = pc, !.entry = b.entry]
BY DEF CallState

LEMMA HitKeeps == ASSUME Inv, NEW c \in Calls, Hit(c) PROVE Inv'
<1>1. /\ call[c].pc = "lookup" /\ Matches(Cached(c), call[c].rev)
      /\ Becomes(c, [call[c] EXCEPT !.pc = "done", !.entry = Cached(c)])
      /\ UNCHANGED <<coordVars, cluster, tenancy, local, change, cache, faults>>
  BY DEF Hit
<1>2. /\ call[c].node \in Nodes /\ call[c].token \in Tokens
      /\ Cached(c) \in Entry /\ NewOK(Cached(c))
  BY <1>1, CachedIs DEF Asking
<1>3. ASSUME OneCounter
      PROVE  /\ call[c].old \subseteq Cached(c).data
             /\ call[c].fell \/ call[c].must \subseteq Cached(c).data
  <2>1. Behaved(call[c])
    BY <1>3, HandNewOK
  <2>2. Covers(call[c].old, call[c].rev) /\ (call[c].fell \/ Covers(call[c].must, call[c].rev))
    BY <1>1, <2>1 DEF Behaved, Covered
  <2> QED BY <1>1, <1>2, <2>2 DEF Covers, Matches, Cached
<1>4. "done" \in Places \ Asking /\ call[c].pc \notin Asking /\ "done" \notin Covered
  BY <1>1 DEF Places, Asking, Covered
<1> QED BY <1>1, <1>2, <1>3, <1>4, CacheStays, CallGoes

LEMMA FoundFilledKeeps == ASSUME Inv, NEW c \in Calls, FoundFilled(c) PROVE Inv'
<1>1. /\ call[c].pc = "fill" /\ Cached(c).held
      /\ Becomes(c, [call[c] EXCEPT !.pc = "recheck", !.entry = Cached(c)])
      /\ UNCHANGED <<coordVars, cluster, tenancy, local, change, cache, faults>>
  BY DEF FoundFilled
<1>2. call[c].pc \notin Asking /\ call[c].pc \in Covered /\ "recheck" \in Places \ Asking
  BY <1>1 DEF Places, Asking, Covered
<1> QED BY <1>1, <1>2, CachedIs, CacheStays, CallGoes

\* loadUserAccessContext, under the lock of the cache or after a second revision.
LEMMA LoadKeeps == ASSUME Inv, NEW c \in Calls, LoadLocked(c) \/ Load(c) PROVE Inv'
<1>1. UNCHANGED <<coordVars, cluster, tenancy, local, change, cache, faults>>
  BY DEF LoadLocked, Load
<1>2. /\ Snapshot(call[c]).held /\ Snapshot(call[c]) \in Entry
      /\ OneCounter => NewOK(Snapshot(call[c]))
  BY SnapshotFull
<1>3. CASE LoadLocked(c)
  <2>1. call[c].pc = "fill" /\ Becomes(c, [call[c] EXCEPT !.pc = "insert", !.entry = Snapshot(call[c])])
    BY <1>3 DEF LoadLocked
  <2>2. call[c].pc \notin Asking /\ call[c].pc \in Covered /\ "insert" \in Places \ Asking
    BY <2>1 DEF Places, Asking, Covered
  <2> QED BY <1>1, <1>2, <2>1, <2>2, CacheStays, CallGoes
<1>4. CASE Load(c)
  <2>1. call[c].pc = "load" /\ Becomes(c, [call[c] EXCEPT !.pc = "set", !.entry = Snapshot(call[c])])
    BY <1>4 DEF Load
  <2>2. call[c].pc \notin Asking /\ "set" \in Places \ Asking /\ "set" \notin Covered
    BY <2>1 DEF Places, Asking, Covered
  <2>3. OneCounter => /\ call[c].old \subseteq Snapshot(call[c]).data
                       /\ call[c].must \subseteq Snapshot(call[c]).data
    BY SnapshotFull, HandNewOK DEF Full, Behaved
  <2> QED BY <1>1, <1>2, <2>1, <2>2, <2>3, CacheStays, CallGoes
<1> QED BY <1>3, <1>4

\* Two equal revisions around the snapshot.
LEMMA SameKeeps == ASSUME Inv, NEW c \in Calls, Same(c) PROVE Inv'
<1> DEFINE e == call[c].entry
<1>1. /\ call[c].pc = "compare" /\ e.rev = call[c].rev /\ e \in Entry /\ e.held
      /\ Becomes(c, [call[c] EXCEPT !.pc = "done", !.entry = e])
      /\ UNCHANGED <<coordVars, cluster, tenancy, local, change, cache, faults>>
  BY CallIs, SameEntry DEF Inv, Same, CallOK
<1>2. call[c].pc \notin Asking /\ "done" \in Places \ Asking /\ "done" \notin Covered
  BY <1>1 DEF Places, Asking, Covered
<1>3. ASSUME OneCounter
      PROVE  call[c].old \subseteq e.data /\ (call[c].fell \/ call[c].must \subseteq e.data)
  <2>1. Behaved(call[c])
    BY <1>3, HandNewOK
  <2>2. Covers(call[c].old, call[c].rev) /\ (call[c].fell \/ Covers(call[c].must, call[c].rev))
    BY <1>1, <2>1 DEF Behaved, Covered
  <2> QED BY <1>1, <2>2 DEF Covers
<1> QED BY <1>1, <1>2, <1>3, HandNewOK, CacheStays, CallGoes

\* The revision cannot be read again, the request is refused, or it returns.
LEMMA RecheckFailsKeeps == ASSUME Inv, NEW c \in Calls, RecheckFails(c) PROVE Inv'
<1> DEFINE x == [call[c] EXCEPT !.pc = "compare"]
<1>1. /\ call[c].pc = "ask" /\ call[c].entry.held /\ Becomes(c, x) /\ Fault
      /\ UNCHANGED <<coordVars, cluster, tenancy, local, change, cache>>
  BY DEF RecheckFails
<1>2. Moved(call[c], x, "compare", call[c].rev, call[c].fell, call[c].entry)
  BY CallIs, MovedTo DEF Inv, Places
<1> HIDE DEF x
<1>3. CallOK(x)
  BY <1>1, <1>2, CallIs DEF Inv, CallOK, Moved, Asking
<1>4. ASSUME OneCounter PROVE NewOK(x.entry) /\ Behaved(x)
  <2>1. NewOK(call[c].entry) /\ Behaved(call[c])
    BY <1>4, HandNewOK
  <2> QED BY <1>1, <1>2, <2>1 DEF Behaved, Moved, Covered
<1> QED BY <1>1, <1>3, <1>4, CallPure

LEMMA EndKeeps == ASSUME Inv, NEW c \in Calls, Refuse(c) \/ Return(c) PROVE Inv'
BY CallIdle DEF Refuse, Return

\* Steps that write the cache.
LEMMA CacheWritten ==
    ASSUME Inv, NEW n \in Nodes, NEW k \in Tokens, NEW e \in Entry, Put(n, k, e),
           OneCounter => NewOK(e) /\ (~cluster /\ e.held => n = Home)
    PROVE  /\ cache' \in [Nodes -> [Tokens -> Entry]]
           /\ OneCounter => \A m \in Nodes, j \in Tokens :
                 NewOK(cache'[m][j]) /\ (~cluster /\ cache'[m][j].held => m = Home)
<1>1. /\ cache \in [Nodes -> [Tokens -> Entry]]
      /\ cache' = [cache EXCEPT ![n][k] = e]
  BY DEF Inv, TypeInv, Typed, Put
<1>2. \A m \in Nodes, j \in Tokens : cache'[m][j] = IF m = n /\ j = k THEN e ELSE cache[m][j]
  BY <1>1
<1> QED BY <1>1, <1>2, CacheNewOK

LEMMA CacheCleared ==
    ASSUME Inv, NEW n \in Nodes, ClearCache(n)
    PROVE  /\ cache' \in [Nodes -> [Tokens -> Entry]]
           /\ OneCounter => \A m \in Nodes, j \in Tokens :
                 NewOK(cache'[m][j]) /\ (~cluster /\ cache'[m][j].held => m = Home)
<1>1. /\ cache \in [Nodes -> [Tokens -> Entry]]
      /\ cache' \in [Nodes -> [Tokens -> Entry]]
  BY StoresTyped DEF Inv, TypeInv, Typed
<1>2. \A m \in Nodes, j \in Tokens : cache'[m][j] = cache[m][j] \/ cache'[m][j] = NoEntry
  BY <1>1 DEF ClearCache
<1> QED BY <1>1, <1>2, CacheNewOK, NoEntryTyped

\* A call's own snapshot goes to the cache of its node, or an entry is removed.
LEMMA CallWrites ==
    ASSUME Inv, NEW c \in Calls, call[c].pc \notin Asking, NEW e \in {call[c].entry, NoEntry},
           Put(call[c].node, call[c].token, e)
    PROVE  /\ cache' \in [Nodes -> [Tokens -> Entry]]
           /\ OneCounter => \A m \in Nodes, j \in Tokens :
                 NewOK(cache'[m][j]) /\ (~cluster /\ cache'[m][j].held => m = Home)
<1>1. call[c].node \in Nodes /\ call[c].token \in Tokens /\ call[c].pc # "idle"
  BY CachedIs DEF Asking
<1>2. e \in Entry
  BY CallIs, NoEntryTyped DEF Inv
<1>3. OneCounter => NewOK(e) /\ (~cluster => call[c].node = Home)
  BY <1>1, HandNewOK, CacheNewOK, NoEntryTyped DEF Behaved, NewOK
<1> QED BY <1>1, <1>2, <1>3, CacheWritten

LEMMA MissKeeps == ASSUME Inv, NEW c \in Calls, Miss(c) PROVE Inv'
<1> DEFINE e == call[c].entry
<1>1. /\ call[c].pc = "lookup" /\ e \in Entry /\ Put(call[c].node, call[c].token, NoEntry)
      /\ Becomes(c, [call[c] EXCEPT !.pc = "fill", !.entry = e])
      /\ UNCHANGED <<coordVars, cluster, tenancy, local, change, faults>>
  BY CallIs, SameEntry DEF Inv, Miss
<1>2. /\ call[c].pc \notin Asking /\ call[c].pc \in Covered /\ "fill" \in Places \ Asking
  BY <1>1 DEF Places, Asking, Covered
<1> QED BY <1>1, <1>2, HandNewOK, CallWrites, CallGoes

LEMMA InsertKeeps == ASSUME Inv, NEW c \in Calls, Insert(c) PROVE Inv'
<1> DEFINE e == call[c].entry
<1>1. /\ call[c].pc = "insert" /\ e \in Entry /\ e.held /\ Put(call[c].node, call[c].token, e)
      /\ Becomes(c, [call[c] EXCEPT !.pc = "recheck", !.entry = e])
      /\ UNCHANGED <<coordVars, cluster, tenancy, local, change, faults>>
  BY CallIs, SameEntry DEF Inv, Insert, CallOK
<1>2. /\ call[c].pc \notin Asking /\ call[c].pc \in Covered /\ "recheck" \in Places \ Asking
  BY <1>1 DEF Places, Asking, Covered
<1> QED BY <1>1, <1>2, HandNewOK, CallWrites, CallGoes

LEMMA DiffersKeeps == ASSUME Inv, NEW c \in Calls, Differs(c) PROVE Inv'
<1>1. /\ call[c].pc = "compare" /\ Put(call[c].node, call[c].token, NoEntry)
      /\ Becomes(c, [call[c] EXCEPT !.pc = "load", !.entry = NoEntry])
      /\ UNCHANGED <<coordVars, cluster, tenancy, local, change, faults>>
  BY DEF Differs
<1>2. /\ call[c].pc \notin Asking /\ "load" \in Places \ Asking /\ "load" \notin Covered
      /\ NoEntry \in Entry /\ NewOK(NoEntry)
  BY <1>1, NoEntryTyped DEF Places, Asking, Covered, NewOK
<1> QED BY <1>1, <1>2, CallWrites, CallGoes

LEMMA SetEntryKeeps == ASSUME Inv, NEW c \in Calls, SetEntry(c) PROVE Inv'
<1> DEFINE e == call[c].entry
<1>1. /\ call[c].pc = "set" /\ e \in Entry /\ Put(call[c].node, call[c].token, e)
      /\ Becomes(c, [call[c] EXCEPT !.pc = "done", !.entry = e])
      /\ UNCHANGED <<coordVars, cluster, tenancy, local, change, faults>>
  BY CallIs, SameEntry DEF Inv, SetEntry
<1>2. /\ call[c].pc \notin Asking /\ "done" \in Places \ Asking /\ "done" \notin Covered
  BY <1>1 DEF Places, Asking, Covered
<1>3. OneCounter => call[c].old \subseteq e.data /\ (call[c].fell \/ call[c].must \subseteq e.data)
  BY <1>1, HandNewOK DEF Behaved
<1> QED BY <1>1, <1>2, <1>3, HandNewOK, CallWrites, CallGoes

\* SyncRevision is over.
LEMMA ClearStaleKeeps == ASSUME Inv, NEW c \in Calls, ClearStale(c) PROVE Inv'
<1>1. /\ Becomes(c, IdleCall) /\ UNCHANGED <<coordVars, cluster, tenancy, local, change, faults>>
      /\ ClearCache(call[c].node) \/ cache' = cache
      /\ call[c].node \in Nodes
  BY CallIs DEF Inv, ClearStale, CallOK
<1> QED BY <1>1, CacheCleared, CacheStays, IdleOK, IdleBehaved, CallQuiet

LEMMA CallStepKeeps == ASSUME Inv, NEW c \in Calls, CallStep(c) PROVE Inv'
BY RequestKeeps, AskKeeps, AskLocalKeeps, RefreshKeeps, StoreKeeps, ClearStaleKeeps, HitKeeps,
   MissKeeps, FoundFilledKeeps, LoadKeeps, InsertKeeps, RecheckKeeps, RecheckFailsKeeps,
   SameKeeps, DiffersKeeps, SetEntryKeeps, EndKeeps DEF CallStep

-----------------------------------------------------------------------------
(* Writers and the environment. *)

\* Steps that publish nothing: no revision is raised, and calls stay or end.
LEMMA QuietKeeps ==
    ASSUME Inv, OneCounter, UNCHANGED <<now, revision, cluster, tenancy>>, Top' = Top,
           \A d \in Calls : call'[d] = call[d] \/ call'[d] = IdleCall,
           \A v \in Changes : /\ change'[v].rev = change[v].rev
                              /\ change[v].rev > 0 => change'[v].at = change[v].at
                              /\ ChangeBehaved(change'[v]),
           \A n \in Nodes : LocalOK(local'[n]) /\ ObservedOK(observed'[n][Platform]),
           \A n \in Nodes, k \in Tokens :
              NewOK(cache'[n][k]) /\ (~cluster /\ cache'[n][k].held => n = Home)
    PROVE  SInv'
<1>0. /\ SInv /\ Pub' = Pub
      /\ \A v \in Pub : change'[v].rev = change[v].rev /\ change'[v].at = change[v].at
  BY DEF Inv, Pub
<1>1. ASSUME NEW e, NewOK(e) PROVE Sound(e)'
  <2>1. Sound(e)
    BY <1>0, <1>1, NewSound
  <2> QED BY <1>0, <2>1 DEF Sound
<1>2. \A d \in Calls : NewOK(call'[d].entry) /\ Behaved(call'[d])
  BY <1>0, IdleBehaved DEF SInv, CallsOK, NewOK
<1>3. ASSUME NEW S, NEW r, S \subseteq Pub, Covers(S, r) PROVE Covers(S, r)'
  <2>1. ASSUME NEW n \in Nodes, NEW k \in Tokens, cache'[n][k].held, cache'[n][k].rev = r
        PROVE  S \subseteq cache'[n][k].data
    <3>1. NewOK(cache'[n][k])
      OBVIOUS
    <3> QED BY <1>3, <2>1, <3>1, NewCovered
  <2>2. ASSUME NEW d \in Calls, call'[d].entry.held, call'[d].entry.rev = r
        PROVE  S \subseteq call'[d].entry.data
    <3>1. NewOK(call'[d].entry)
      BY <1>2
    <3> QED BY <1>3, <2>2, <3>1, NewCovered
  <2> QED BY <2>1, <2>2 DEF Covers
<1>4. ASSUME NEW b, Behaved(b) PROVE Behaved(b)'
  <2>1. b.must \subseteq Pub /\ b.old \subseteq Pub
    BY <1>4 DEF Behaved
  <2>2. /\ Covers(b.old, b.rev) => Covers(b.old, b.rev)'
        /\ Covers(b.must, b.rev) => Covers(b.must, b.rev)'
    BY <1>3, <2>1
  <2> QED BY <1>0, <1>4, <2>1, <2>2 DEF Behaved
<1>5. CallsOK'
  <2> SUFFICES ASSUME NEW d \in Calls PROVE Sound(call[d].entry)' /\ Behaved(call[d])'
    BY DEF CallsOK
  <2>1. Sound(call[d].entry)'
    BY <1>1, <1>2 DEF Sound
  <2>2. Behaved(call[d])'
    BY <1>2, <1>4 DEF Behaved, Covers
  <2> QED BY <2>1, <2>2
<1>6. CacheOK'
  <2> SUFFICES ASSUME NEW n \in Nodes, NEW k \in Tokens
               PROVE  Sound(cache[n][k])' /\ (~cluster' /\ cache'[n][k].held => n = Home)
    BY DEF CacheOK
  <2>1. Sound(cache[n][k])'
    BY <1>1 DEF Sound
  <2> QED BY <2>1
<1>7. \A n \in Nodes : LocalOK(local[n])' /\ ObservedOK(observed[n][Platform])'
  BY <1>0 DEF LocalOK, ObservedOK
<1>8. \A v \in Changes : ChangeBehaved(change[v])'
  BY <1>0 DEF ChangeBehaved
<1> QED BY <1>5, <1>6, <1>7, <1>8 DEF SInv

\* A step of one change that publishes nothing.
LEMMA ChangeKeeps ==
    ASSUME Inv, NEW w \in Changes, NEW x, ChangeOK(x), change' = [change EXCEPT ![w] = x],
           UNCHANGED <<now, revision, cluster, tenancy, call>>,
           observed' \in [Nodes -> [Scopes -> Observation]],
           local' \in [Nodes -> Local],
           cache' \in [Nodes -> [Tokens -> Entry]],
           UNCHANGED faults \/ Fault,
           OneCounter =>
             /\ Top' = Top
             /\ x.rev = change[w].rev /\ (x.rev > 0 => x.at = change[w].at) /\ ChangeBehaved(x)
             /\ \A n \in Nodes : LocalOK(local'[n]) /\ ObservedOK(observed'[n][Platform])
             /\ \A n \in Nodes, k \in Tokens :
                   NewOK(cache'[n][k]) /\ (~cluster /\ cache'[n][k].held => n = Home)
    PROVE  Inv'
<1>1. TypeInv'
  <2>1. revision' \in [Scopes -> Nat]
    BY DEF Inv, TypeInv, Typed, CoordTypeOK
  <2> QED BY <2>1, ChangeTyped DEF Inv
<1>2. ASSUME OneCounter PROVE SInv'
  <2>1. \A v \in Changes : change'[v] = IF v = w THEN x ELSE change[v]
    BY DEF Inv, TypeInv, Typed
  <2>2. \A v \in Changes : /\ change'[v].rev = change[v].rev
                           /\ change[v].rev > 0 => change'[v].at = change[v].at
                           /\ ChangeBehaved(change'[v])
    BY <1>2, <2>1 DEF Inv, SInv
  <2> QED BY <1>2, <2>2, QuietKeeps
<1> QED BY <1>1, <1>2 DEF Inv, OneCounter

\* The revisions as they are.
LEMMA RevisionsStay ==
    ASSUME Inv, UNCHANGED <<revision, observed, local, cluster, tenancy>>
    PROVE  /\ observed' \in [Nodes -> [Scopes -> Observation]] /\ local' \in [Nodes -> Local]
           /\ Top' = Top
           /\ OneCounter =>
                \A n \in Nodes : LocalOK(local'[n]) /\ ObservedOK(observed'[n][Platform])
BY DEF Inv, TypeInv, Typed, CoordTypeOK, SInv, Top

LEMMA ChangeIs ==
    ASSUME Inv, NEW w \in Changes
    PROVE  /\ change[w] \in ChangeState /\ ChangeOK(change[w])
           /\ OneCounter => ChangeBehaved(change[w])
           /\ change[w].rev \in Nat /\ change[w].at \in Nat
BY DEF Inv, TypeInv, Typed, SInv, ChangeState

LEMMA CommitKeeps ==
    ASSUME Inv, NEW w \in Changes, NEW n \in Running, NEW t \in Tenants, Commit(w, n, t) PROVE Inv'
<1> DEFINE x == [NoChange EXCEPT !.st = "committed", !.node = n, !.tenant = t]
<1>1. /\ change[w].st = "none" /\ change' = [change EXCEPT ![w] = x]
      /\ UNCHANGED <<now, revision, observed, cluster, tenancy, local, cache, call, faults>>
  BY DEF Commit, coordVars
<1>2. n \in Nodes /\ (~cluster => n = Home) /\ t \in Scopes /\ (~tenancy => t = Platform)
  BY RunningNodes DEF Running, Tenants
<1>3. x.st = "committed" /\ x.node = n /\ x.tenant = t /\ x.rev = 0 /\ x.at = 0 /\ x \in ChangeState
  BY <1>2 DEF NoChange, ChangeState
<1> HIDE DEF x
<1>4. ChangeOK(x)
  BY <1>2, <1>3 DEF ChangeOK
<1>5. OneCounter => x.rev = change[w].rev /\ ~(x.rev > 0) /\ ChangeBehaved(x)
  BY <1>1, <1>2, <1>3, ChangeIs, Numbers DEF ChangeBehaved
<1> QED BY <1>1, <1>3, <1>4, <1>5, RevisionsStay, CacheStays, ChangeKeeps

LEMMA ClearOwnKeeps == ASSUME Inv, NEW w \in Changes, ClearOwn(w) PROVE Inv'
<1> DEFINE x == [change[w] EXCEPT !.st = "cleared"]
<1>1. /\ change[w].st = "committed" /\ change' = [change EXCEPT ![w] = x]
      /\ ClearCache(change[w].node)
      /\ UNCHANGED <<now, revision, observed, cluster, tenancy, local, call, faults>>
  BY DEF ClearOwn, coordVars
<1>2. /\ x.st = "cleared" /\ x.node = change[w].node /\ x.rev = change[w].rev /\ x.at = change[w].at
      /\ x.tenant = change[w].tenant /\ x \in ChangeState /\ change[w].node \in Nodes
  BY <1>1, ChangeIs DEF ChangeState, ChangeOK
<1> HIDE DEF x
<1>3. ChangeOK(x)
  BY <1>2 DEF ChangeOK
<1>4. OneCounter => ChangeBehaved(x)
  BY <1>1, <1>2, ChangeIs DEF ChangeBehaved
<1> QED BY <1>1, <1>2, <1>3, <1>4, RevisionsStay, CacheCleared, ChangeKeeps

\* The end of a change.
LEMMA DoneIs ==
    ASSUME Inv, NEW w \in Changes
    PROVE  \E x : /\ x = [change[w] EXCEPT !.st = "done", !.node = Nowhere]
                  /\ x.st = "done" /\ x.rev = change[w].rev /\ x.at = change[w].at /\ ChangeOK(x)
                  /\ OneCounter => ChangeBehaved(x)
<1> DEFINE x == [change[w] EXCEPT !.st = "done", !.node = Nowhere]
<1>1. /\ x.st = "done" /\ x.rev = change[w].rev /\ x.at = change[w].at /\ x \in ChangeState
      /\ x.tenant = change[w].tenant
  BY ChangeIs DEF ChangeState
<1>2. x = [change[w] EXCEPT !.st = "done", !.node = Nowhere]
  OBVIOUS
<1> HIDE DEF x
<1>3. ChangeOK(x)
  BY <1>1 DEF ChangeOK
<1>4. OneCounter => ChangeBehaved(x)
  BY <1>1, ChangeIs DEF ChangeBehaved
<1> QED BY <1>1, <1>2, <1>3, <1>4

\* What a change has published may be observed and stored.
LEMMA BumpedIs ==
    ASSUME Inv, NEW w \in Changes, change[w].st = "bumped"
    PROVE  /\ change[w].node \in Nodes /\ change[w].tenant \in Scopes /\ change[w].rev \in Nat
           /\ OneCounter =>
                /\ cluster /\ change[w].tenant = Platform /\ change[w].rev <= revision[Platform]
                /\ \A v \in Pub : change[v].at < now => change[v].rev <= change[w].rev
                /\ \A v \in Pub : change[v].at + MaxStale < now => change[v].rev <= change[w].rev
<1>1. change[w].node \in Nodes /\ change[w].tenant \in Scopes /\ change[w].rev \in Nat
  BY ChangeIs DEF ChangeOK, ChangeState
<1>2. \A v \in Pub : change[v].at + MaxStale < now => change[v].at < now
  <2>1. \A v \in Pub : v \in Changes
    BY DEF Pub
  <2> QED BY <2>1, Numbers
<1> QED BY <1>1, <1>2, ChangeIs DEF ChangeBehaved, OneCounter

LEMMA StoreOwnKeeps == ASSUME Inv, NEW w \in Changes, StoreOwn(w) PROVE Inv'
<1>1. PICK x : /\ change' = [change EXCEPT ![w] = x]
               /\ x.st = "done" /\ x.rev = change[w].rev /\ x.at = change[w].at /\ ChangeOK(x)
               /\ OneCounter => ChangeBehaved(x)
  <2>1. change' = [change EXCEPT ![w] = [change[w] EXCEPT !.st = "done", !.node = Nowhere]]
    BY DEF StoreOwn, Inv, TypeInv, Typed
  <2> QED BY <2>1, DoneIs
<1>2. /\ change[w].st = "bumped" /\ Observe(change[w].node, change[w].tenant, change[w].rev)
      /\ StoreRevision(change[w].node, change[w].rev, FALSE)
      /\ UNCHANGED <<now, revision, cluster, tenancy, cache, call, faults>>
  BY DEF StoreOwn
<1>3. observed' \in [Nodes -> [Scopes -> Observation]] /\ local' \in [Nodes -> Local]
  BY <1>2, BumpedIs, StoresTyped DEF Inv
<1>4. OneCounter =>
        /\ Top' = Top
        /\ \A n \in Nodes : LocalOK(local'[n]) /\ ObservedOK(observed'[n][Platform])
  BY <1>2, BumpedIs, LocalStored, ObservedStored DEF Top
<1> QED BY <1>1, <1>2, <1>3, <1>4, CacheStays, ChangeKeeps

LEMMA MarkFailsKeeps == ASSUME Inv, NEW w \in Changes, MarkFails(w) PROVE Inv'
<1>1. PICK x : /\ change' = [change EXCEPT ![w] = x]
               /\ x.st = "done" /\ x.rev = change[w].rev /\ x.at = change[w].at /\ ChangeOK(x)
               /\ OneCounter => ChangeBehaved(x)
  <2>1. change' = [change EXCEPT ![w] = [change[w] EXCEPT !.st = "done", !.node = Nowhere]]
    BY DEF MarkFails, Inv, TypeInv, Typed
  <2> QED BY <2>1, DoneIs
<1>2. /\ Fault /\ UNCHANGED <<now, revision, cluster, tenancy, local, cache, call>>
      /\ \/ observed' = observed
         \/ change[w].st = "bumped" /\ Observe(change[w].node, change[w].tenant, change[w].rev)
  BY DEF MarkFails
<1>3. CASE observed' = observed
  BY <1>1, <1>2, <1>3, RevisionsStay, CacheStays, ChangeKeeps
<1>4. CASE change[w].st = "bumped" /\ Observe(change[w].node, change[w].tenant, change[w].rev)
  <2>1. observed' \in [Nodes -> [Scopes -> Observation]] /\ local' \in [Nodes -> Local]
    BY <1>2, <1>4, BumpedIs, StoresTyped DEF Inv, TypeInv, Typed
  <2>2. OneCounter =>
          /\ Top' = Top
          /\ \A n \in Nodes : LocalOK(local'[n]) /\ ObservedOK(observed'[n][Platform])
    BY <1>2, <1>4, BumpedIs, ObservedStored DEF Top, Inv, SInv
  <2> QED BY <1>1, <1>2, <2>1, <2>2, CacheStays, ChangeKeeps
<1> QED BY <1>2, <1>3, <1>4

\* The INCR of the revision: the change is newer than every tag and every window.
LEMMA BumpSharedKeeps == ASSUME Inv, NEW w \in Changes, BumpShared(w) PROVE Inv'
<1> DEFINE s == change[w].tenant
           r == revision[s] + 1
           y == [change[w] EXCEPT !.st = "bumped", !.at = now, !.rev = r]
<1>1. /\ cluster /\ change[w].st = "cleared" /\ revision' = [revision EXCEPT ![s] = r]
      /\ change' = [change EXCEPT ![w] = y]
      /\ UNCHANGED <<now, observed, cluster, tenancy, local, cache, call, faults>>
  BY DEF BumpShared, Bump, Inv, TypeInv, Typed
<1>2. s \in Scopes /\ change[w].node \in Nodes /\ revision[s] \in Nat /\ r \in Nat /\ now \in Nat
  <2>1. s \in Scopes /\ change[w].node \in Nodes
    BY <1>1, ChangeIs DEF ChangeOK, ChangeState
  <2>2. revision[s] \in Nat /\ now \in Nat
    BY <2>1, Numbers
  <2> QED BY <2>1, <2>2
<1>3. PICK x : /\ x = y /\ x \in ChangeState
               /\ x.st = "bumped" /\ x.node = change[w].node /\ x.rev = r /\ x.at = now
               /\ x.tenant = s
  <2> HIDE DEF r
  <2>1. /\ y \in ChangeState
        /\ y.st = "bumped" /\ y.node = change[w].node /\ y.rev = r /\ y.at = now
        /\ y.tenant = s
    BY <1>2, ChangeIs DEF ChangeState
  <2> QED BY <2>1
<1>4. TypeInv'
  <2>1. ChangeOK(x)
    BY <1>2, <1>3 DEF ChangeOK
  <2>2. revision' \in [Scopes -> Nat]
    <3> HIDE DEF r
    <3> QED BY <1>1, <1>2 DEF Inv, TypeInv, Typed, CoordTypeOK
  <2>3. /\ observed' \in [Nodes -> [Scopes -> Observation]] /\ local' \in [Nodes -> Local]
        /\ cache' \in [Nodes -> [Tokens -> Entry]]
    BY <1>1 DEF Inv, TypeInv, Typed, CoordTypeOK
  <2>4. change' = [change EXCEPT ![w] = x] /\ UNCHANGED <<now, cluster, tenancy, call, faults>>
    BY <1>1, <1>3
  <2> HIDE DEF y, r, s
  <2> QED BY <2>1, <2>2, <2>3, <2>4, ChangeTyped DEF Inv
<1>5. ASSUME OneCounter PROVE SInv'
  <2>0. /\ SInv /\ s = Platform /\ Top = revision[Platform] /\ r = Top + 1 /\ Top \in Nat
        /\ revision[Platform] \in Nat /\ revision'[Platform] = Top + 1 /\ Top' = Top + 1
    <3>1. SInv /\ s = Platform
      BY <1>1, <1>5, ChangeIs DEF Inv, OneCounter, ChangeBehaved
    <3> QED BY <1>1, <1>2, <3>1, Numbers DEF Inv, Top, TypeInv, Typed, CoordTypeOK
  <2>1. \A v \in Changes : change'[v] = IF v = w THEN x ELSE change[v]
    BY <1>1, <1>3 DEF Inv, TypeInv, Typed
  <2>2. w \notin Pub
    BY <1>1, <1>5, ChangeIs DEF ChangeBehaved, Pub
  <2>3. /\ Pub \subseteq Pub'
        /\ \A v \in Pub : change'[v].rev = change[v].rev /\ change'[v].at = change[v].at
        /\ \A v \in Pub' : v \in Pub \/ (change'[v].rev = Top + 1 /\ change'[v].at = now)
    BY <1>3, <2>0, <2>1, <2>2 DEF Pub
  <2>4. \A v \in Pub : change[v].rev \in Nat /\ change[v].at \in Nat
    BY Numbers DEF Pub
  <2>5. ASSUME NEW e, Sound(e), e.held => e.rev \in Nat PROVE Sound(e)'
    BY <1>1, <2>0, <2>3, <2>5 DEF Sound
  <2>6. CacheOK'
    <3> SUFFICES ASSUME NEW n \in Nodes, NEW k \in Tokens PROVE Sound(cache[n][k])'
      BY <1>1 DEF CacheOK
    <3>1. Sound(cache[n][k]) /\ cache[n][k].rev \in Nat /\ cache'[n][k] = cache[n][k]
      BY <1>1, <2>0 DEF SInv, CacheOK, Inv, TypeInv, Typed, Entry
    <3> QED BY <1>1, <2>0, <2>3, <3>1 DEF Sound
  <2>7. CallsOK'
    <3> SUFFICES ASSUME NEW d \in Calls PROVE Sound(call[d].entry)' /\ Behaved(call[d])'
      BY DEF CallsOK
    <3> DEFINE b == call[d]
    <3>1. /\ call' = call /\ cache' = cache /\ Sound(b.entry) /\ Behaved(b)
          /\ b.entry.rev \in Nat /\ b.rev \in Nat
      BY <1>1, <2>0, CallIs DEF SInv, CallsOK, Inv, Entry
    <3>2. Sound(b.entry)'
      BY <1>1, <2>0, <2>3, <3>1 DEF Sound
    <3>3. /\ Covers(b.old, b.rev) => Covers(b.old, b.rev)'
          /\ Covers(b.must, b.rev) => Covers(b.must, b.rev)'
      BY <3>1 DEF Covers
    <3>4. b.must \subseteq Pub /\ b.old \subseteq Pub /\ b.rev <= Top
      BY <3>1 DEF Behaved
    <3>5. b.rev <= Top + 1
      BY <2>0, <3>1, <3>4
    <3>6. /\ \A v \in b.must : change'[v].at = change[v].at
          /\ \A v \in b.old : change'[v].at = change[v].at
      BY <2>3, <3>4
    <3>7. ~(now < now) /\ ~(now + MaxStale < now)
      BY <1>2
    <3>8. \A v \in Pub' : /\ change'[v].at < now => v \in Pub /\ change[v].at < now
                          /\ change'[v].at + MaxStale < now => v \in Pub /\ change[v].at + MaxStale < now
      BY <2>3, <3>7
    <3>9. b.pc = "refresh" => \A v \in Pub' : change'[v].at < now => change'[v].rev <= b.rev
      BY <2>3, <3>1, <3>8 DEF Behaved
    <3>10. b.pc = "store" =>
             \A v \in Pub' : /\ change'[v].at + MaxStale < now => change'[v].rev <= b.rev
                             /\ ~b.fell /\ change'[v].at < now => change'[v].rev <= b.rev
      BY <2>3, <3>1, <3>8 DEF Behaved
    <3>11. b' = b
      BY <3>1
    <3>12. Behaved(b)'
      BY <1>1, <2>0, <2>3, <3>1, <3>3, <3>4, <3>5, <3>6, <3>9, <3>10, <3>11 DEF Behaved
    <3> QED BY <3>2, <3>12
  <2>8. \A n \in Nodes : LocalOK(local[n])' /\ ObservedOK(observed[n][Platform])'
    <3> SUFFICES ASSUME NEW n \in Nodes
                 PROVE  LocalOK(local[n])' /\ ObservedOK(observed[n][Platform])'
      OBVIOUS
    <3>1. /\ LocalOK(local[n]) /\ ObservedOK(observed[n][Platform])
          /\ local' = local /\ observed' = observed
          /\ local[n].rev \in Nat /\ local[n].until \in Nat
          /\ observed[n][Platform].rev \in Nat /\ observed[n][Platform].until \in Nat
      BY <1>1, <2>0, Numbers DEF SInv
    <3>2. LocalOK(local[n])'
      <4>1. /\ local[n].rev <= Top /\ local[n].until <= now + Window + 1
            /\ \A v \in Pub :
               /\ change[v].at + MaxStale + Window + 1 < local[n].until => change[v].rev <= local[n].rev
               /\ ~local[n].fell /\ change[v].at + Window + 1 < local[n].until
                    => change[v].rev <= local[n].rev
        BY <1>1, <2>0, <3>1 DEF LocalOK
      <4>2. local[n].rev <= Top + 1
        BY <2>0, <3>1, <4>1
      <4>3. ~(now + MaxStale + Window + 1 < local[n].until) /\ ~(now + Window + 1 < local[n].until)
        BY <1>2, <3>1, <4>1
      <4> QED BY <1>1, <2>0, <2>3, <3>1, <4>1, <4>2, <4>3 DEF LocalOK
    <3>3. ObservedOK(observed[n][Platform])'
      <4> DEFINE o == observed[n][Platform]
      <4>1. /\ o.rev <= Top /\ o.until <= now + MaxStale + 1
            /\ \A v \in Pub : change[v].at + MaxStale + 1 < o.until => change[v].rev <= o.rev
        BY <1>1, <2>0, <3>1 DEF ObservedOK
      <4>2. o.rev <= Top + 1
        BY <2>0, <3>1, <4>1
      <4>3. ~(now + MaxStale + 1 < o.until)
        BY <1>2, <3>1, <4>1
      <4> QED BY <1>1, <2>0, <2>3, <3>1, <4>1, <4>2, <4>3 DEF ObservedOK
    <3> QED BY <3>2, <3>3
  <2>9. \A v \in Changes : ChangeBehaved(change[v])'
    <3> SUFFICES ASSUME NEW v \in Changes PROVE ChangeBehaved(change[v])'
      OBVIOUS
    <3>1. \A u \in Pub' : change'[u].at < now => u \in Pub /\ change[u].at < now
      BY <1>2, <2>3
    <3>2. CASE v = w
      <4>1. \A u \in Pub' : change'[u].at < now => change'[u].rev <= Top + 1
        <5>1. \A u \in Pub : change[u].rev <= Top
          BY <1>1, <2>0 DEF SInv, ChangeBehaved, Pub
        <5>2. \A u \in Pub : change[u].rev <= Top + 1
          BY <2>0, <2>4, <5>1
        <5> QED BY <2>3, <3>1, <5>2
      <4>2. /\ change'[v].st = "bumped" /\ change'[v].rev = Top + 1 /\ change'[v].at = now
            /\ Top + 1 > 0 /\ Top + 1 <= Top + 1 /\ now <= now /\ change'[v].tenant = Platform
        <5>1. change'[v] = x /\ x.st = "bumped" /\ x.rev = r /\ x.at = now /\ r = Top + 1
          BY <1>3, <2>0, <2>1, <3>2
        <5>2. Top + 1 > 0 /\ Top + 1 <= Top + 1 /\ now <= now
          BY <1>2, <2>0
        <5>3. change'[v].tenant = Platform
          BY <1>3, <2>0, <2>1, <3>2
        <5> HIDE DEF r
        <5> QED BY <5>1, <5>2, <5>3
      <4> QED BY <1>1, <2>0, <4>1, <4>2 DEF ChangeBehaved
    <3>3. CASE v # w
      <4>1. ChangeBehaved(change[v]) /\ change'[v] = change[v] /\ change[v].rev \in Nat
        BY <2>0, <2>1, <3>3, Numbers DEF SInv
      <4>2. change[v].rev <= Top + 1
        BY <1>1, <2>0, <4>1 DEF ChangeBehaved
      <4>3. change[v].st = "bumped" =>
              \A u \in Pub' : change'[u].at < now => change'[u].rev <= change[v].rev
        BY <2>3, <3>1, <4>1 DEF ChangeBehaved
      <4> QED BY <1>1, <2>0, <4>1, <4>2, <4>3 DEF ChangeBehaved
    <3> QED BY <3>2, <3>3
  <2> QED BY <2>6, <2>7, <2>8, <2>9 DEF SInv
<1> QED BY <1>1, <1>4, <1>5 DEF Inv, OneCounter

\* A single node raises its revision.
LEMMA MarkChangedLocallyKeeps ==
    ASSUME Inv, NEW w \in Changes, MarkChangedLocally(w) PROVE Inv'
<1> DEFINE n == change[w].node
           r == local[n].rev + 1
           y == [change[w] EXCEPT !.st = "done", !.at = now, !.node = Nowhere, !.rev = r]
<1>1. /\ ~cluster /\ change[w].st = "cleared" /\ change' = [change EXCEPT ![w] = y]
      /\ StoreRevision(n, r, FALSE)
      /\ UNCHANGED <<now, revision, observed, cluster, tenancy, cache, call, faults>>
  <2>1. /\ ~cluster /\ change[w].st = "cleared" /\ StoreRevision(n, r, FALSE)
        /\ UNCHANGED <<now, revision, observed, cluster, tenancy, cache, call, faults>>
    BY DEF MarkChangedLocally, BumpLocal, coordVars
  <2>2. change' = [change EXCEPT ![w] = y]
    BY DEF MarkChangedLocally, Inv, TypeInv, Typed
  <2> QED BY <2>1, <2>2
<1>2. n \in Nodes /\ r \in Nat /\ now \in Nat
  <2>1. n \in Nodes
    BY <1>1, ChangeIs DEF ChangeOK
  <2>2. local[n].rev \in Nat /\ now \in Nat
    BY <2>1, Numbers
  <2> QED BY <2>1, <2>2
<1>3. PICK x : /\ x = y /\ x \in ChangeState /\ x.st = "done" /\ x.rev = r /\ x.at = now
               /\ x.tenant = change[w].tenant
  <2> HIDE DEF r
  <2>1. /\ y \in ChangeState /\ y.st = "done" /\ y.rev = r /\ y.at = now
        /\ y.tenant = change[w].tenant
    BY <1>2, ChangeIs DEF ChangeState
  <2> QED BY <2>1
<1>4. TypeInv'
  <2>1. ChangeOK(x)
    BY <1>3 DEF ChangeOK
  <2>2. local' \in [Nodes -> Local]
    <3> HIDE DEF n, r
    <3> QED BY <1>1, <1>2, StoresTyped DEF Inv
  <2>3. /\ observed' \in [Nodes -> [Scopes -> Observation]] /\ revision' \in [Scopes -> Nat]
        /\ cache' \in [Nodes -> [Tokens -> Entry]]
    BY <1>1 DEF Inv, TypeInv, Typed, CoordTypeOK
  <2>4. change' = [change EXCEPT ![w] = x] /\ UNCHANGED <<now, cluster, tenancy, call, faults>>
    BY <1>1, <1>3
  <2> HIDE DEF y, r, n
  <2> QED BY <2>1, <2>2, <2>3, <2>4, ChangeTyped DEF Inv
<1>5. ASSUME OneCounter PROVE SInv'
  <2>0. /\ SInv /\ n = Home /\ Top = local[n].rev /\ r = Top + 1 /\ Top \in Nat
        /\ change[w].rev = 0
    BY <1>1, <1>5, ChangeIs, Numbers DEF Inv, ChangeBehaved, Top
  <2>1. Top' = Top + 1
    BY <1>1, <1>2, <2>0 DEF Top, StoreRevision, Inv, TypeInv, Typed
  <2>2. \A v \in Changes : change'[v] = IF v = w THEN x ELSE change[v]
    BY <1>1, <1>3 DEF Inv, TypeInv, Typed
  <2>3. /\ \A m \in Nodes, k \in Tokens : Sound(cache[m][k])'
        /\ \A d \in Calls : Sound(call[d].entry)'
        /\ \A d \in Calls : call'[d] = call[d] => Behaved(call[d])'
    <3>1. \A v \in Changes : \/ change'[v].rev = change[v].rev
                             \/ change[v].rev = 0 /\ change'[v].rev = Top + 1
      BY <1>3, <2>0, <2>2
    <3>2. UNCHANGED <<now, revision, cluster, tenancy, cache>> /\ \A d \in Calls : call'[d] = call[d]
      BY <1>1
    <3> HIDE DEF n, r, y
    <3> QED BY <1>1, <1>5, <2>1, <3>1, <3>2, TopGrows
  <2>4. CallsOK' /\ CacheOK'
    BY <1>1, <2>0, <2>3 DEF CallsOK, CacheOK, SInv
  <2>5. \A m \in Nodes : LocalOK(local[m])' /\ ObservedOK(observed[m][Platform])'
    <3>1. \A m \in Nodes : ~local'[m].fell
      BY <1>1, <2>0 DEF StoreRevision, Inv, TypeInv, Typed, SInv, LocalOK
    <3> QED BY <1>1, <3>1 DEF LocalOK, ObservedOK
  <2>6. \A v \in Changes : ChangeBehaved(change[v])'
    <3> SUFFICES ASSUME NEW v \in Changes PROVE ChangeBehaved(change[v])'
      OBVIOUS
    <3>1. CASE v = w
      <4>1. change'[v].st = "done" /\ change'[v].at = now /\ (~tenancy => change'[v].tenant = Platform)
        BY <1>3, <1>5, <2>2, <3>1, ChangeIs DEF ChangeBehaved
      <4>2. now <= now
        BY <1>2
      <4> QED BY <1>1, <4>1, <4>2 DEF ChangeBehaved
    <3>2. CASE v # w
      BY <1>1, <2>0, <2>2, <3>2 DEF SInv, ChangeBehaved
    <3> QED BY <3>1, <3>2
  <2> QED BY <2>4, <2>5, <2>6 DEF SInv
<1> QED BY <1>1, <1>4, <1>5 DEF Inv, OneCounter

LEMMA ChangeStepKeeps == ASSUME Inv, NEW w \in Changes, ChangeStep(w) PROVE Inv'
BY CommitKeeps, ClearOwnKeeps, BumpSharedKeeps, MarkChangedLocallyKeeps, StoreOwnKeeps,
   MarkFailsKeeps DEF ChangeStep

\* Steps that leave every call and every change alone.
LEMMA RestTyped ==
    ASSUME TypeInv, UNCHANGED <<cluster, tenancy, change, call, faults>>, now' \in Nat,
           revision' \in [Scopes -> Nat],
           observed' \in [Nodes -> [Scopes -> Observation]],
           local' \in [Nodes -> Local],
           cache' \in [Nodes -> [Tokens -> Entry]]
    PROVE  TypeInv'
<1>1. \A c \in Calls : CallOK(call[c])'
  BY DEF TypeInv, CallOK
<1>2. \A w \in Changes : ChangeOK(change[w])'
  BY DEF TypeInv, ChangeOK
<1> QED BY <1>1, <1>2 DEF TypeInv, Typed, CoordTypeOK

LEMMA ExpireKeeps ==
    ASSUME Inv, NEW n \in Nodes, NEW k \in Tokens, ExpireEntry(n, k) PROVE Inv'
<1>1. Put(n, k, NoEntry) /\ UNCHANGED <<now, revision, observed, cluster, tenancy, local, change, call, faults>>
  BY DEF ExpireEntry, coordVars
<1>2. /\ cache' \in [Nodes -> [Tokens -> Entry]]
      /\ OneCounter => \A m \in Nodes, j \in Tokens :
            NewOK(cache'[m][j]) /\ (~cluster /\ cache'[m][j].held => m = Home)
  BY <1>1, NoEntryTyped, CacheNewOK, CacheWritten
<1>3. TypeInv'
  BY <1>1, <1>2, RestTyped DEF Inv, TypeInv, Typed, CoordTypeOK
<1>4. OneCounter => SInv'
  BY <1>1, <1>2, RevisionsStay, ChangeIs, QuietKeeps
<1> QED BY <1>1, <1>3, <1>4 DEF Inv, OneCounter

\* A process starts again.  On a single node nothing is left, and the revision
\* starts at 0 again.
LEMMA RestartTyped ==
    ASSUME TypeInv, NEW n \in Nodes, Restart(n)
    PROVE  /\ TypeInv'
           /\ UNCHANGED <<now, revision, cluster, tenancy>>
           /\ local' = [local EXCEPT ![n] = NoLocal]
           /\ \A m \in Nodes, k \in Tokens :
                 cache'[m][k] = IF m = n THEN NoEntry ELSE cache[m][k]
           /\ \A d \in Calls : call'[d] = IF call[d].node = n THEN IdleCall ELSE call[d]
           /\ \A v \in Changes : /\ change'[v].rev = change[v].rev /\ change'[v].at = change[v].at
                                 /\ change'[v].tenant = change[v].tenant
                                 /\ change'[v] = change[v] \/ change'[v].st = "done"
           /\ \A m \in Nodes : \A s \in Scopes :
                 \/ observed'[m][s] = observed[m][s]
                 \/ observed'[m][s].rev = 0 /\ observed'[m][s].until = 0
<1>0. /\ UNCHANGED <<now, revision, cluster, tenancy>>
      /\ local' = [local EXCEPT ![n] = NoLocal]
      /\ cache' = [cache EXCEPT ![n] = [k \in Tokens |-> NoEntry]]
      /\ call' = [c \in Calls |-> IF call[c].node = n THEN IdleCall ELSE call[c]]
      /\ change' = [w \in Changes |->
                      IF change[w].node = n
                      THEN [change[w] EXCEPT !.st = "done", !.node = Nowhere] ELSE change[w]]
      /\ observed' = [observed EXCEPT ![n] = Unobserved]
  BY DEF Restart, ForgetObserved
<1>10. faults' \in 0..MaxFaults
  <2>1. faults' = faults + 1 /\ faults < MaxFaults
    BY DEF Restart, Fault
  <2>2. faults \in 0..MaxFaults
    BY DEF TypeInv, Typed
  <2> QED BY <2>1, <2>2
<1>1. local' \in [Nodes -> Local]
  BY <1>0 DEF TypeInv, Typed, NoLocal, Local
<1>2. cache' \in [Nodes -> [Tokens -> Entry]]
  BY <1>0, NoEntryTyped DEF TypeInv, Typed
<1>3. observed' \in [Nodes -> [Scopes -> Observation]]
  BY <1>0 DEF TypeInv, Typed, CoordTypeOK, Unobserved, Observation
<1>4. \A d \in Calls : CallOK(call'[d])
  BY <1>0, IdleOK DEF TypeInv
<1>5. \A v \in Changes :
        /\ ChangeOK(change'[v])
        /\ change'[v].rev = change[v].rev /\ change'[v].at = change[v].at
        /\ change'[v].tenant = change[v].tenant
        /\ change'[v] = change[v] \/ change'[v].st = "done"
  <2> SUFFICES ASSUME NEW v \in Changes
               PROVE  /\ ChangeOK(change'[v])
                      /\ change'[v].rev = change[v].rev /\ change'[v].at = change[v].at
                      /\ change'[v].tenant = change[v].tenant
                      /\ change'[v] = change[v] \/ change'[v].st = "done"
    OBVIOUS
  <2> DEFINE y == [change[v] EXCEPT !.st = "done", !.node = Nowhere]
  <2>1. ChangeOK(change[v]) /\ change[v] \in ChangeState
    BY DEF TypeInv, ChangeOK
  <2>2. y \in ChangeState /\ y.st = "done" /\ y.rev = change[v].rev /\ y.at = change[v].at
        /\ y.tenant = change[v].tenant
    BY <2>1 DEF ChangeState
  <2>3. change'[v] = y \/ change'[v] = change[v]
    BY <1>0
  <2> HIDE DEF y
  <2> QED BY <2>1, <2>2, <2>3 DEF ChangeOK
<1>6. /\ call' \in [Calls -> CallState] /\ change' \in [Changes -> ChangeState]
  <2>1. call' = [d \in Calls |-> call'[d]] /\ change' = [v \in Changes |-> change'[v]]
    BY <1>0
  <2> QED BY <1>4, <1>5, <2>1 DEF CallOK, ChangeOK
<1>7. TypeInv'
  <2>1. Typed'
    BY <1>0, <1>1, <1>2, <1>3, <1>6, <1>10 DEF TypeInv, Typed, CoordTypeOK
  <2>2. \A d \in Calls : CallOK(call[d])'
    BY <1>4 DEF CallOK
  <2>3. \A v \in Changes : ChangeOK(change[v])'
    BY <1>5 DEF ChangeOK
  <2> QED BY <2>1, <2>2, <2>3 DEF TypeInv
<1>8. \A m \in Nodes, k \in Tokens : cache'[m][k] = IF m = n THEN NoEntry ELSE cache[m][k]
  BY <1>0 DEF TypeInv, Typed
<1>9. \A m \in Nodes : \A s \in Scopes :
        \/ observed'[m][s] = observed[m][s]
        \/ observed'[m][s].rev = 0 /\ observed'[m][s].until = 0
  BY <1>0 DEF TypeInv, Typed, CoordTypeOK, Unobserved
<1> QED BY <1>0, <1>5, <1>7, <1>8, <1>9

LEMMA RestartKeeps == ASSUME Inv, NEW n \in Running, Restart(n) PROVE Inv'
<1>0. n \in Nodes
  BY RunningNodes
<1>1. /\ TypeInv'
      /\ UNCHANGED <<now, revision, cluster, tenancy>>
      /\ local' = [local EXCEPT ![n] = NoLocal]
      /\ \A m \in Nodes, k \in Tokens :
            cache'[m][k] = IF m = n THEN NoEntry ELSE cache[m][k]
      /\ \A d \in Calls : call'[d] = IF call[d].node = n THEN IdleCall ELSE call[d]
      /\ \A v \in Changes : /\ change'[v].rev = change[v].rev /\ change'[v].at = change[v].at
                            /\ change'[v].tenant = change[v].tenant
                            /\ change'[v] = change[v] \/ change'[v].st = "done"
      /\ \A m \in Nodes : \A s \in Scopes :
            \/ observed'[m][s] = observed[m][s]
            \/ observed'[m][s].rev = 0 /\ observed'[m][s].until = 0
  BY <1>0, RestartTyped DEF Inv
<1>2. ASSUME OneCounter PROVE SInv'
  <2>0. SInv
    BY <1>2 DEF Inv
  <2>1. \A v \in Changes : /\ change'[v].rev = change[v].rev /\ change'[v].at = change[v].at
                           /\ ChangeBehaved(change'[v])
    BY <1>1, <1>2, ChangeIs DEF ChangeBehaved
  <2>2. \A m \in Nodes : local'[m] = IF m = n THEN NoLocal ELSE local[m]
    BY <1>1 DEF Inv, TypeInv, Typed
  <2>3. \A w \in Pub : change[w].at \in Nat
    BY Numbers DEF Pub
  <2>4. \A m \in Nodes : LocalOK(local'[m])
    <3>1. LocalOK(NoLocal)
      <4>1. ~NoLocal.fell /\ NoLocal.rev = 0 /\ NoLocal.until = 0
        BY DEF NoLocal
      <4>2. 0 <= revision[Platform] /\ 0 <= now + Window + 1
        BY Numbers
      <4>3. \A w \in Pub : ~(change[w].at + MaxStale + Window + 1 < 0) /\ ~(change[w].at + Window + 1 < 0)
        BY <2>3
      <4> QED BY <4>1, <4>2, <4>3 DEF LocalOK
    <3> QED BY <2>0, <2>2, <3>1 DEF SInv
  <2>5. \A m \in Nodes : ObservedOK(observed'[m][Platform])
    <3> SUFFICES ASSUME NEW m \in Nodes PROVE ObservedOK(observed'[m][Platform])
      OBVIOUS
    <3>1. CASE observed'[m][Platform] = observed[m][Platform]
      BY <2>0, <3>1 DEF SInv
    <3>2. CASE observed'[m][Platform].rev = 0 /\ observed'[m][Platform].until = 0
      <4>1. 0 <= revision[Platform] /\ 0 <= now + MaxStale + 1
        BY Numbers
      <4>2. \A w \in Pub : ~(change[w].at + MaxStale + 1 < 0)
        BY <2>3
      <4> QED BY <3>2, <4>1, <4>2 DEF ObservedOK
    <3> QED BY <1>1, <3>1, <3>2
  <2>6. CASE cluster
    <3>1. Top' = Top
      BY <1>1, <2>6 DEF Top
    <3>2. \A m \in Nodes, k \in Tokens : NewOK(cache'[m][k])
      BY <1>1, <1>2, CacheNewOK
    <3> QED BY <1>1, <1>2, <2>1, <2>4, <2>5, <2>6, <3>1, <3>2, QuietKeeps
  <2>7. CASE ~cluster
    <3>1. n = Home /\ Top' = 0
      BY <1>1, <2>2, <2>7 DEF Running, Top, NoLocal
    <3>2. \A d \in Calls : call'[d] = IdleCall
      BY <1>1, <2>0, <2>7, <3>1 DEF SInv, CallsOK, Behaved
    <3>3. \A m \in Nodes, k \in Tokens : ~cache'[m][k].held
      BY <1>1, <2>0, <2>7, <3>1, NoEntryTyped DEF SInv, CacheOK
    <3>4. Behaved(IdleCall)' /\ Sound(IdleCall.entry)'
      <4>1. 0 <= 0
        OBVIOUS
      <4> QED BY <1>1, <2>7, <3>1, <4>1 DEF IdleCall, NoEntry, Behaved, Sound, Covered
    <3>5. CallsOK'
      <4> SUFFICES ASSUME NEW d \in Calls PROVE Sound(call[d].entry)' /\ Behaved(call[d])'
        BY DEF CallsOK
      <4> QED BY <3>2, <3>4 DEF Sound, Behaved, Covers
    <3>6. CacheOK'
      BY <3>3 DEF CacheOK, Sound
    <3>7. \A m \in Nodes : LocalOK(local[m])' /\ ObservedOK(observed[m][Platform])'
      BY <1>1, <2>4, <2>7 DEF LocalOK, ObservedOK
    <3>8. \A v \in Changes : ChangeBehaved(change[v])'
      BY <1>1, <2>1, <2>7 DEF ChangeBehaved
    <3> QED BY <3>5, <3>6, <3>7, <3>8 DEF SInv
  <2> QED BY <2>6, <2>7
<1> QED BY <1>1, <1>2 DEF Inv, OneCounter

\* The clock: what was read is stored, so only windows shorten.
LEMMA TickKeeps == ASSUME Inv, Tick PROVE Inv'
<1>0. /\ now' = now + 1 /\ now \in Nat /\ NothingToStore
      /\ UNCHANGED <<revision, observed, cluster, tenancy, local, change, cache, call, faults>>
  BY Numbers DEF Tick, Advance
<1>1. TypeInv'
  <2>1. now' \in Nat
    BY <1>0
  <2> QED BY <1>0, <2>1, RestTyped DEF Inv, TypeInv, Typed, CoordTypeOK
<1>2. ASSUME OneCounter PROVE SInv'
  <2>0. SInv /\ Top' = Top /\ Pub' = Pub
    BY <1>0, <1>2 DEF Inv, Top, Pub
  <2>1. CacheOK'
    BY <1>0, <2>0 DEF SInv, CacheOK, Sound
  <2>2. ASSUME NEW w \in Pub PROVE w \in Changes /\ change[w].at \in Nat
    BY <2>2, Numbers DEF Pub
  <2>3. CallsOK'
    <3> SUFFICES ASSUME NEW d \in Calls PROVE Sound(call[d].entry)' /\ Behaved(call[d])'
      BY DEF CallsOK
    <3> DEFINE b == call[d]
    <3>1. /\ call' = call /\ cache' = cache /\ Sound(b.entry) /\ Behaved(b)
          /\ b.pc \notin {"refresh", "store"}
      BY <1>0, <2>0 DEF SInv, CallsOK, NothingToStore
    <3>2. Sound(b.entry)'
      BY <1>0, <2>0, <3>1 DEF Sound
    <3>3. /\ Covers(b.old, b.rev) => Covers(b.old, b.rev)'
          /\ Covers(b.must, b.rev) => Covers(b.must, b.rev)'
      BY <3>1 DEF Covers
    <3>4. cluster => /\ \A w \in b.must : change[w].at + Window < now + 1
                     /\ \A w \in b.old : change[w].at + Window + MaxStale < now + 1
      <4>1. b.must \subseteq Pub /\ b.old \subseteq Pub
        BY <3>1 DEF Behaved
      <4>2. cluster => /\ \A w \in b.must : change[w].at + Window < now
                       /\ \A w \in b.old : change[w].at + Window + MaxStale < now
        BY <3>1 DEF Behaved
      <4> QED BY <1>0, <2>2, <4>1, <4>2
    <3>5. b' = b
      BY <3>1
    <3>6. Behaved(b)'
      BY <1>0, <2>0, <3>1, <3>3, <3>4, <3>5 DEF Behaved
    <3> QED BY <3>2, <3>6
  <2>4. \A n \in Nodes : LocalOK(local[n])' /\ ObservedOK(observed[n][Platform])'
    <3> SUFFICES ASSUME NEW n \in Nodes
                 PROVE  LocalOK(local[n])' /\ ObservedOK(observed[n][Platform])'
      OBVIOUS
    <3>1. /\ LocalOK(local[n]) /\ ObservedOK(observed[n][Platform])
          /\ local[n].until \in Nat /\ observed[n][Platform].until \in Nat
      BY <2>0, Numbers DEF SInv
    <3>2. /\ local[n].until <= now + Window + 1 => local[n].until <= now + 1 + Window + 1
          /\ observed[n][Platform].until <= now + MaxStale + 1
               => observed[n][Platform].until <= now + 1 + MaxStale + 1
      BY <1>0, <3>1
    <3> QED BY <1>0, <2>0, <3>1, <3>2 DEF LocalOK, ObservedOK
  <2>5. \A v \in Changes : ChangeBehaved(change[v])'
    <3> SUFFICES ASSUME NEW v \in Changes PROVE ChangeBehaved(change[v])'
      OBVIOUS
    <3>1. ChangeBehaved(change[v]) /\ change[v].at \in Nat /\ change[v].st # "bumped"
      BY <1>0, <2>0, Numbers DEF SInv, NothingToStore
    <3>2. change[v].at <= now => change[v].at <= now + 1
      BY <1>0, <3>1
    <3> QED BY <1>0, <3>1, <3>2 DEF ChangeBehaved
  <2> QED BY <2>1, <2>3, <2>4, <2>5 DEF SInv
<1> QED BY <1>0, <1>1, <1>2 DEF Inv, OneCounter

LEMMA InitInv == Init => Inv
<1> SUFFICES ASSUME Init PROVE Inv
  OBVIOUS
<1>0. /\ now = 0 /\ cluster \in BOOLEAN /\ tenancy \in BOOLEAN /\ faults = 0
      /\ revision = [s \in Scopes |-> 0] /\ observed = [n \in Nodes |-> Unobserved]
      /\ local = [n \in Nodes |-> NoLocal] /\ change = [w \in Changes |-> NoChange]
      /\ cache = [n \in Nodes |-> [k \in Tokens |-> NoEntry]] /\ call = [c \in Calls |-> IdleCall]
  BY ModesAssumption DEF Init, CoordInit
<1>1. NoChange \in ChangeState /\ ChangeOK(NoChange) /\ NoChange.rev = 0 /\ NoChange.at = 0
      /\ NoChange.st = "none" /\ NoChange.tenant = Platform
  BY DEF NoChange, ChangeState, ChangeOK
<1>2. NoLocal \in Local /\ Unobserved \in [Scopes -> Observation] /\ NoEntry \in Entry
      /\ IdleCall \in CallState
  BY NoEntryTyped, IdleOK DEF NoLocal, Local, Unobserved, Observation, CallOK
<1>3. now \in Nat /\ faults \in 0..MaxFaults
  BY <1>0
<1>4. TypeInv
  <2>1. Typed
    BY <1>0, <1>1, <1>2, <1>3 DEF Typed, CoordTypeOK
  <2> QED BY <1>0, <1>1, <2>1, IdleOK DEF TypeInv
<1>5. ASSUME OneCounter PROVE SInv
  <2>1. Pub = {} /\ Top = 0
    <3>1. ~(0 > 0)
      OBVIOUS
    <3> QED BY <1>0, <1>1, <3>1 DEF Pub, Top, NoLocal
  <2>2. 0 <= 0 /\ 0 <= 0 + Window + 1 /\ 0 <= 0 + MaxStale + 1
    OBVIOUS
  <2>3. \A w \in Changes : ChangeBehaved(change[w])
    BY <1>0, <1>1, <2>1, <2>2 DEF ChangeBehaved
  <2>4. \A n \in Nodes : LocalOK(local[n]) /\ ObservedOK(observed[n][Platform])
    <3>1. revision[Platform] = 0
      BY <1>0
    <3>2. LocalOK(NoLocal)
      BY <1>0, <2>1, <2>2, <3>1 DEF LocalOK, NoLocal
    <3>3. ObservedOK(Unobserved[Platform])
      BY <1>0, <2>1, <2>2, <3>1 DEF ObservedOK, Unobserved
    <3> QED BY <1>0, <3>2, <3>3
  <2>5. CacheOK
    BY <1>0, NoEntryTyped DEF CacheOK, Sound
  <2>6. CallsOK
    <3>1. Sound(IdleCall.entry)
      BY DEF IdleCall, NoEntry, Sound
    <3>2. Behaved(IdleCall)
      BY <2>1, <2>2 DEF IdleCall, NoEntry, Behaved, Covered
    <3> QED BY <1>0, <3>1, <3>2 DEF CallsOK
  <2> QED BY <2>3, <2>4, <2>5, <2>6 DEF SInv
<1> QED BY <1>4, <1>5 DEF Inv

LEMMA StutterKeeps == ASSUME Inv, UNCHANGED vars PROVE Inv'
<1>0. UNCHANGED <<now, revision, observed, cluster, tenancy, local, change, cache, call, faults>>
  BY DEF vars, coordVars
<1>1. TypeInv'
  BY <1>0, RestTyped DEF Inv, TypeInv, Typed, CoordTypeOK
<1>2. OneCounter => SInv'
  BY <1>0, RevisionsStay, CacheStays, ChangeIs, QuietKeeps
<1> QED BY <1>0, <1>1, <1>2 DEF Inv, OneCounter

LEMMA Invariant == Spec => []Inv
<1>1. Inv /\ [Next]_vars => Inv'
  <2> SUFFICES ASSUME Inv, [Next]_vars PROVE Inv'
    OBVIOUS
  <2>1. ASSUME NEW w \in Changes, ChangeStep(w) PROVE Inv'
    BY <2>1, ChangeStepKeeps
  <2>2. ASSUME NEW c \in Calls, CallStep(c) PROVE Inv'
    BY <2>2, CallStepKeeps
  <2>3. ASSUME NEW n \in Nodes, NEW k \in Tokens, ExpireEntry(n, k) PROVE Inv'
    BY <2>3, ExpireKeeps
  <2>4. ASSUME NEW n \in Nodes, Restart(n) PROVE Inv'
    BY <2>4, RestartKeeps DEF Restart
  <2>5. CASE Tick
    BY <2>5, TickKeeps
  <2>6. CASE UNCHANGED vars
    BY <2>6, StutterKeeps
  <2> QED BY <2>1, <2>2, <2>3, <2>4, <2>5, <2>6 DEF Next
<1> QED BY InitInv, <1>1, PTL DEF Spec

-----------------------------------------------------------------------------
(* Theorems. *)

\* Every variable has its type, and a request that is about to use a snapshot
\* has one, with any number of tenants (loadTokenAccessContextWithCacheLock
\* tests what GetOrSetFuncLock returns).
THEOREM TypeCorrect == Spec => []TypeOK
<1>1. Inv => TypeOK
  BY TypeInvImplies DEF Inv
<1> QED BY <1>1, Invariant, PTL

\* On a single node with any number of tenants, and in a cluster without
\* tenants, a cached snapshot has every change of its tenant up to its tag: the
\* revision is read before the grants and published after the commit.
THEOREM TagSoundThm == Spec => [](OneCounter => TagSound)
<1>1. Inv => (OneCounter => TagSound)
  <2> SUFFICES ASSUME Inv, OneCounter, NEW n \in Nodes, NEW k \in Tokens,
                      NEW w \in Published(Tenant(k)),
                      cache[n][k].held, change[w].rev <= cache[n][k].rev
               PROVE  w \in cache[n][k].data
    BY DEF TagSound
  <2>1. w \in Pub
    BY DEF Published, Pub
  <2> QED BY <2>1 DEF Inv, SInv, CacheOK, Sound
<1> QED BY <1>1, Invariant, PTL

\* On a single node with any number of tenants, and in a cluster without
\* tenants, a request whose revisions came from Redis has
\* every change published more than a refresh window before it began, on
\* whatever node; on a single node, every change published before it began.
THEOREM FreshAccessThm == Spec => [](OneCounter => FreshAccess)
<1>1. Inv => (OneCounter => FreshAccess)
  BY DEF Inv, SInv, CallsOK, Behaved, FreshAccess
<1> QED BY <1>1, Invariant, PTL

\* On a single node with any number of tenants, and in a cluster without
\* tenants, no request ever decides on grants that were
\* changed more than a stale window and a refresh window before it began,
\* however long Redis fails.
THEOREM BoundedStalenessThm == Spec => [](OneCounter => BoundedStaleness)
<1>1. Inv => (OneCounter => BoundedStaleness)
  BY DEF Inv, SInv, CallsOK, Behaved, BoundedStaleness
<1> QED BY <1>1, Invariant, PTL
=============================================================================
