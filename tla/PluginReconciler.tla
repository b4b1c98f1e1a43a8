--------------------------- MODULE PluginReconciler ---------------------------
(***************************************************************************)
(* Lifecycle of one dynamic plugin in a cluster                            *)
(* (internal/service/plugin/internal/runtime and .../upgrade).             *)
(*                                                                         *)
(* A management request records the state it wants in the row of           *)
(* sys_plugin; the primary node converges the row, at once when it serves  *)
(* the request and otherwise on its next tick.  A tick ends with the       *)
(* node's projection of the row.  Lifecycle work holds a per-node mutex    *)
(* and a per-plugin lock with a lease; a row left at "reconciling" is      *)
(* restored once it is old enough.  An upgrade runs on any node.           *)
(*                                                                         *)
(* A tick passes its gate when the reconciler revision has moved, or when  *)
(* the last pass is a safety interval ago.  Either can be so at any time,  *)
(* so a tick may run at any time; that it does again and again is the      *)
(* safety sweep alone.  Publishing a revision therefore changes no state   *)
(* here and only matters where it can fail.                                *)
(*                                                                         *)
(* A process is the ticker of a node or a request.  Every access to the    *)
(* database, Redis or the lock is an action, and each of them may fail,    *)
(* before it has taken effect or after.  The artifact of the plugin does   *)
(* not change; that it cannot be loaded now and then is a fault.  An       *)
(* uninstall purges the plugin's data, which is the default; a lifecycle   *)
(* operation takes less than the lease of the lock.                        *)
(***************************************************************************)
EXTENDS Naturals, FiniteSets

CONSTANTS
    Nodes,
    Requests,      \* management requests at work at the same time
    Ops,           \* the requests made: subset of "install", "enable", "disable", "uninstall", "upgrade"
    Elected,       \* the node that is primary at first
    Nowhere,       \* the node of a request that has not begun
    Free, Orphan,  \* the lock: held by nobody, by a process that died
    Drifts,        \* whether a newer version of an installed plugin is staged
    MaxRequests,   \* bound on the requests that begin
    MaxFaults      \* bound on failures, crashes and changes of the primary

ASSUME PluginAssumption ==
    /\ Nodes \cap Requests = {} /\ Nodes # {}
    /\ Elected \in Nodes /\ Nowhere \notin Nodes
    /\ {Free, Orphan} \cap (Nodes \cup Requests) = {} /\ Free # Orphan
    /\ Ops \subseteq {"install", "enable", "disable", "uninstall", "upgrade"}
    /\ Drifts \subseteq BOOLEAN /\ Drifts # {}
    /\ MaxRequests \in Nat /\ MaxFaults \in Nat

Procs == Nodes \cup Requests
Host == {"uninstalled", "installed", "enabled"}

VARIABLES
    row,       \* the row of sys_plugin
    schema,    \* the tables the install SQL creates exist
    proj,      \* node: its row of sys_plugin_node_state
    up,        \* node: it runs
    primary,   \* the node isPrimaryNode answers true on
    lock,      \* who holds the per-plugin lock
    proc,      \* process: where it is, and its locals
    calm,      \* no fault, no upgrade so far (history)
    begun,     \* number of requests so far
    faults     \* number of faults so far

cluster == <<up, primary>>
history == <<calm, begun, faults>>
vars == <<row, schema, proj, cluster, lock, proc, history>>

Row == [inst    : BOOLEAN,
        en      : BOOLEAN,
        desired : Host,
        current : Host \cup {"reconciling", "failed", "upgrade_running"},
        gen     : Nat,
        drift   : BOOLEAN,   \* the staged version differs from the row's
        fresh   : BOOLEAN]   \* at "reconciling": updated_at is not yet stale

ProcState ==
    [pc   : {"idle", "record", "running", "mutex", "lock", "recover", "mark", "side", "finalize",
             "rollback", "failed", "unlock", "project", "reread", "restore"},
     op   : {"tick"} \cup Ops,
     node : Nodes \cup {Nowhere},
     reg  : Row,                  \* the row it has read
     work : {"none", "recover", "install", "toggle", "uninstall", "upgrade"},
     ok   : BOOLEAN]              \* no error so far

-----------------------------------------------------------------------------
(* Helpers. *)

\* DeriveHostState over the flags: BuildStableHostState.
Stable(r) == IF ~r.inst THEN "uninstalled" ELSE IF r.en THEN "enabled" ELSE "installed"

\* Every UPDATE of the row sets updated_at.
Updated(r) == [r EXCEPT !.fresh = (r.current = "reconciling")]

\* restoreStableState with the row a process has read.
Restored(r, reg) ==
    Updated([r EXCEPT !.inst = reg.inst, !.en = reg.en,
                      !.desired = Stable(reg), !.current = Stable(reg)])

\* The state a request records.
Wanted(op) == CASE op = "enable"    -> "enabled"
                [] op = "uninstall" -> "uninstalled"
                [] OTHER            -> "installed"

\* What it finds before: installing an installed plugin does nothing, and an
\* upgrade needs a newer version and no marker of work in progress.
Allowed(op) ==
    CASE op = "install" -> ~row.inst
      [] op = "upgrade" -> row.inst /\ row.drift /\ row.current \notin {"reconciling", "upgrade_running"}
      [] OTHER          -> row.inst

\* Mutant: an uninstall looks at the wrong flag.
Selected_EnabledOnly(r) ==
    IF r.desired = "uninstalled" THEN IF r.en THEN "uninstall" ELSE "none"
    ELSE IF ~r.inst THEN "install"
    ELSE IF r.drift \/ r.desired = Stable(r) THEN "none" ELSE "toggle"

\* What reconcilePluginIfNeeded selects for the row a process has read.
Selected(r) ==
    IF r.desired = "uninstalled" THEN IF r.inst THEN "uninstall" ELSE "none"
    ELSE IF ~r.inst THEN "install"
    ELSE IF r.drift \/ r.desired = Stable(r) THEN "none" ELSE "toggle"

\* Mutant: a reconciling row is left alone however old it is.
Recovery_Never(r) == "none"

\* recoverStaleReconciling leaves a fresh row alone and restores an old one.
Recovery(r) == IF r.fresh THEN "none" ELSE "recover"

WorkFor(r) == IF r.current = "reconciling" THEN Recovery(r) ELSE Selected(r)

\* The state the work of p leads to; an upgrade keeps the flags it has read.
Target(p) == IF proc[p].work = "upgrade" THEN Stable(proc[p].reg) ELSE proc[p].reg.desired

\* Mutant: the marker is written to the wrong column.
Marked_Desired(r, p) == Updated([r EXCEPT !.desired = "reconciling", !.en = @ /\ proc[p].work # "uninstall"])

\* The row after markReconciling; an uninstall disables the plugin with it.
Marked(r, p) ==
    Updated([r EXCEPT !.desired = Target(p), !.current = "reconciling",
                      !.en = @ /\ proc[p].work # "uninstall"])

\* The row after finalizeState.
Finalized(r, p) ==
    LET w == proc[p].work
        reg == proc[p].reg
        en == w # "uninstall" /\ Target(p) = "enabled"
        inst == w # "uninstall"
        state == Stable([inst |-> inst, en |-> en])
    IN Updated([r EXCEPT !.inst = inst, !.en = en, !.desired = state, !.current = state,
                         !.gen = reg.gen + 1,
                         !.drift = IF w = "uninstall" THEN @ ELSE FALSE])

\* Install and upgrade run the install SQL, uninstall the uninstall SQL.
RunsSQL(p) == proc[p].work \in {"install", "upgrade", "uninstall"}

\* Process p goes on at pc.
To(p, pc) == [proc EXCEPT ![p].pc = pc]
Fails(p, pc) == [proc EXCEPT ![p].pc = pc, ![p].ok = FALSE]

Faulty == /\ faults < MaxFaults
          /\ faults' = faults + 1
          /\ calm' = FALSE
          /\ UNCHANGED begun

At(p, pc) == proc[p].pc = pc
InMutex == {"lock", "recover", "mark", "side", "finalize", "rollback", "failed",
            "unlock", "project"}

\* Mutant: the row is read without reconcileMu.
MutexFree_Always(n) == TRUE

\* reconcileMu of the node is free.
MutexFree(n) == \A p \in Procs : ~(proc[p].node = n /\ proc[p].pc \in InMutex)

\* Mutant: the per-plugin lock is not asked for, as on a single node.
Granted_Always(p) == TRUE

\* The lock service gives the per-plugin lock to p.
Granted(p) == lock = Free

NoRow == [inst |-> FALSE, en |-> FALSE, desired |-> "uninstalled", current |-> "uninstalled",
          gen |-> 1, drift |-> FALSE, fresh |-> FALSE]
Idle(p) == [pc |-> "idle", op |-> "tick", node |-> IF p \in Nodes THEN p ELSE Nowhere,
            reg |-> NoRow, work |-> "none", ok |-> TRUE]
Ended(p) == [proc EXCEPT ![p] = Idle(p)]

TypeOK ==
    /\ row \in Row /\ schema \in BOOLEAN
    /\ proj \in [Nodes -> [gen : Nat, state : Host \cup {"reconciling", "failed", "upgrade_running"}]]
    /\ up \in [Nodes -> BOOLEAN] /\ primary \in Nodes
    /\ lock \in Procs \cup {Free, Orphan}
    /\ proc \in [Procs -> ProcState]
    /\ calm \in BOOLEAN
    /\ begun \in 0..MaxRequests /\ faults \in 0..MaxFaults

\* The plugin is uninstalled, or installed, perhaps with a newer version staged.
Init ==
    /\ \E inst \in BOOLEAN, drift \in Drifts :
         /\ drift => inst
         /\ LET state == IF inst THEN "installed" ELSE "uninstalled"
            IN row = [NoRow EXCEPT !.inst = inst, !.drift = drift, !.desired = state, !.current = state]
         /\ schema = inst
    /\ proj = [n \in Nodes |-> [gen |-> row.gen, state |-> row.current]]
    /\ up = [n \in Nodes |-> TRUE]
    /\ primary = Elected
    /\ lock = Free
    /\ proc = [p \in Procs |-> Idle(p)]
    /\ calm = TRUE /\ begun = 0 /\ faults = 0

-----------------------------------------------------------------------------
(* Requests. *)

\* A request begins: the checks of the lifecycle and upgrade services.
Begin(r, n, op) ==
    /\ At(r, "idle") /\ up[n] /\ begun < MaxRequests
    /\ Allowed(op)
    /\ op = "upgrade" => \A q \in Requests : proc[q].op # "upgrade"
    /\ begun' = begun + 1
    /\ calm' = (calm /\ op # "upgrade")
    /\ proc' = [proc EXCEPT ![r] = [Idle(r) EXCEPT !.op = op, !.node = n,
                                   !.pc = IF op = "upgrade" THEN "running" ELSE "record"]]
    /\ UNCHANGED <<row, schema, proj, cluster, lock, faults>>

\* updateDesiredState, and the revision is published.  The request is done on
\* another node than the primary; the primary reconciles.
Record(r) ==
    /\ At(r, "record")
    /\ row' = Updated([row EXCEPT !.desired = Wanted(proc[r].op)])
    /\ proc' = IF proc[r].node = primary THEN To(r, "mutex") ELSE Ended(r)
    /\ UNCHANGED <<schema, proj, cluster, lock, history>>

\* The UPDATE fails, or the revision cannot be published: the request returns
\* an error.
RecordFails(r) ==
    /\ At(r, "record")
    /\ Faulty
    /\ row' \in {row, Updated([row EXCEPT !.desired = Wanted(proc[r].op)])}
    /\ proc' = Ended(r)
    /\ UNCHANGED <<schema, proj, cluster, lock>>

\* markRuntimeUpgradeRunning, before the upgrade takes mutex and lock.
MarkRunning(r) ==
    /\ At(r, "running")
    /\ row' = Updated([row EXCEPT !.current = "upgrade_running"])
    /\ proc' = To(r, "mutex")
    /\ UNCHANGED <<schema, proj, cluster, lock, history>>

\* The request ends with an error, and the marker may have been written.
MarkRunningFails(r) ==
    /\ At(r, "running")
    /\ Faulty
    /\ row' \in {row, Updated([row EXCEPT !.current = "upgrade_running"])}
    /\ proc' = Ended(r)
    /\ UNCHANGED <<schema, proj, cluster, lock>>

\* restoreRuntimeUpgradeStableState after a failed upgrade reads the row and
\* writes its stable state.
Reread(r) ==
    /\ At(r, "reread")
    /\ proc' = [proc EXCEPT ![r].reg = row, ![r].pc = "restore"]
    /\ UNCHANGED <<row, schema, proj, cluster, lock, history>>

RestoreUpgrade(r) ==
    /\ At(r, "restore")
    /\ row' = Updated([row EXCEPT !.desired = Stable(proc[r].reg), !.current = Stable(proc[r].reg)])
    /\ proc' = Ended(r)
    /\ UNCHANGED <<schema, proj, cluster, lock, history>>

\* Either statement fails too: that is logged, and the marker stays.
RestoreUpgradeFails(r) ==
    /\ proc[r].pc \in {"reread", "restore"}
    /\ Faulty
    /\ proc' = Ended(r)
    /\ UNCHANGED <<row, schema, proj, cluster, lock>>

-----------------------------------------------------------------------------
(* A pass over the plugin. *)

\* Mutant: only the primary runs the background loop.
Ticks_Primary(n) == up[n] /\ n = primary

\* Every node of the cluster runs the background loop.
Ticks(n) == up[n]

\* A tick takes reconcileMu, reads the row, and asks whether its node is primary.
Tick(n) ==
    /\ At(n, "idle") /\ Ticks(n) /\ MutexFree(n)
    /\ proc' = [proc EXCEPT ![n].reg = row, ![n].pc = IF n = primary THEN "lock" ELSE "project"]
    /\ UNCHANGED <<row, schema, proj, cluster, lock, history>>

\* So does a request, on whichever node is primary by now.  An upgrade of a
\* plugin that is not installed any more fails, and one that finds nothing to
\* upgrade returns.
Enter(r) ==
    /\ At(r, "mutex") /\ MutexFree(proc[r].node)
    /\ proc' = CASE proc[r].op = "upgrade" /\ ~row.inst -> To(r, "reread")
                 [] proc[r].op = "upgrade" /\ row.inst /\ ~row.drift -> Ended(r)
                 [] OTHER -> [proc EXCEPT ![r].reg = row, ![r].pc = "lock"]
    /\ UNCHANGED <<row, schema, proj, cluster, lock, history>>

\* Under the lock the work is chosen from the row that was read before it.
Lock(p) ==
    LET w == IF proc[p].op = "upgrade" THEN "upgrade" ELSE WorkFor(proc[p].reg)
        next == CASE w = "none" -> "unlock" [] w = "recover" -> "recover" [] OTHER -> "mark"
    IN /\ At(p, "lock") /\ Granted(p)
       /\ lock' = p
       /\ proc' = [proc EXCEPT ![p].pc = next, ![p].work = w]
       /\ UNCHANGED <<row, schema, proj, cluster, history>>

\* The lock is held: a tick or request skips the work and succeeds, an upgrade
\* fails and leaves the mutex.
LockHeld(p) ==
    /\ At(p, "lock") /\ ~Granted(p)
    /\ proc' = IF proc[p].op = "upgrade" THEN To(p, "reread")
               ELSE [proc EXCEPT ![p].pc = "project", ![p].reg = row]
    /\ UNCHANGED <<row, schema, proj, cluster, lock, history>>

\* An error of the lock service ends the pass; the lock may have been taken.
LockFails(p) ==
    /\ At(p, "lock")
    /\ Faulty
    /\ lock' \in {lock} \cup (IF Granted(p) THEN {Orphan} ELSE {})
    /\ proc' = IF proc[p].op = "upgrade" THEN To(p, "reread") ELSE Ended(p)
    /\ UNCHANGED <<row, schema, proj, cluster>>

\* recoverStaleReconciling: the row gets the flags back that the process has
\* read, and wants what it then has, so there is nothing more to do.
RecoverStale(p) ==
    /\ At(p, "recover")
    /\ row' = Restored(row, proc[p].reg)
    /\ proc' = To(p, "unlock")
    /\ UNCHANGED <<schema, proj, cluster, lock, history>>

\* The UPDATE or the notification after it fails.
RecoverFails(p) ==
    /\ At(p, "recover")
    /\ Faulty
    /\ row' \in {row, Restored(row, proc[p].reg)}
    /\ proc' = Fails(p, "unlock")
    /\ UNCHANGED <<schema, proj, cluster, lock>>

Mark(p) ==
    /\ At(p, "mark")
    /\ row' = Marked(row, p)
    /\ proc' = To(p, "side")
    /\ UNCHANGED <<schema, proj, cluster, lock, history>>

\* The UPDATE fails: nothing has been done, so nothing is rolled back.
MarkFails(p) ==
    /\ At(p, "mark")
    /\ Faulty
    /\ row' \in {row, Marked(row, p)}
    /\ proc' = Fails(p, "unlock")
    /\ UNCHANGED <<schema, proj, cluster, lock>>

\* Archive, SQL, menus, resources, frontend.
Side(p) ==
    /\ At(p, "side")
    /\ schema' = IF RunsSQL(p) THEN proc[p].work # "uninstall" ELSE schema
    /\ proc' = To(p, "finalize")
    /\ UNCHANGED <<row, proj, cluster, lock, history>>

\* One of them fails, before the SQL has taken effect or after it.  The SQL of an
\* install or upgrade is not undone: for the rollback phase ResolveSQLAssets
\* finds the install files again.
SideFails(p) ==
    /\ At(p, "side")
    /\ Faulty
    /\ schema' \in {schema} \cup (IF RunsSQL(p) THEN {proc[p].work # "uninstall"} ELSE {})
    /\ proc' = Fails(p, "rollback")
    /\ UNCHANGED <<row, proj, cluster, lock>>

\* rollbackReleaseFailure: the row gets back the flags the process had read.
\* The node's projection is "failed", and nothing is published.  What has failed
\* may go on failing: each of the statements may be without effect.
Rollback(p) ==
    /\ At(p, "rollback")
    /\ row' \in {row, Restored(row, proc[p].reg)}
    /\ proj' \in {proj} \cup {[proj EXCEPT ![proc[p].node] = [gen |-> g, state |-> "failed"]] :
                               g \in {row.gen, proc[p].reg.gen}}
    /\ proc' = To(p, IF proc[p].work \in {"install", "upgrade"} THEN "failed" ELSE "unlock")
    /\ UNCHANGED <<schema, cluster, lock, history>>

\* markRegistryFailed, for work on a release; this may fail as well.
MarkFailed(p) ==
    /\ At(p, "failed")
    /\ row' \in {row, Updated([row EXCEPT !.current = "failed"])}
    /\ proc' = To(p, "unlock")
    /\ UNCHANGED <<schema, proj, cluster, lock, history>>

\* finalizeState and what follows it: an error after the UPDATE rolls nothing back.
FinalizeTo(p, next) ==
    /\ At(p, "finalize")
    /\ row' = Finalized(row, p)
    /\ proj' = IF proc[p].work = "uninstall"
               THEN [proj EXCEPT ![proc[p].node] = [gen |-> row'.gen, state |-> row'.current]]
               ELSE proj
    /\ proc' = next
    /\ UNCHANGED <<schema, cluster, lock>>

Finalize(p) == FinalizeTo(p, To(p, "unlock")) /\ UNCHANGED history

NotifyFails(p) == FinalizeTo(p, Fails(p, "unlock")) /\ Faulty

\* finalizeState returns an error and no registry, whether or not its UPDATE has
\* taken effect.  The rollback of an install or upgrade runs its SQL; without a
\* registry rollbackReleaseFailure restores, projects and marks nothing, so that
\* the row may stay at "reconciling".
FinalizeFails(p) ==
    /\ At(p, "finalize")
    /\ Faulty
    /\ row' \in {row, Finalized(row, p)}
    /\ schema' = (schema \/ proc[p].work \in {"install", "upgrade"})
    /\ proc' = Fails(p, "unlock")
    /\ UNCHANGED <<proj, cluster, lock>>

\* An upgrade is done then, or has failed; an error ends the pass of another
\* operation, which otherwise reads the row again.  The read counts as part of
\* this step, which can only make the projection older than it is.
AfterUnlock(p) ==
    LET upgrade == proc[p].op = "upgrade"
    IN CASE proc[p].ok /\ ~upgrade -> [proc EXCEPT ![p].pc = "project", ![p].reg = row, ![p].work = "none"]
         [] ~proc[p].ok /\ upgrade -> [proc EXCEPT ![p].pc = "reread", ![p].work = "none"]
         [] OTHER -> Ended(p)

Unlock(p) ==
    /\ At(p, "unlock")
    /\ lock' = IF lock = p THEN Free ELSE lock
    /\ proc' = AfterUnlock(p)
    /\ UNCHANGED <<row, schema, proj, cluster, history>>

\* The error is only logged; the lock is kept until its lease ends.
UnlockFails(p) ==
    /\ At(p, "unlock") /\ lock = p
    /\ Faulty
    /\ lock' = Orphan
    /\ proc' = AfterUnlock(p)
    /\ UNCHANGED <<row, schema, proj, cluster>>

\* reconcileCurrentNodeProjection, from the row the process has read, ends the pass.
Project(p) ==
    /\ At(p, "project")
    /\ proj' = [proj EXCEPT ![proc[p].node] = [gen |-> proc[p].reg.gen, state |-> proc[p].reg.current]]
    /\ proc' = Ended(p)
    /\ UNCHANGED <<row, schema, cluster, lock, history>>

\* The projection is not written, or it is "failed" because the manifest or the
\* frontend bundle of the enabled plugin does not load on this node just now.
ProjectFails(p) ==
    LET reg == proc[p].reg
    IN /\ At(p, "project")
       /\ Faulty
       /\ proj' \in {proj} \cup (IF reg.inst /\ reg.en
                                THEN {[proj EXCEPT ![proc[p].node] = [gen |-> reg.gen, state |-> "failed"]]}
                                ELSE {})
       /\ proc' = Ended(p)
       /\ UNCHANGED <<row, schema, cluster, lock>>

-----------------------------------------------------------------------------
(* Time, failures and leadership. *)

\* A reconciling row, and every copy of it, becomes stale.
Age ==
    /\ row.fresh
    /\ row' = [row EXCEPT !.fresh = FALSE]
    /\ proc' = [p \in Procs |-> [proc[p] EXCEPT !.reg.fresh = FALSE]]
    /\ UNCHANGED <<schema, proj, cluster, lock, history>>

LeaseEnds ==
    /\ lock = Orphan
    /\ lock' = Free
    /\ UNCHANGED <<row, schema, proj, cluster, proc, history>>

Crash(n) ==
    LET died == {p \in Procs : proc[p].node = n}
    IN /\ up[n]
       /\ Faulty
       /\ up' = [up EXCEPT ![n] = FALSE]
       /\ proc' = [p \in Procs |-> IF p \in died THEN Idle(p) ELSE proc[p]]
       /\ lock' = IF lock \in died THEN Orphan ELSE lock
       /\ UNCHANGED <<row, schema, proj, primary>>

Restart(n) ==
    /\ ~up[n]
    /\ up' = [up EXCEPT ![n] = TRUE]
    /\ UNCHANGED <<row, schema, proj, primary, lock, proc, history>>

\* Another node becomes primary: the old one is down, or loses its lease.
Elect(n) ==
    /\ n # primary /\ up[n]
    /\ primary' = n
    /\ IF up[primary] THEN Faulty ELSE UNCHANGED history
    /\ UNCHANGED <<row, schema, proj, up, lock, proc>>

-----------------------------------------------------------------------------
Pass(p) ==
    \/ Lock(p) \/ LockHeld(p) \/ RecoverStale(p)
    \/ Mark(p) \/ Side(p) \/ Finalize(p) \/ Rollback(p) \/ MarkFailed(p)
    \/ Unlock(p) \/ Project(p)

Failure(p) ==
    \/ LockFails(p) \/ RecoverFails(p) \/ MarkFails(p) \/ SideFails(p)
    \/ FinalizeFails(p) \/ NotifyFails(p) \/ UnlockFails(p) \/ ProjectFails(p)

RequestFailure(r) == RecordFails(r) \/ MarkRunningFails(r) \/ RestoreUpgradeFails(r)

Request(r) == Record(r) \/ MarkRunning(r) \/ Enter(r) \/ Reread(r) \/ RestoreUpgrade(r)

Time == Age \/ LeaseEnds \/ \E n \in Nodes : Restart(n)

Next ==
    \/ \E p \in Procs : Pass(p) \/ Failure(p)
    \/ \E r \in Requests : \/ Request(r) \/ RequestFailure(r)
                           \/ \E n \in Nodes, op \in Ops : Begin(r, n, op)
    \/ \E n \in Nodes : Tick(n) \/ Crash(n) \/ Elect(n)
    \/ Time

Spec == Init /\ [][Next]_vars

\* Processes go on, safety sweeps come, nodes restart and time passes; a mutex
\* is handed in turn to those who wait for it.
Fairness ==
    /\ \A p \in Procs : WF_vars(Pass(p))
    /\ \A r \in Requests : SF_vars(Request(r))
    /\ \A n \in Nodes : SF_vars(Tick(n))
    /\ WF_vars(Time)

FairSpec == Spec /\ Fairness

-----------------------------------------------------------------------------
(* Properties. *)

Working(p) == proc[p].pc \in {"recover", "mark", "side", "finalize", "rollback", "failed"}

\* One executor at a time is in the lifecycle side effects of the plugin, on
\* whichever node and whoever is primary (plugin-runtime-loading/spec.md:362).
SideEffectsExclusive ==
    \A p, q \in Procs : Working(p) /\ Working(q) => p = q

\* Without faults and upgrades the tables exist exactly while the row says that
\* the plugin is installed: whatever is requested meanwhile, an executor ends
\* the work it began, and no other one acts on a row read before that.
SchemaMatches == calm /\ row.current \in Host => schema = row.inst

\* A row never stays at "reconciling": its executor ends, or after a crash a
\* later tick of a primary restores it (plugin-runtime-loading/spec.md:334).
ReconcilingEnds == row.current = "reconciling" ~> row.current # "reconciling"

\* In the end every node that runs has projected the row as it is, whatever
\* failed and whichever wake-up it missed (plugin-runtime-loading/spec.md:105).
NodesConverge ==
    <>[](\A n \in Nodes : up[n] => proj[n] = [gen |-> row.gen, state |-> row.current])

\* In the end the plugin is in the state its row wants, whichever node took the
\* request, and whatever failed; a staged newer version holds everything but an
\* uninstall back (plugin-runtime-loading/spec.md:108).
DesiredReached ==
    <>[](\/ Stable(row) = row.desired
         \/ row.inst /\ row.drift /\ row.desired # "uninstalled")

\* What the comment on updateDesiredState says (runtime_registry_lifecycle.go:18):
\* it records the intent the reconciler should converge to.  While nothing
\* fails, only another request replaces a recorded intent.
IntentKept ==
    [][calm' /\ row'.desired # row.desired => \E r \in Requests : At(r, "record")]_vars

=============================================================================
