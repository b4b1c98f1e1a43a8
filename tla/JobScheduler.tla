----------------------------- MODULE JobScheduler -----------------------------
(***************************************************************************)
(* The persistent job scheduler of internal/service/jobmgmt (package       *)
(* jobmgmt and its internal/scheduler), for one user-defined shell job:    *)
(* its row of sys_job, the running rows of sys_job_log, and on every node  *)
(* the gcron entry, the count of busy slots and the executions in flight.  *)
(*                                                                         *)
(* Several things happen at once.  Cron callbacks (runCronJob) run on      *)
(* every node that has the entry, overlapping with themselves, and claim   *)
(* one execution of the job's quota with a compare-and-set on the row.     *)
(* Administrators create, enable, disable, reset, update and delete the    *)
(* job through any node, and they and the retention task delete log rows.  *)
(* Nodes crash and restart.  Database statements fail, before they have    *)
(* taken effect or after.  All statements are separate steps: nothing of   *)
(* this runs in a transaction.                                             *)
(***************************************************************************)
EXTENDS Integers, FiniteSets

CONSTANTS
    Nodes,           \* the processes of the cluster
    Nowhere,         \* the node of a call or a request that is idle
    Calls,           \* job goroutines in flight, cron or manual
    Admins,          \* administration requests in flight
    Ops,             \* the administration operations that are used
    Settings,        \* the scopes, quotas and limits a job may be given
    MaxLogs,         \* bound on the log rows of a behaviour
    MaxFaults        \* bound on crashes and database errors

AllOps == {"create", "enable", "disable", "reset", "update", "delete"}

ASSUME SchedulerAssumption ==
    /\ Nowhere \notin Nodes
    /\ Ops \subseteq AllOps
    /\ Settings # {}
    /\ Settings \subseteq [master : BOOLEAN,      \* scope = master_only (otherwise all_node)
                            quota : Nat,           \* max_executions; 0: unlimited
                            limit : Nat \ {0}]     \* slots per node
    /\ MaxLogs \in Nat /\ MaxFaults \in Nat
    /\ IsFiniteSet(Calls)

VARIABLES
    status,      \* sys_job.status; "absent" before Create
    settings,    \* its scope, max_executions, and concurrency with max_concurrency
    count,       \* sys_job.executed_count
    running,     \* running rows of sys_job_log, as [id, node]
    nextLog,     \* the next id of sys_job_log
    phase,       \* node: "down", "load" (logs reclaimed), "up"
    entry,       \* node: gcron has the job's entry
    slots,       \* node: runningCounts[job]
    call,        \* call: where runCronJob or executeJob is, and its locals
    req,         \* admin: where its request is, and its locals
    claims,      \* quota claims since the last reset (history)
    orphans,     \* ids whose insert or closing update failed (history)
    cleared,     \* ids of running rows that were deleted (history)
    faults       \* faults so far

rowVars  == <<status, settings, count, claims>>
logVars  == <<running, nextLog, orphans, cleared>>
nodeVars == <<phase, entry, slots>>
vars     == <<rowVars, logVars, nodeVars, call, req, faults>>

Status == {"absent", "enabled", "disabled", "deleted"}

CallState ==
    [pc   : {"idle", "scope", "slot", "quota", "create", "remove", "exec", "free", "drop"},
     at   : Nodes \cup {Nowhere},
     job  : Settings,   \* the settings in the copy of the row it read
     seen : Nat,        \* executed_count in that copy
     last : BOOLEAN,    \* shouldRemove
     slot : BOOLEAN,    \* release gives a slot back
     log  : Nat]        \* log id

Request ==
    [pc   : {"idle", "write", "remove", "reload", "add", "unregister"},
     op   : AllOps,
     at   : Nodes \cup {Nowhere},
     was  : Status,     \* status it read
     seen : Nat]        \* executed_count it read

AnySettings == CHOOSE s \in Settings : TRUE

IdleCall == [pc |-> "idle", at |-> Nowhere, job |-> AnySettings, seen |-> 0,
             last |-> FALSE, slot |-> FALSE, log |-> 0]
IdleReq  == [pc |-> "idle", op |-> "create", at |-> Nowhere,
             was |-> "absent", seen |-> 0]

TypeOK ==
    /\ status \in Status
    /\ settings \in Settings
    /\ count \in Nat
    /\ running \subseteq [id : Nat, node : Nodes]
    /\ nextLog \in Nat
    /\ phase \in [Nodes -> {"down", "load", "up"}]
    /\ entry \in [Nodes -> BOOLEAN]
    /\ slots \in [Nodes -> Nat]
    /\ call \in [Calls -> CallState]
    /\ req \in [Admins -> Request]
    /\ claims \in Nat
    /\ orphans \subseteq Nat /\ cleared \subseteq Nat
    /\ faults \in Nat

Init ==
    /\ status = "absent" /\ settings = AnySettings
    /\ count = 0
    /\ running = {}
    /\ nextLog = 1
    /\ phase = [n \in Nodes |-> "down"]
    /\ entry = [n \in Nodes |-> FALSE]
    /\ slots = [n \in Nodes |-> 0]
    /\ call = [c \in Calls |-> IdleCall]
    /\ req = [a \in Admins |-> IdleReq]
    /\ claims = 0
    /\ orphans = {} /\ cleared = {}
    /\ faults = 0

Fault == faults < MaxFaults /\ faults' = faults + 1

-----------------------------------------------------------------------------
(* A node starts: LoadAndRegister, before the HTTP server does. *)

\* Mutant of Reclaim: the update does not compare node_id.
Reclaim_AllNodes(n) ==
    /\ phase[n] = "down"
    /\ running' = {}
    /\ phase' = [phase EXCEPT ![n] = "load"]
    /\ UNCHANGED <<rowVars, nextLog, orphans, cleared, entry, slots, call, req, faults>>

\* reclaimOrphanRunningLogs; its error is only logged.
Reclaim(n) ==
    /\ phase[n] = "down"
    /\ LET mine == {r \in running : r.node = n}
       IN \/ running' = running \ mine /\ UNCHANGED <<orphans, faults>>
          \/ /\ Fault
             /\ orphans' = orphans \cup {r.id : r \in mine}
             /\ UNCHANGED running
    /\ phase' = [phase EXCEPT ![n] = "load"]
    /\ UNCHANGED <<rowVars, nextLog, cleared, entry, slots, call, req>>

\* listEnabledJobs and registerJob.
Load(n) ==
    /\ phase[n] = "load"
    /\ phase' = [phase EXCEPT ![n] = "up"]
    /\ entry' = [entry EXCEPT ![n] = status = "enabled"]
    /\ UNCHANGED <<rowVars, logVars, slots, call, req, faults>>

\* The process dies with everything it has in memory.
Crash(n) ==
    /\ phase[n] # "down"
    /\ Fault
    /\ phase' = [phase EXCEPT ![n] = "down"]
    /\ entry' = [entry EXCEPT ![n] = FALSE]
    /\ slots' = [slots EXCEPT ![n] = 0]
    /\ call' = [c \in Calls |-> IF call[c].at = n THEN IdleCall ELSE call[c]]
    /\ req' = [a \in Admins |-> IF req[a].at = n THEN IdleReq ELSE req[a]]
    /\ UNCHANGED <<rowVars, logVars>>

-----------------------------------------------------------------------------
(* runCronJob. *)

At(c, label) == call[c].pc = label
Goto(c, label) == call' = [call EXCEPT ![c].pc = label]
Return(c) == call' = [call EXCEPT ![c] = IdleCall]

\* Calls start only while there are log ids left for all in flight.
MayStart == nextLog + Cardinality({c \in Calls : ~At(c, "idle")}) <= MaxLogs

\* The gcron entry fires; getJob finds the job enabled.
Fire(c) ==
    /\ At(c, "idle") /\ MayStart
    /\ status = "enabled"
    /\ \E n \in Nodes :
          /\ phase[n] = "up" /\ entry[n]
          /\ call' = [call EXCEPT ![c].pc = "scope", ![c].at = n,
                                  ![c].job = settings, ![c].seen = count]
    /\ UNCHANGED <<rowVars, logVars, nodeVars, req, faults>>

\* master_only on a node that is not primary: a skipped log row, and out.
SkipNotPrimary(c) ==
    /\ At(c, "scope")
    /\ call[c].job.master
    /\ Return(c)
    /\ UNCHANGED <<rowVars, logVars, nodeVars, req, faults>>

\* all_node, or IsPrimary answers true.
PassScope(c) ==
    /\ At(c, "scope")
    /\ Goto(c, "slot")
    /\ UNCHANGED <<rowVars, logVars, nodeVars, req, faults>>

\* Mutant of AcquireSlot: off by one.
AcquireSlot_OneMore(c) ==
    LET n == call[c].at IN
    /\ At(c, "slot")
    /\ \/ /\ slots[n] <= call[c].job.limit
          /\ slots' = [slots EXCEPT ![n] = @ + 1]
          /\ call' = [call EXCEPT ![c].pc = "quota", ![c].slot = TRUE]
       \/ /\ slots[n] > call[c].job.limit
          /\ Return(c)
          /\ UNCHANGED slots
    /\ UNCHANGED <<rowVars, logVars, phase, entry, req, faults>>

\* acquireSlot, both outcomes; a full job leaves a skipped log row.
AcquireSlot(c) ==
    LET n == call[c].at IN
    /\ At(c, "slot")
    /\ \/ /\ slots[n] < call[c].job.limit
          /\ slots' = [slots EXCEPT ![n] = @ + 1]
          /\ call' = [call EXCEPT ![c].pc = "quota", ![c].slot = TRUE]
       \/ /\ slots[n] >= call[c].job.limit
          /\ Return(c)
          /\ UNCHANGED slots
    /\ UNCHANGED <<rowVars, logVars, phase, entry, req, faults>>

Exhausted(job, k) == job.quota > 0 /\ k >= job.quota

\* The copy of the row has used up the quota, or the execution it claims will.
UsedUp(c)  == Exhausted(call[c].job, call[c].seen)
LastOne(c) == Exhausted(call[c].job, call[c].seen + 1)

\* disableForMaxExecutions: the UPDATE.
DisableRow ==
    /\ status' = IF status = "enabled" THEN "disabled" ELSE status
    /\ UNCHANGED <<settings, count, claims>>

\* Mutant of Matches: the update compares the status only.
Matches_StatusOnly(c) == status = "enabled"

\* The row still is as the call has read it.
Matches(c) == status = "enabled" /\ count = call[c].seen

\* prepareCronQuota: the UPDATE takes one execution, and disables the job with
\* the last one.
ClaimRow(c) ==
    /\ count' = count + 1
    /\ claims' = claims + 1
    /\ status' = IF LastOne(c) THEN "disabled" ELSE status
    /\ UNCHANGED settings

\* prepareCronQuota when the copy of the row has used up the quota.
DisableExhausted(c) ==
    /\ At(c, "quota") /\ UsedUp(c)
    /\ DisableRow
    /\ call' = [call EXCEPT ![c].pc = "free", ![c].last = status = "enabled"]
    /\ UNCHANGED <<logVars, nodeVars, req, faults>>

\* prepareCronQuota: the UPDATE finds the row as it was read.
Claim(c) ==
    /\ At(c, "quota") /\ ~UsedUp(c)
    /\ Matches(c)
    /\ ClaimRow(c)
    /\ call' = [call EXCEPT ![c].pc = "create", ![c].last = LastOne(c)]
    /\ UNCHANGED <<logVars, nodeVars, req, faults>>

\* prepareCronQuota: no row affected.
ClaimLost(c) ==
    /\ At(c, "quota") /\ ~UsedUp(c)
    /\ ~Matches(c)
    /\ Goto(c, "free")
    /\ UNCHANGED <<rowVars, logVars, nodeVars, req, faults>>

Released(c) == call' = [call EXCEPT ![c].pc = "free", ![c].last = FALSE]

\* prepareCronQuota fails; its UPDATE may have taken effect.
QuotaFails(c) ==
    /\ At(c, "quota")
    /\ Fault
    /\ \/ UNCHANGED rowVars
       \/ UsedUp(c) /\ DisableRow
       \/ ~UsedUp(c) /\ Matches(c) /\ ClaimRow(c)
    /\ Released(c)
    /\ UNCHANGED <<logVars, nodeVars, req>>

\* createRunningLog inserts a running row for an execution on node n.
NewRow(n) ==
    /\ running' = running \cup {[id |-> nextLog, node |-> n]}
    /\ nextLog' = nextLog + 1
    /\ UNCHANGED cleared

NewLog(n) == NewRow(n) /\ UNCHANGED orphans

\* The reply to the INSERT is lost: a running row that no execution will close.
LostLog(n) == NewRow(n) /\ orphans' = orphans \cup {nextLog}

\* createExecution fails.
CreateFails(c) ==
    /\ At(c, "create")
    /\ Fault
    /\ UNCHANGED logVars \/ LostLog(call[c].at)
    /\ Released(c)
    /\ UNCHANGED <<rowVars, nodeVars, req>>

\* createExecution and storeRunningExecution.
CreateExecution(c) ==
    /\ At(c, "create")
    /\ NewLog(call[c].at)
    /\ call' = [call EXCEPT ![c].pc = IF call[c].last THEN "remove" ELSE "exec",
                            ![c].log = nextLog]
    /\ UNCHANGED <<rowVars, nodeVars, req, faults>>

\* Mutant: Remove waits for the callbacks of the entry, its own among them.
RemoveLast_Waits(c) ==
    /\ At(c, "remove") /\ slots[call[c].at] = 0
    /\ entry' = [entry EXCEPT ![call[c].at] = FALSE]
    /\ Goto(c, "exec")
    /\ UNCHANGED <<rowVars, logVars, phase, slots, req, faults>>

\* Remove after the last execution was claimed.
RemoveLast(c) ==
    /\ At(c, "remove")
    /\ entry' = [entry EXCEPT ![call[c].at] = FALSE]
    /\ Goto(c, "exec")
    /\ UNCHANGED <<rowVars, logVars, phase, slots, req, faults>>

\* Trigger: a manual execution takes no slot and no quota.
Trigger(c) ==
    /\ At(c, "idle") /\ MayStart
    /\ status \in {"enabled", "disabled"}
    /\ \E n \in Nodes :
          /\ phase[n] = "up"
          /\ NewLog(n)
          /\ call' = [call EXCEPT ![c].pc = "exec", ![c].at = n, ![c].log = nextLog]
    /\ UNCHANGED <<rowVars, nodeVars, req, faults>>

\* Its createExecution fails, and the row is there.
TriggerFails ==
    /\ MayStart
    /\ status \in {"enabled", "disabled"}
    /\ Fault
    /\ \E n \in Nodes : phase[n] = "up" /\ LostLog(n)
    /\ UNCHANGED <<rowVars, nodeVars, call, req>>

\* executeJob: dispatch ends (result, error, timeout, cancellation or panic)
\* and finishLog closes the row if it is still there; its error is only logged.
Finish(c) ==
    /\ At(c, "exec")
    /\ \/ /\ running' = {r \in running : r.id # call[c].log}
          /\ UNCHANGED <<orphans, faults>>
       \/ /\ Fault
          /\ orphans' = orphans \cup {call[c].log}
          /\ UNCHANGED running
    /\ Released(c)
    /\ UNCHANGED <<rowVars, nextLog, cleared, nodeVars, req>>

\* Mutant of Free: a manual execution releases a slot as well.
Free_AnyCall(c) ==
    /\ At(c, "free")
    /\ slots' = [slots EXCEPT ![call[c].at] = @ - 1]
    /\ IF call[c].last
          THEN call' = [call EXCEPT ![c].pc = "drop", ![c].slot = FALSE]
          ELSE Return(c)
    /\ UNCHANGED <<rowVars, logVars, phase, entry, req, faults>>

\* finishRunningExecution, or release() on a way out of runCronJob.
Free(c) ==
    /\ At(c, "free")
    /\ slots' = [slots EXCEPT ![call[c].at] = IF call[c].slot THEN @ - 1 ELSE @]
    /\ IF call[c].last
          THEN call' = [call EXCEPT ![c].pc = "drop", ![c].slot = FALSE]
          ELSE Return(c)
    /\ UNCHANGED <<rowVars, logVars, phase, entry, req, faults>>

\* Remove after disableForMaxExecutions.
RemoveExhausted(c) ==
    /\ At(c, "drop")
    /\ entry' = [entry EXCEPT ![call[c].at] = FALSE]
    /\ Return(c)
    /\ UNCHANGED <<rowVars, logVars, phase, slots, req, faults>>

\* ClearLogs and CleanupDueLogs delete rows by id, job or age, whatever their
\* status.
ClearLogs ==
    /\ \E rows \in SUBSET running :
          /\ rows # {}
          /\ running' = running \ rows
          /\ cleared' = cleared \cup {r.id : r \in rows}
    /\ UNCHANGED <<rowVars, nextLog, orphans, nodeVars, call, req, faults>>

-----------------------------------------------------------------------------
(* The administration requests.  jobByID is their first step; for a job    *)
(* that is not there they return an error and change nothing.              *)

Exists == status \in {"enabled", "disabled"}

\* What the INSERT, the UPDATEs and the DELETE do to the row; one that is gone
\* stays gone.
InsertRow ==
    /\ status = "absent"
    /\ status' \in {"enabled", "disabled"}
    /\ settings' \in Settings
    /\ UNCHANGED <<count, claims>>

\* UpdateJob writes the whole row, with the executed_count it read before.
SaveRow(a, s) ==
    /\ IF Exists THEN status' = s /\ settings' \in Settings /\ count' = req[a].seen
                 ELSE UNCHANGED <<status, settings, count>>
    /\ UNCHANGED claims

WriteStatus(s) ==
    /\ status' = IF Exists THEN s ELSE status
    /\ UNCHANGED <<settings, count, claims>>

ResetRow ==
    /\ IF Exists THEN count' = 0 /\ claims' = 0 ELSE UNCHANGED <<count, claims>>
    /\ UNCHANGED <<status, settings>>

\* The request writes next, or does, and goes on at label.
Writes(a, op) == req[a].pc = "write" /\ req[a].op = op
Then(a, label) ==
    req' = [req EXCEPT ![a] = IF label = "idle" THEN IdleReq ELSE [@ EXCEPT !.pc = label]]

Receive(a) ==
    /\ req[a].pc = "idle"
    /\ \E n \in Nodes, op \in Ops :
          /\ phase[n] = "up"
          /\ IF op = "create" THEN status = "absent" ELSE Exists
          /\ req' = [req EXCEPT ![a] = [pc |-> "write", op |-> op, at |-> n,
                                        was |-> status, seen |-> count]]
    /\ UNCHANGED <<rowVars, logVars, nodeVars, call, faults>>

\* CreateJob; the name is taken once the row is there.
CreateJob(a) ==
    /\ Writes(a, "create")
    /\ \/ /\ InsertRow
          /\ Then(a, IF status' = "enabled" THEN "remove" ELSE "idle")
       \/ /\ status # "absent"
          /\ Then(a, "idle")
          /\ UNCHANGED rowVars
    /\ UNCHANGED <<logVars, nodeVars, call, faults>>

UpdateJob(a) ==
    /\ Writes(a, "update")
    /\ \E s \in {"enabled", "disabled"} :
          /\ SaveRow(a, s)
          /\ Then(a, IF s = "enabled" THEN "remove" ELSE "unregister")
    /\ UNCHANGED <<logVars, nodeVars, call, faults>>

\* UpdateJobStatus.
Enable(a) ==
    /\ Writes(a, "enable")
    /\ WriteStatus("enabled")
    /\ Then(a, "remove")
    /\ UNCHANGED <<logVars, nodeVars, call, faults>>

Disable(a) ==
    /\ Writes(a, "disable")
    /\ WriteStatus("disabled")
    /\ Then(a, "unregister")
    /\ UNCHANGED <<logVars, nodeVars, call, faults>>

\* ResetJob; it refreshes a job that was enabled when it was read.
ResetJob(a) ==
    /\ Writes(a, "reset")
    /\ ResetRow
    /\ Then(a, IF req[a].was = "enabled" THEN "remove" ELSE "idle")
    /\ UNCHANGED <<logVars, nodeVars, call, faults>>

DeleteJob(a) ==
    /\ Writes(a, "delete")
    /\ WriteStatus("deleted")
    /\ Then(a, "unregister")
    /\ UNCHANGED <<logVars, nodeVars, call, faults>>

\* The write fails, perhaps after it has taken effect, and the request returns
\* its error: the scheduler is not told.
WriteFails(a) ==
    /\ req[a].pc = "write"
    /\ Fault
    /\ \/ UNCHANGED rowVars
       \/ req[a].op = "create" /\ InsertRow
       \/ req[a].op = "update" /\ \E s \in {"enabled", "disabled"} : SaveRow(a, s)
       \/ req[a].op = "enable" /\ WriteStatus("enabled")
       \/ req[a].op = "disable" /\ WriteStatus("disabled")
       \/ req[a].op = "reset" /\ ResetRow
       \/ req[a].op = "delete" /\ WriteStatus("deleted")
    /\ Then(a, "idle")
    /\ UNCHANGED <<logVars, nodeVars, call>>

\* Remove at the end of a disable, an update or a delete.
Unregister(a) ==
    /\ req[a].pc = "unregister"
    /\ entry' = [entry EXCEPT ![req[a].at] = FALSE]
    /\ Then(a, "idle")
    /\ UNCHANGED <<rowVars, logVars, phase, slots, call, faults>>

\* Refresh: Remove the entry ...
RefreshRemove(a) ==
    /\ req[a].pc = "remove"
    /\ entry' = [entry EXCEPT ![req[a].at] = FALSE]
    /\ Then(a, "reload")
    /\ UNCHANGED <<rowVars, logVars, phase, slots, call, faults>>

\* ... read the row ...
RefreshReload(a) ==
    /\ req[a].pc = "reload"
    /\ Then(a, IF status = "enabled" THEN "add" ELSE "idle")
    /\ UNCHANGED <<rowVars, logVars, nodeVars, call, faults>>

\* ... and registerJob.  gcron.Add fails when there is an entry already.
RefreshAdd(a) ==
    /\ req[a].pc = "add"
    /\ entry' = [entry EXCEPT ![req[a].at] = TRUE]
    /\ Then(a, "idle")
    /\ UNCHANGED <<rowVars, logVars, phase, slots, call, faults>>

\* getJob or registerJob fails: the entry has been removed.
RefreshFails(a) ==
    /\ req[a].pc \in {"reload", "add"}
    /\ Fault
    /\ Then(a, "idle")
    /\ UNCHANGED <<rowVars, logVars, nodeVars, call>>

-----------------------------------------------------------------------------
\* What a call does once it has started.
Run(c) ==
    \/ PassScope(c) \/ AcquireSlot(c) \/ DisableExhausted(c) \/ Claim(c)
    \/ ClaimLost(c) \/ CreateExecution(c) \/ RemoveLast(c) \/ Finish(c)
    \/ Free(c) \/ RemoveExhausted(c)

Serve(a) ==
    \/ CreateJob(a) \/ UpdateJob(a) \/ Enable(a) \/ Disable(a) \/ ResetJob(a)
    \/ DeleteJob(a) \/ Unregister(a) \/ RefreshRemove(a) \/ RefreshReload(a) \/ RefreshAdd(a)

Next ==
    \/ \E n \in Nodes : Reclaim(n) \/ Load(n) \/ Crash(n)
    \/ \E c \in Calls :
          \/ Fire(c) \/ Trigger(c) \/ SkipNotPrimary(c) \/ Run(c)
          \/ QuotaFails(c) \/ CreateFails(c)
    \/ \E a \in Admins : Receive(a) \/ Serve(a) \/ WriteFails(a) \/ RefreshFails(a)
    \/ TriggerFails \/ ClearLogs

Spec == Init /\ [][Next]_vars

\* Started calls and requests run on: statements return, and a shell command
\* ends or is killed when the job's timeout cancels its context.
Fairness ==
    /\ \A c \in Calls : WF_vars(Run(c))
    /\ \A a \in Admins : WF_vars(Serve(a))

FairSpec == Spec /\ Fairness

-----------------------------------------------------------------------------
(* Properties. *)

\* Between two resets the job claims at most max_executions executions,
\* however many nodes fire at once (the compare-and-set of prepareCronQuota),
\* and whichever reply of it is lost.
QuotaRespected == settings.quota > 0 => claims <= settings.quota

HoldsSlot(c) == call[c].slot /\ call[c].pc \in {"quota", "create", "remove", "exec", "free"}

\* The calls on node n that hold a slot under a limit of at most k.
Holders(n, k) == {c \in Calls : call[c].at = n /\ HoldsSlot(c) /\ call[c].job.limit <= k}

\* runningCounts counts exactly the calls that still have to give their slot
\* back: no way out of runCronJob or executeJob leaks or returns one twice.
\* And of those that were let in under a limit of at most k a node never runs
\* more than k at once, whatever the limit was or becomes.
SlotsExact ==
    \A n \in Nodes :
        /\ slots[n] = Cardinality({c \in Calls : call[c].at = n /\ HoldsSlot(c)})
        /\ \A s \in Settings : Cardinality(Holders(n, s.limit)) <= s.limit

Executing(c) == call[c].pc \in {"remove", "exec"}

\* The running rows of the nodes that are up are the executions in flight:
\* reclaiming at startup never closes the row of a live execution, of this or
\* another node, which only an administrator or the retention task deletes;
\* and no row stays running unless its insert or its closing update failed.
RowsMatchExecutions ==
    /\ \A c \in Calls : Executing(c) =>
          [id |-> call[c].log, node |-> call[c].at] \in running \/ call[c].log \in cleared
    /\ \A r \in running :
          \/ phase[r.node] = "down"
          \/ r.id \in orphans
          \/ \E c \in Calls : Executing(c) /\ call[c].log = r.id /\ call[c].at = r.node

\* A slot that is taken is given back: the number of busy slots of a node never
\* stands still above zero.
SlotFrees == \A n \in Nodes, k \in 1..Cardinality(Calls) : slots[n] = k ~> slots[n] # k

\* What the spec says of the gcron registry: with nothing in flight, an
\* enabled job with quota left has its entry on every running node.
EnabledIsRegistered ==
    /\ \A a \in Admins : req[a].pc = "idle"
    /\ \A c \in Calls : At(c, "idle")
    /\ status = "enabled" /\ ~Exhausted(settings, count)
    => \A n \in Nodes : phase[n] = "up" => entry[n]

\* What the spec says of all_node jobs: a tick that passed the scope and slot
\* checks of a job that is still enabled and has quota left runs the job.
TickRuns ==
    [][\A c \in Calls :
          At(c, "quota") /\ At(c, "free")' =>
              status # "enabled" \/ UsedUp(c) \/ faults' > faults]_vars
=============================================================================
