------------------------ MODULE PluginReconcilerProofs ------------------------
(***************************************************************************)
(* Proofs about PluginReconciler, for every set of nodes and requests and  *)
(* any number of requests, failures, crashes and changes of the primary.   *)
(***************************************************************************)
EXTENDS PluginReconciler, TLAPS

USE PluginAssumption

\* The row a process has read is a row, and so is what it writes.
LEMMA RowTyped ==
    ASSUME NEW r \in Row PROVE Updated(r) \in Row /\ Stable(r) \in Host
BY DEF Row, Updated, Stable, Host

LEMMA RestoredTyped ==
    ASSUME NEW r \in Row, NEW reg \in Row PROVE Restored(r, reg) \in Row
<1>1. Stable(reg) \in Host
  BY RowTyped
<1>2. [r EXCEPT !.inst = reg.inst, !.en = reg.en,
                !.desired = Stable(reg), !.current = Stable(reg)] \in Row
  BY <1>1 DEF Row, Host
<1> QED BY <1>2, RowTyped DEF Restored

LEMMA TargetTyped ==
    ASSUME TypeOK, NEW p \in Procs PROVE Target(p) \in Host
<1>1. proc[p].reg \in Row
  BY DEF TypeOK, ProcState
<1> QED BY <1>1, RowTyped DEF Target, Row

LEMMA MarkedTyped ==
    ASSUME TypeOK, NEW p \in Procs PROVE Marked(row, p) \in Row
<1>1. Target(p) \in Host
  BY TargetTyped
<1>2. [row EXCEPT !.desired = Target(p), !.current = "reconciling",
                  !.en = @ /\ proc[p].work # "uninstall"] \in Row
  BY <1>1 DEF TypeOK, Row
<1> QED BY <1>2, RowTyped DEF Marked

LEMMA FinalizedTyped ==
    ASSUME TypeOK, NEW p \in Procs PROVE Finalized(row, p) \in Row
<1> DEFINE w == proc[p].work
           en == w # "uninstall" /\ Target(p) = "enabled"
           inst == w # "uninstall"
           state == Stable([inst |-> inst, en |-> en])
<1>1. state \in Host
  BY DEF Stable, Host
<1>2. proc[p].reg.gen + 1 \in Nat
  BY DEF TypeOK, ProcState, Row
<1>3. [row EXCEPT !.inst = inst, !.en = en, !.desired = state, !.current = state,
                  !.gen = proc[p].reg.gen + 1,
                  !.drift = IF w = "uninstall" THEN @ ELSE FALSE] \in Row
  <2> HIDE DEF state
  <2>1. inst \in BOOLEAN /\ en \in BOOLEAN
    OBVIOUS
  <2> HIDE DEF inst, en, w
  <2> QED BY <1>1, <1>2, <2>1 DEF TypeOK, Row
<1> QED BY <1>3, RowTyped DEF Finalized

LEMMA IdleTyped == ASSUME NEW p \in Procs PROVE Idle(p) \in ProcState
<1>1. NoRow \in Row
  BY DEF NoRow, Row, Host
<1>2. p \in Nodes => p \in Nodes \cup {Nowhere}
  OBVIOUS
<1> QED BY <1>1 DEF Idle, ProcState

HistoryTyped == calm \in BOOLEAN /\ begun \in 0..MaxRequests /\ faults \in 0..MaxFaults

LEMMA FaultTyped == ASSUME TypeOK, Faulty PROVE HistoryTyped'
<1>1. faults' \in 0..MaxFaults
  BY DEF TypeOK, Faulty
<1> QED BY <1>1 DEF TypeOK, Faulty, HistoryTyped

LEMMA NoFaultTyped == ASSUME TypeOK, UNCHANGED history PROVE HistoryTyped'
BY DEF TypeOK, history, HistoryTyped

\* The variables always have their types.
THEOREM TypeCorrect == Spec => []TypeOK
<1>1. Init => TypeOK
  <2> SUFFICES ASSUME Init PROVE TypeOK
    OBVIOUS
  <2>1. NoRow \in Row /\ NoRow.gen = 1
    BY DEF NoRow, Row, Host
  <2>2. row \in Row /\ row.gen \in Nat /\ row.current \in Host
    <3>1. PICK inst \in BOOLEAN, drift \in Drifts :
            LET state == IF inst THEN "installed" ELSE "uninstalled"
            IN row = [NoRow EXCEPT !.inst = inst, !.drift = drift, !.desired = state, !.current = state]
      BY DEF Init
    <3>2. drift \in BOOLEAN
      OBVIOUS
    <3> QED BY <3>1, <3>2 DEF NoRow, Row, Host
  <2>3. \A p \in Procs : Idle(p) \in ProcState
    BY <2>1 DEF Idle, ProcState, Procs
  <2>4. schema \in BOOLEAN
    BY DEF Init
  <2> QED BY <2>2, <2>3, <2>4 DEF Init, TypeOK
<1>2. TypeOK /\ [Next]_vars => TypeOK'
  <2> SUFFICES ASSUME TypeOK, [Next]_vars PROVE TypeOK'
    OBVIOUS
  <2> DEFINE Typed(v) == v \in [Procs -> ProcState]
  <2>0. row \in Row /\ Typed(proc)
    BY DEF TypeOK
  <2>1. ASSUME NEW p \in Procs, Lock(p) \/ LockHeld(p) PROVE TypeOK'
    <3>1. WorkFor(proc[p].reg) \in {"none", "recover", "install", "toggle", "uninstall", "upgrade"}
      BY DEF WorkFor, Recovery, Selected
    <3>2. Typed(proc')
      BY <2>0, <2>1, <3>1, IdleTyped DEF To, Fails, Ended, ProcState, Lock, LockHeld
    <3> QED BY <2>1, <3>2 DEF Lock, LockHeld, TypeOK, cluster, history
  <2>2. ASSUME NEW p \in Procs, RecoverStale(p) \/ Mark(p) \/ RecoverFails(p) \/ MarkFails(p)
        PROVE  TypeOK'
    <3>1. row' \in Row
      <4>1. Restored(row, proc[p].reg) \in Row /\ Marked(row, p) \in Row
        BY <2>0, RestoredTyped, MarkedTyped DEF ProcState
      <4> QED BY <2>0, <2>2, <4>1 DEF RecoverStale, Mark, RecoverFails, MarkFails
    <3>2. Typed(proc')
      BY <2>0, <2>2 DEF To, Fails, ProcState, RecoverStale, Mark, RecoverFails, MarkFails
    <3>3. HistoryTyped'
      BY <2>2, FaultTyped, NoFaultTyped DEF RecoverStale, Mark, RecoverFails, MarkFails
    <3> QED BY <2>2, <3>1, <3>2, <3>3
            DEF RecoverStale, Mark, RecoverFails, MarkFails, HistoryTyped, TypeOK, cluster
  <2>3. ASSUME NEW p \in Procs, Side(p) \/ SideFails(p) PROVE TypeOK'
    <3>1. Typed(proc')
      BY <2>0, <2>3, IdleTyped DEF To, Fails, Ended, ProcState, Side, SideFails
    <3>2. schema' \in BOOLEAN
      BY <2>3 DEF Side, SideFails, TypeOK
    <3>3. HistoryTyped'
      BY <2>3, FaultTyped, NoFaultTyped DEF Side, SideFails, history
    <3> QED BY <2>3, <3>1, <3>2, <3>3 DEF Side, SideFails, HistoryTyped, TypeOK, cluster
  <2>4. ASSUME NEW p \in Procs, Finalize(p) \/ NotifyFails(p) PROVE TypeOK'
    <3>1. row' \in Row
      BY <2>4, FinalizedTyped DEF Finalize, NotifyFails, FinalizeTo
    <3>2. Typed(proc')
      BY <2>0, <2>4, IdleTyped DEF To, Fails, Ended, ProcState, Finalize, NotifyFails, FinalizeTo
    <3>3. proj' \in [Nodes -> [gen : Nat, state : Host \cup {"reconciling", "failed", "upgrade_running"}]]
      BY <2>4, <3>1 DEF Finalize, NotifyFails, FinalizeTo, TypeOK, Row
    <3>4. HistoryTyped'
      BY <2>4, FaultTyped, NoFaultTyped DEF Finalize, NotifyFails
    <3> QED BY <2>4, <3>1, <3>2, <3>3, <3>4
            DEF Finalize, NotifyFails, FinalizeTo, HistoryTyped, TypeOK, cluster
  <2>5. ASSUME NEW p \in Procs, FinalizeFails(p) PROVE TypeOK'
    <3>1. Typed(proc')
      <4>1. [proc[p] EXCEPT !.pc = "unlock", !.ok = FALSE] \in ProcState
        BY <2>0 DEF ProcState
      <4> QED BY <2>0, <2>5, <4>1 DEF FinalizeFails, Fails
    <3>2. schema' \in BOOLEAN
      BY <2>5 DEF FinalizeFails, TypeOK
    <3>3. HistoryTyped'
      BY <2>5, FaultTyped DEF FinalizeFails
    <3>4. row' \in Row
      BY <2>0, <2>5, FinalizedTyped DEF FinalizeFails
    <3> QED BY <2>5, <3>1, <3>2, <3>3, <3>4 DEF FinalizeFails, HistoryTyped, TypeOK, cluster
  <2>6. ASSUME NEW p \in Procs, Rollback(p) \/ MarkFailed(p) PROVE TypeOK'
    <3>1. [row EXCEPT !.current = "failed"] \in Row
      BY <2>0 DEF Row
    <3>2. row' \in Row
      <4>1. Restored(row, proc[p].reg) \in Row
        BY <2>0, RestoredTyped DEF ProcState
      <4>2. Updated([row EXCEPT !.current = "failed"]) \in Row
        BY <3>1, RowTyped
      <4> QED BY <2>0, <2>6, <4>1, <4>2 DEF Rollback, MarkFailed
    <3>3. Typed(proc')
      <4>1. CASE Rollback(p)
        BY <2>0, <4>1, IdleTyped DEF To, Fails, Ended, ProcState, Rollback
      <4>2. CASE MarkFailed(p)
        BY <2>0, <4>2, IdleTyped DEF To, Fails, Ended, ProcState, MarkFailed
      <4> QED BY <2>6, <4>1, <4>2
    <3>4. proj' \in [Nodes -> [gen : Nat, state : Host \cup {"reconciling", "failed", "upgrade_running"}]]
      <4>1. row.gen \in Nat /\ proc[p].reg.gen \in Nat
        BY <2>0 DEF ProcState, Row
      <4>2. CASE Rollback(p)
        BY <4>1, <4>2 DEF Rollback, TypeOK
      <4>3. CASE MarkFailed(p)
        BY <4>3 DEF MarkFailed, TypeOK
      <4> QED BY <2>6, <4>2, <4>3
    <3> QED BY <2>6, <3>2, <3>3, <3>4 DEF Rollback, MarkFailed, TypeOK, cluster, history
  <2>7. ASSUME NEW p \in Procs, Unlock(p) \/ UnlockFails(p) \/ Project(p) \/ ProjectFails(p)
        PROVE  TypeOK'
    <3>1. CASE Unlock(p) \/ UnlockFails(p)
      <4>1. Typed(proc')
        <5>1. [proc[p] EXCEPT !.pc = "project", !.reg = row, !.work = "none"] \in ProcState
          BY <2>0 DEF ProcState
        <5>2. [proc[p] EXCEPT !.pc = "reread", !.work = "none"] \in ProcState
          BY <2>0 DEF ProcState
        <5>3. Typed(AfterUnlock(p))
          BY <2>0, <5>1, <5>2, IdleTyped DEF AfterUnlock, Ended
        <5> QED BY <3>1, <5>3 DEF Unlock, UnlockFails
      <4>2. HistoryTyped'
        BY <3>1, FaultTyped, NoFaultTyped DEF Unlock, UnlockFails
      <4>3. lock' \in Procs \cup {Free, Orphan}
        BY <3>1 DEF Unlock, UnlockFails, TypeOK
      <4> QED BY <3>1, <4>1, <4>2, <4>3 DEF Unlock, UnlockFails, HistoryTyped, TypeOK, cluster
    <3>2. CASE Project(p) \/ ProjectFails(p)
      <4>1. Typed(proc')
        BY <2>0, <3>2, IdleTyped DEF Ended, ProcState, Project, ProjectFails
      <4>2. proc[p].reg.gen \in Nat
            /\ proc[p].reg.current \in Host \cup {"reconciling", "failed", "upgrade_running"}
        BY <2>0 DEF ProcState, Row
      <4>3. proj' \in [Nodes -> [gen : Nat, state : Host \cup {"reconciling", "failed", "upgrade_running"}]]
        <5>1. CASE Project(p)
          BY <5>1, <4>2 DEF Project, TypeOK
        <5>2. CASE ProjectFails(p)
          BY <5>2, <4>2 DEF ProjectFails, TypeOK
        <5> QED BY <3>2, <5>1, <5>2
      <4>4. HistoryTyped'
        BY <3>2, FaultTyped, NoFaultTyped DEF Project, ProjectFails
      <4> QED BY <3>2, <4>1, <4>3, <4>4 DEF Project, ProjectFails, HistoryTyped, TypeOK, cluster
    <3> QED BY <2>7, <3>1, <3>2
  <2>8. ASSUME NEW r \in Requests, Record(r) \/ RecordFails(r) PROVE TypeOK'
    <3>1. [row EXCEPT !.desired = Wanted(proc[r].op)] \in Row
      BY <2>0 DEF Wanted, Row, Host
    <3>2. row' \in Row /\ r \in Procs
      <4>1. Updated([row EXCEPT !.desired = Wanted(proc[r].op)]) \in Row
        BY <3>1, RowTyped
      <4> QED BY <2>0, <2>8, <4>1 DEF Record, RecordFails, Procs
    <3>3. Typed(proc')
      <4>1. CASE Record(r)
        BY <2>0, <3>2, <4>1, IdleTyped DEF To, Fails, Ended, ProcState, Record
      <4>2. CASE RecordFails(r)
        BY <2>0, <3>2, <4>2, IdleTyped DEF To, Fails, Ended, ProcState, RecordFails
      <4> QED BY <2>8, <4>1, <4>2
    <3>4. HistoryTyped'
      BY <2>8, FaultTyped, NoFaultTyped DEF Record, RecordFails, history
    <3> QED BY <2>8, <3>2, <3>3, <3>4 DEF Record, RecordFails, HistoryTyped, TypeOK, cluster
  <2>9. ASSUME NEW r \in Requests, MarkRunning(r) \/ Enter(r) \/ Reread(r) PROVE TypeOK'
    <3>1. [row EXCEPT !.current = "upgrade_running"] \in Row
      BY <2>0 DEF Row
    <3>2. row' \in Row /\ r \in Procs
      BY <2>0, <2>9, <3>1, RowTyped DEF MarkRunning, Enter, Reread, Procs
    <3>3. Typed(proc')
      <4>1. CASE MarkRunning(r)
        BY <2>0, <3>2, <4>1, IdleTyped DEF To, Fails, Ended, ProcState, MarkRunning
      <4>2. CASE Enter(r)
        <5>1. [proc[r] EXCEPT !.pc = "reread"] \in ProcState
          BY <2>0, <3>2 DEF ProcState
        <5>2. [proc[r] EXCEPT !.reg = row, !.pc = "lock"] \in ProcState
          BY <2>0, <3>2 DEF ProcState
        <5> QED BY <2>0, <3>2, <4>2, <5>1, <5>2, IdleTyped DEF Enter, To, Ended
      <4>3. CASE Reread(r)
        <5>1. [proc[r] EXCEPT !.reg = row, !.pc = "restore"] \in ProcState
          BY <2>0, <3>2 DEF ProcState
        <5> QED BY <2>0, <3>2, <4>3, <5>1 DEF Reread
      <4> QED BY <2>9, <4>1, <4>2, <4>3
    <3> QED BY <2>9, <3>2, <3>3 DEF MarkRunning, Enter, Reread, TypeOK, cluster, history
  <2>10. ASSUME NEW r \in Requests, RestoreUpgrade(r) PROVE TypeOK'
    <3>1. r \in Procs /\ proc[r].reg \in Row
      BY <2>0 DEF Procs, ProcState
    <3>2. [row EXCEPT !.desired = Stable(proc[r].reg), !.current = Stable(proc[r].reg)] \in Row
      BY <2>0, <3>1, RowTyped DEF Row
    <3>3. row' \in Row
      BY <2>10, <3>2, RowTyped DEF RestoreUpgrade
    <3>4. Typed(proc')
      BY <2>0, <2>10, <3>1, IdleTyped DEF To, Fails, Ended, ProcState, RestoreUpgrade
    <3> QED BY <2>10, <3>3, <3>4 DEF RestoreUpgrade, TypeOK, cluster, history
  <2>11. ASSUME NEW r \in Requests, NEW n \in Nodes, NEW op \in Ops, Begin(r, n, op) PROVE TypeOK'
    <3>1. r \in Procs /\ NoRow \in Row
      BY DEF Procs, NoRow, Row, Host
    <3>2. [Idle(r) EXCEPT !.op = op, !.node = n,
                          !.pc = IF op = "upgrade" THEN "running" ELSE "record"] \in ProcState
      BY <3>1 DEF Idle, ProcState
    <3>3. Typed(proc')
      BY <2>0, <2>11, <3>1, <3>2 DEF Begin
    <3> QED BY <2>11, <3>3 DEF Begin, TypeOK, cluster, history
  <2>12. ASSUME NEW n \in Nodes, Tick(n) PROVE TypeOK'
    <3>1. n \in Procs
      BY DEF Procs
    <3>2. Typed(proc')
      <4>1. [proc[n] EXCEPT !.reg = row, !.pc = IF n = primary THEN "lock" ELSE "project"]
              \in ProcState
        BY <2>0, <3>1 DEF ProcState
      <4> QED BY <2>0, <2>12, <3>1, <4>1 DEF Tick
    <3> QED BY <2>12, <3>2 DEF Tick, TypeOK, cluster, history
  <2>13. ASSUME NEW n \in Nodes, Crash(n) PROVE TypeOK'
    <3>1. \A p \in Procs : Idle(p) \in ProcState
      BY DEF Idle, ProcState, Procs, NoRow, Row, Host
    <3>2. Typed(proc')
      BY <2>0, <2>13, <3>1 DEF Crash
    <3>3. HistoryTyped'
      BY <2>13, FaultTyped DEF Crash
    <3> QED BY <2>13, <3>2, <3>3 DEF Crash, HistoryTyped, TypeOK, cluster
  <2>14. ASSUME NEW n \in Nodes, Elect(n) \/ Restart(n) PROVE TypeOK'
    <3>1. HistoryTyped'
      BY <2>14, FaultTyped, NoFaultTyped DEF Elect, Restart, history
    <3> QED BY <2>14, <3>1 DEF Elect, Restart, HistoryTyped, TypeOK, cluster
  <2>18. ASSUME NEW p \in Procs, LockFails(p) PROVE TypeOK'
    <3>1. Typed(proc')
      BY <2>0, <2>18, IdleTyped DEF To, Ended, ProcState, LockFails
    <3>2. HistoryTyped' /\ lock' \in Procs \cup {Free, Orphan}
      BY <2>18, FaultTyped DEF LockFails, TypeOK
    <3> QED BY <2>18, <3>1, <3>2 DEF LockFails, HistoryTyped, TypeOK, cluster
  <2>19. ASSUME NEW r \in Requests, MarkRunningFails(r) \/ RestoreUpgradeFails(r) PROVE TypeOK'
    <3>1. [row EXCEPT !.current = "upgrade_running"] \in Row
      BY <2>0 DEF Row
    <3>2. row' \in Row /\ r \in Procs
      <4>1. Updated([row EXCEPT !.current = "upgrade_running"]) \in Row
        BY <3>1, RowTyped
      <4> QED BY <2>0, <2>19, <4>1 DEF MarkRunningFails, RestoreUpgradeFails, Procs
    <3>3. Typed(proc')
      BY <2>0, <2>19, <3>2, IdleTyped DEF Ended, MarkRunningFails, RestoreUpgradeFails
    <3>4. HistoryTyped'
      BY <2>19, FaultTyped DEF MarkRunningFails, RestoreUpgradeFails
    <3> QED BY <2>19, <3>2, <3>3, <3>4
            DEF MarkRunningFails, RestoreUpgradeFails, HistoryTyped, TypeOK, cluster
  <2>15. CASE Age
    <3>1. row' \in Row
      BY <2>0, <2>15 DEF Age, Row
    <3>2. Typed(proc')
      <4>1. \A p \in Procs : [proc[p].reg EXCEPT !.fresh = FALSE] \in Row
        BY <2>0 DEF ProcState, Row
      <4>2. \A p \in Procs : [proc[p] EXCEPT !.reg = [proc[p].reg EXCEPT !.fresh = FALSE]] \in ProcState
        BY <2>0, <4>1 DEF ProcState
      <4> QED BY <2>15, <4>2 DEF Age
    <3> QED BY <2>15, <3>1, <3>2 DEF Age, TypeOK, cluster, history
  <2>16. CASE LeaseEnds
    BY <2>16 DEF LeaseEnds, TypeOK, cluster, history
  <2>17. CASE UNCHANGED vars
    BY <2>17 DEF vars, TypeOK, cluster, history
  <2> QED
    BY <2>1, <2>2, <2>3, <2>4, <2>5, <2>6, <2>7, <2>8, <2>9, <2>10, <2>11, <2>12, <2>13,
       <2>14, <2>15, <2>16, <2>17, <2>18, <2>19
       DEF Next, Pass, Failure, Request, RequestFailure, Time
<1> QED BY <1>1, <1>2, PTL DEF Spec

-----------------------------------------------------------------------------
(* Exclusion. *)

\* A process from the grant of the per-plugin lock to its release.
Holding(p) ==
    proc[p].pc \in {"recover", "mark", "side", "finalize", "rollback", "failed", "unlock"}

LockOwned == \A p \in Procs : Holding(p) => lock = p

LEMMA LockOwnedInvariant == Spec => []LockOwned
<1>1. Init => LockOwned
  BY DEF Init, Idle, LockOwned, Holding
<1>2. TypeOK /\ LockOwned /\ [Next]_vars => LockOwned'
  <2> SUFFICES ASSUME TypeOK, LockOwned, [Next]_vars PROVE LockOwned'
    OBVIOUS
  <2>0. proc \in [Procs -> ProcState] /\ Nodes \subseteq Procs /\ Requests \subseteq Procs
    BY DEF TypeOK, Procs
  <2> USE <2>0 DEF LockOwned, Holding
  <2>1. ASSUME NEW p \in Procs, Lock(p) PROVE LockOwned'
    <3>1. Free \notin Procs
      BY DEF Procs
    <3> QED BY <2>1, <3>1 DEF Lock, Granted
  <2>2. ASSUME NEW p \in Procs, LockHeld(p) PROVE LockOwned'
    BY <2>2 DEF LockHeld, To
  <2>3. ASSUME NEW p \in Procs, RecoverStale(p) \/ Mark(p) \/ Side(p) \/ MarkFailed(p)
        PROVE  LockOwned'
    BY <2>3 DEF RecoverStale, Mark, Side, MarkFailed, At, To
  <2>4. ASSUME NEW p \in Procs, SideFails(p) \/ FinalizeFails(p) \/ RecoverFails(p) \/ MarkFails(p)
        PROVE  LockOwned'
    BY <2>4 DEF SideFails, FinalizeFails, RecoverFails, MarkFails, At, Fails
  <2>5. ASSUME NEW p \in Procs, Finalize(p) \/ NotifyFails(p) \/ Rollback(p) PROVE LockOwned'
    BY <2>5 DEF Finalize, NotifyFails, FinalizeTo, Rollback, At, To, Fails
  <2>6. ASSUME NEW p \in Procs, Unlock(p) \/ UnlockFails(p) PROVE LockOwned'
    <3>1. proc' = AfterUnlock(p) /\ lock = p
      BY <2>6 DEF Unlock, UnlockFails, At
    <3>2. ~Holding(p)' /\ \A q \in Procs \ {p} : proc'[q] = proc[q]
      BY <3>1 DEF AfterUnlock, Ended, Idle
    <3> QED BY <3>1, <3>2
  <2>7. ASSUME NEW p \in Procs, Project(p) \/ ProjectFails(p) PROVE LockOwned'
    BY <2>7 DEF Project, ProjectFails, Ended, Idle
  <2>8. ASSUME NEW r \in Requests,
               Record(r) \/ MarkRunning(r) \/ RequestFailure(r)
        PROVE  LockOwned'
    <3> USE DEF RequestFailure
    <3>1. \A q \in Procs \ {r} : proc'[q] = proc[q]
      BY <2>8 DEF Record, RecordFails, MarkRunning, MarkRunningFails, RestoreUpgradeFails, To, Ended
    <3>2. proc'[r].pc \in {"idle", "mutex"}
      <4>1. Ended(r)[r].pc = "idle" /\ To(r, "mutex")[r].pc = "mutex"
        BY DEF To, Ended, Idle, ProcState
      <4> QED BY <2>8, <4>1
              DEF Record, RecordFails, MarkRunning, MarkRunningFails, RestoreUpgradeFails
    <3>3. lock' = lock
      BY <2>8 DEF Record, RecordFails, MarkRunning, MarkRunningFails, RestoreUpgradeFails
    <3> QED BY <3>1, <3>2, <3>3
  <2>9. ASSUME NEW r \in Requests, Enter(r) \/ Reread(r) \/ RestoreUpgrade(r) PROVE LockOwned'
    <3>1. \A q \in Procs \ {r} : proc'[q] = proc[q]
      BY <2>9 DEF Enter, Reread, RestoreUpgrade, To, Ended
    <3>2. proc'[r].pc \in {"idle", "lock", "reread", "restore"}
      <4>1. CASE Enter(r)
        BY <4>1 DEF Enter, To, Ended, Idle
      <4>2. CASE Reread(r) \/ RestoreUpgrade(r)
        <5>1. Ended(r)[r].pc = "idle"
          BY DEF Ended, Idle
        <5> QED BY <4>2, <5>1 DEF Reread, RestoreUpgrade, ProcState
      <4> QED BY <2>9, <4>1, <4>2
    <3>3. lock' = lock
      BY <2>9 DEF Enter, Reread, RestoreUpgrade
    <3> QED BY <3>1, <3>2, <3>3
  <2>10. ASSUME NEW r \in Requests, NEW n \in Nodes, NEW op \in Ops, Begin(r, n, op)
         PROVE  LockOwned'
    BY <2>10 DEF Begin, Idle
  <2>11. ASSUME NEW n \in Nodes, Tick(n) PROVE LockOwned'
    BY <2>11 DEF Tick
  <2>12. ASSUME NEW n \in Nodes, Crash(n) PROVE LockOwned'
    BY <2>12 DEF Crash, Idle
  <2>13. ASSUME NEW n \in Nodes, Elect(n) \/ Restart(n) PROVE LockOwned'
    BY <2>13 DEF Elect, Restart
  <2>14. CASE Age
    <3>1. \A q \in Procs : proc'[q].pc = proc[q].pc
      BY <2>14 DEF Age, ProcState
    <3> QED BY <2>14, <3>1 DEF Age
  <2>15. CASE LeaseEnds
    <3>1. Orphan \notin Procs
      BY DEF Procs
    <3> QED BY <2>15, <3>1 DEF LeaseEnds
  <2>16. CASE UNCHANGED vars
    BY <2>16 DEF vars
  <2>17. ASSUME NEW p \in Procs, LockFails(p) PROVE LockOwned'
    <3>1. ~Holding(p)' /\ \A q \in Procs \ {p} : proc'[q] = proc[q]
      BY <2>17 DEF LockFails, To, Ended, Idle, ProcState
    <3>2. lock' = lock \/ lock = Free
      BY <2>17 DEF LockFails, Granted
    <3>3. Free \notin Procs
      BY DEF Procs
    <3> QED BY <3>1, <3>2, <3>3
  <2> QED
    BY <2>1, <2>2, <2>3, <2>4, <2>5, <2>6, <2>7, <2>8, <2>9, <2>10, <2>11, <2>12, <2>13,
       <2>14, <2>15, <2>16, <2>17 DEF Next, Pass, Failure, Request, Time
<1> QED BY <1>1, <1>2, TypeCorrect, PTL DEF Spec

\* One executor at a time is in the lifecycle side effects, whatever crashes and
\* whoever is or becomes primary: all of them hold the per-plugin lock.
THEOREM SideEffectsExclusiveThm == Spec => []SideEffectsExclusive
<1>1. LockOwned => SideEffectsExclusive
  BY DEF LockOwned, Holding, SideEffectsExclusive, Working
<1> QED BY <1>1, LockOwnedInvariant, PTL

-----------------------------------------------------------------------------
(* The tables follow the row. *)

\* One process at a time is in the mutex of a node; a ticker is on its own.
MutexHeld ==
    /\ \A p, q \in Procs :
        proc[p].pc \in InMutex /\ proc[q].pc \in InMutex /\ proc[p].node = proc[q].node => p = q
    /\ \A n \in Nodes : proc[n].node = n

\* Without faults the primary is always the same node, and only there work is done.
OnPrimary ==
    /\ \A n \in Nodes : up[n]
    /\ \A p \in Procs :
         /\ proc[p].op # "upgrade" /\ proc[p].ok
         /\ proc[p].pc \in {"mutex", "lock", "mark", "side", "finalize", "unlock"}
              => proc[p].node = primary
         /\ proc[p].pc \notin {"running", "reread", "restore", "recover", "rollback", "failed"}

\* What a process will do fits the row as it still is.
CopyCurrent ==
    \A p \in Procs :
      /\ proc[p].pc = "lock" => proc[p].reg.inst = row.inst /\ proc[p].reg.current \in Host
      /\ proc[p].pc \in {"mark", "side", "finalize"} =>
           \/ proc[p].work = "install" /\ ~row.inst
           \/ proc[p].work \in {"toggle", "uninstall"} /\ row.inst

InWork(p) == proc[p].pc \in {"side", "finalize"}

RowExplained ==
    /\ row.current \in Host \/ (row.current = "reconciling" /\ \E p \in Procs : InWork(p))
    /\ (\A p \in Procs : proc[p].pc # "finalize") => schema = row.inst
    /\ \A p \in Procs : proc[p].pc = "finalize" => schema = (proc[p].work # "uninstall")
    /\ \A p \in Procs : InWork(p) => row.current = "reconciling"

Settled == calm => OnPrimary /\ CopyCurrent /\ RowExplained

LEMMA MutexInvariant == Spec => []MutexHeld
<1>1. Init => MutexHeld
  <2> SUFFICES ASSUME Init PROVE MutexHeld
    OBVIOUS
  <2>1. \A p \in Procs : proc[p].pc = "idle"
    BY DEF Init, Idle
  <2>2. \A n \in Nodes : proc[n].node = n
    BY DEF Init, Idle, Procs
  <2> QED BY <2>1, <2>2 DEF MutexHeld, InMutex
<1>2. TypeOK /\ MutexHeld /\ [Next]_vars => MutexHeld'
  <2> SUFFICES ASSUME TypeOK, MutexHeld, [Next]_vars PROVE MutexHeld'
    OBVIOUS
  <2>0. proc \in [Procs -> ProcState] /\ Nodes \subseteq Procs /\ Requests \subseteq Procs
    BY DEF TypeOK, Procs
  <2>a. ASSUME NEW p \in Procs,
               \A q \in Procs \ {p} : proc'[q] = proc[q],
               \/ proc'[p] = Idle(p)
               \/ proc'[p].node = proc[p].node
                  /\ (proc'[p].pc \in InMutex => proc[p].pc \in InMutex)
               \/ p \in Requests /\ proc'[p].pc \notin InMutex
        PROVE  MutexHeld'
    <3>1. proc'[p].pc \in InMutex => proc[p].pc \in InMutex /\ proc'[p].node = proc[p].node
      BY <2>a DEF Idle, InMutex
    <3>2. p \in Nodes => proc'[p].node = p
      BY <2>a DEF Idle, MutexHeld
    <3> QED BY <2>a, <3>1, <3>2, <2>0 DEF MutexHeld
  <2>3. ASSUME NEW p \in Procs, proc' = Ended(p) PROVE MutexHeld'
    <3>1. (\A q \in Procs \ {p} : proc'[q] = proc[q]) /\ proc'[p] = Idle(p)
      BY <2>0, <2>3 DEF Ended
    <3> QED BY <2>a, <3>1
  <2>5. CASE proc' = proc
    BY <2>5 DEF MutexHeld
  <2>6. ASSUME NEW p \in Procs, Pass(p) \/ Failure(p) PROVE MutexHeld'
    <3>1. CASE Lock(p) \/ LockHeld(p) \/ LockFails(p) \/ Unlock(p) \/ UnlockFails(p)
      <4>1. \A q \in Procs \ {p} : proc'[q] = proc[q]
        BY <2>0, <3>1 DEF Lock, LockHeld, LockFails, Unlock, UnlockFails, AfterUnlock, To, Ended
      <4>2. Ended(p)[p] = Idle(p)
        BY <2>0 DEF Ended
      <4>3. proc[p].pc \in {"lock", "unlock"}
        BY <3>1 DEF Lock, LockHeld, LockFails, Unlock, UnlockFails, At
      <4>4. proc'[p] = Idle(p) \/ proc'[p].node = proc[p].node
        <5>1. CASE Lock(p)
          BY <2>0, <5>1 DEF Lock, ProcState
        <5>2. CASE LockHeld(p)
          BY <2>0, <5>2 DEF LockHeld, To, ProcState
        <5>3. CASE Unlock(p) \/ UnlockFails(p)
          BY <2>0, <4>2, <5>3 DEF Unlock, UnlockFails, AfterUnlock, ProcState
        <5>4. CASE LockFails(p)
          BY <2>0, <4>2, <5>4 DEF LockFails, To, ProcState
        <5> QED BY <3>1, <5>1, <5>2, <5>3, <5>4
      <4> QED BY <2>a, <4>1, <4>3, <4>4 DEF InMutex
    <3>2. CASE RecoverStale(p) \/ Mark(p) \/ Side(p) \/ Rollback(p) \/ MarkFailed(p)
      <4>1. \A q \in Procs \ {p} : proc'[q] = proc[q]
        BY <2>0, <3>2 DEF RecoverStale, Mark, Side, Rollback, MarkFailed, To
      <4>2. proc[p].pc \in InMutex
        BY <3>2 DEF RecoverStale, Mark, Side, Rollback, MarkFailed, At, InMutex
      <4>3. proc'[p].node = proc[p].node
        BY <2>0, <3>2 DEF RecoverStale, Mark, Side, Rollback, MarkFailed, To, ProcState
      <4> QED BY <2>a, <4>1, <4>2, <4>3
    <3>3. CASE Finalize(p) \/ NotifyFails(p) \/ SideFails(p) \/ FinalizeFails(p)
               \/ RecoverFails(p) \/ MarkFails(p)
      <4> USE <2>0, <3>3 DEF Finalize, NotifyFails, FinalizeTo, SideFails, FinalizeFails,
                             RecoverFails, MarkFails
      <4>1. \A q \in Procs \ {p} : proc'[q] = proc[q]
        BY DEF To, Fails
      <4>2. proc[p].pc \in InMutex
        BY DEF At, InMutex
      <4>3. proc'[p].node = proc[p].node
        BY DEF To, Fails, ProcState
      <4> QED BY <2>a, <4>1, <4>2, <4>3
    <3>6. CASE Project(p) \/ ProjectFails(p)
      BY <2>3, <3>6 DEF Project, ProjectFails
    <3> QED BY <2>6, <3>1, <3>2, <3>3, <3>6 DEF Pass, Failure
  <2>7. ASSUME NEW r \in Requests, Request(r) \/ RequestFailure(r) PROVE MutexHeld'
    <3>1. CASE Record(r) \/ RecordFails(r) \/ MarkRunning(r)
      <4>1. \A q \in Procs \ {r} : proc'[q] = proc[q]
        BY <2>0, <3>1 DEF Record, RecordFails, MarkRunning, To, Ended
      <4>2. Ended(r)[r].pc = "idle" /\ To(r, "mutex")[r].pc = "mutex"
        BY <2>0 DEF Ended, Idle, To, ProcState
      <4>3. proc'[r].pc \in {"idle", "mutex"}
        BY <3>1, <4>2 DEF Record, RecordFails, MarkRunning
      <4> QED BY <2>0, <2>a, <4>1, <4>3 DEF InMutex
    <3>2. CASE Enter(r)
      <4>1. CASE proc' = To(r, "reread") \/ proc' = Ended(r)
        <5>1. \A q \in Procs \ {r} : proc'[q] = proc[q]
          BY <2>0, <4>1 DEF To, Ended
        <5>2. proc'[r].pc \in {"reread", "idle"}
          BY <2>0, <4>1 DEF To, Ended, Idle, ProcState
        <5> QED BY <2>0, <2>a, <5>1, <5>2 DEF InMutex
      <4>2. CASE proc' = [proc EXCEPT ![r].reg = row, ![r].pc = "lock"]
        <5>1. \A q \in Procs \ {r} : proc'[q] = proc[q]
          BY <2>0, <4>2
        <5>2. proc'[r].node = proc[r].node
          BY <2>0, <4>2 DEF ProcState
        <5>3. MutexFree(proc[r].node)
          BY <3>2 DEF Enter
        <5> QED BY <2>0, <5>1, <5>2, <5>3 DEF MutexFree, MutexHeld
      <4> QED BY <3>2, <4>1, <4>2 DEF Enter
    <3>3. CASE Reread(r)
      <4>1. \A q \in Procs \ {r} : proc'[q] = proc[q]
        BY <2>0, <3>3 DEF Reread
      <4>2. proc'[r].pc = "restore"
        BY <2>0, <3>3 DEF Reread, ProcState
      <4> QED BY <2>0, <2>a, <4>1, <4>2 DEF InMutex
    <3>4. CASE RestoreUpgrade(r) \/ MarkRunningFails(r) \/ RestoreUpgradeFails(r)
      BY <2>0, <2>3, <3>4 DEF RestoreUpgrade, MarkRunningFails, RestoreUpgradeFails
    <3> QED BY <2>7, <3>1, <3>2, <3>3, <3>4 DEF Request, RequestFailure
  <2>8. ASSUME NEW r \in Requests, NEW n \in Nodes, NEW op \in Ops, Begin(r, n, op)
        PROVE  MutexHeld'
    <3>1. \A q \in Procs \ {r} : proc'[q] = proc[q]
      BY <2>0, <2>8 DEF Begin
    <3>2. proc'[r].pc \notin InMutex
      BY <2>0, <2>8 DEF Begin, Idle, InMutex
    <3> QED BY <2>0, <2>a, <3>1, <3>2
  <2>9. ASSUME NEW n \in Nodes, Tick(n) PROVE MutexHeld'
    <3>1. \A q \in Procs \ {n} : proc'[q] = proc[q]
      BY <2>0, <2>9 DEF Tick
    <3>2. proc'[n].node = proc[n].node
      BY <2>0, <2>9 DEF Tick, ProcState
    <3> QED BY <2>0, <2>9, <3>1, <3>2 DEF Tick, MutexFree, MutexHeld
  <2>10. ASSUME NEW n \in Nodes, Crash(n) PROVE MutexHeld'
    BY <2>0, <2>10 DEF Crash, Idle, InMutex, MutexHeld
  <2>11. ASSUME NEW n \in Nodes, Elect(n) PROVE MutexHeld'
    BY <2>5, <2>11 DEF Elect
  <2>12. CASE Time
    <3>1. CASE Age
      <4>1. \A q \in Procs : proc'[q].pc = proc[q].pc /\ proc'[q].node = proc[q].node
        BY <2>0, <3>1 DEF Age, ProcState
      <4> QED BY <2>0, <4>1 DEF MutexHeld
    <3>2. CASE LeaseEnds \/ \E n \in Nodes : Restart(n)
      BY <2>5, <3>2 DEF LeaseEnds, Restart
    <3> QED BY <2>12, <3>1, <3>2 DEF Time
  <2>13. CASE UNCHANGED vars
    BY <2>5, <2>13 DEF vars
  <2> QED BY <2>6, <2>7, <2>8, <2>9, <2>10, <2>11, <2>12, <2>13 DEF Next
<1> QED BY <1>1, <1>2, TypeCorrect, PTL DEF Spec

\* Without faults the primary alone is between the read of the row and the release
\* of the per-plugin lock, one process at a time.
Active == {"lock", "mark", "side", "finalize", "unlock"}

LEMMA ActiveAlone ==
    ASSUME MutexHeld, OnPrimary, NEW p \in Procs, NEW q \in Procs,
           proc[p].pc \in Active, proc[q].pc \in Active
    PROVE  p = q
BY DEF MutexHeld, OnPrimary, Active, InMutex

LEMMA NobodyActive ==
    ASSUME OnPrimary, MutexFree(primary), NEW p \in Procs
    PROVE  proc[p].pc \notin Active
BY DEF OnPrimary, MutexFree, Active, InMutex

LEMMA RowKept ==
    ASSUME NEW r \in Row
    PROVE  Updated(r).inst = r.inst /\ Updated(r).current = r.current
BY DEF Row, Updated

\* A step that fails is not calm.
LEMMA CalmStep == ASSUME TypeOK, [Next]_vars, calm' PROVE calm /\ ~Faulty
<1>1. ~Faulty
  BY DEF Faulty
<1>2. CASE \E p \in Procs : Pass(p)
  BY <1>1, <1>2 DEF Pass, Lock, LockHeld, RecoverStale, Mark, Side, Finalize, Rollback, MarkFailed,
              Unlock, Project, history
<1>3. CASE \E r \in Requests : Request(r)
  BY <1>1, <1>3 DEF Request, Record, MarkRunning, Enter, Reread, RestoreUpgrade, history
<1>4. CASE \E r \in Requests, n \in Nodes, op \in Ops : Begin(r, n, op)
  BY <1>1, <1>4 DEF Begin
<1>5. CASE \E n \in Nodes : Tick(n) \/ Elect(n)
  BY <1>1, <1>5 DEF Tick, Elect, history
<1>6. CASE Time
  BY <1>1, <1>6 DEF Time, Age, LeaseEnds, Restart, history
<1>7. CASE UNCHANGED vars
  BY <1>1, <1>7 DEF vars, history
<1> QED
  BY <1>1, <1>2, <1>3, <1>4, <1>5, <1>6, <1>7
     DEF Next, Failure, LockFails, RecoverFails, MarkFails, SideFails, FinalizeFails, NotifyFails,
         UnlockFails, ProjectFails, RequestFailure, RecordFails, MarkRunningFails,
         RestoreUpgradeFails, Crash

\* The work chosen fits the row that was read.
LEMMA WorkFits ==
    ASSUME NEW r \in Row, r.current \in Host
    PROVE  \/ WorkFor(r) = "none"
           \/ WorkFor(r) = "install" /\ ~r.inst
           \/ WorkFor(r) \in {"toggle", "uninstall"} /\ r.inst
BY DEF WorkFor, Selected, Host, Row

LEMMA FinalRow ==
    ASSUME TypeOK, NEW p \in Procs
    PROVE  /\ Finalized(row, p).inst = (proc[p].work # "uninstall")
           /\ Finalized(row, p).current \in Host
<1> DEFINE w == proc[p].work
           en == w # "uninstall" /\ Target(p) = "enabled"
           inst == w # "uninstall"
           state == Stable([inst |-> inst, en |-> en])
           r == [row EXCEPT !.inst = inst, !.en = en, !.desired = state, !.current = state,
                            !.gen = proc[p].reg.gen + 1,
                            !.drift = IF w = "uninstall" THEN @ ELSE FALSE]
<1>1. state \in Host
  BY DEF Stable, Host
<1>2. Finalized(row, p) = Updated(r)
  BY DEF Finalized
<1>3. Updated(r).inst = r.inst /\ Updated(r).current = r.current
  BY DEF TypeOK, Row, Updated
<1>4. r.inst = inst /\ r.current = state
  BY DEF TypeOK, Row
<1> HIDE DEF r, state
<1> QED BY <1>1, <1>2, <1>3, <1>4

LEMMA SettledInvariant == Spec => []Settled
<1>1. Init => Settled
  <2> SUFFICES ASSUME Init PROVE OnPrimary /\ CopyCurrent /\ RowExplained
    BY DEF Settled
  <2>1. \A p \in Procs : proc[p].pc = "idle" /\ proc[p].op = "tick" /\ proc[p].ok
    BY DEF Init, Idle
  <2>2. row.current \in Host /\ schema = row.inst
    BY DEF Init, NoRow, Host
  <2>3. \A n \in Nodes : up[n]
    BY DEF Init
  <2> QED BY <2>1, <2>2, <2>3 DEF OnPrimary, CopyCurrent, RowExplained, InWork
<1>2. TypeOK /\ MutexHeld /\ Settled /\ [Next]_vars => Settled'
  <2> SUFFICES ASSUME TypeOK, MutexHeld, Settled, [Next]_vars, calm'
               PROVE  OnPrimary' /\ CopyCurrent' /\ RowExplained'
    BY DEF Settled
  <2>0. /\ proc \in [Procs -> ProcState] /\ row \in Row
        /\ Nodes \subseteq Procs /\ Requests \subseteq Procs
    BY DEF TypeOK, Procs
  <2>1. calm /\ ~Faulty
    BY CalmStep
  <2>2. OnPrimary /\ CopyCurrent /\ RowExplained
    BY <2>1 DEF Settled
  <2>a. ASSUME NEW p \in Procs,
               \A q \in Procs \ {p} : proc'[q] = proc[q],
               proc'[p].op # "upgrade", proc'[p].ok,
               proc'[p].pc \in {"idle", "record", "mutex", "unlock", "project"},
               proc'[p].pc \in {"mutex", "unlock"} => proc'[p].node = primary,
               ~InWork(p), row'.inst = row.inst, row'.current = row.current,
               UNCHANGED <<schema, cluster>>
        PROVE  OnPrimary' /\ CopyCurrent' /\ RowExplained'
    <3>1. OnPrimary'
      BY <2>2, <2>a DEF OnPrimary, cluster
    <3>2. CopyCurrent'
      BY <2>2, <2>a DEF CopyCurrent
    <3>3. \A q \in Procs : InWork(q)' <=> InWork(q)
      BY <2>a DEF InWork
    <3>4. \A q \in Procs : proc'[q].pc = "finalize" <=> proc[q].pc = "finalize"
      BY <2>a DEF InWork
    <3>5. \A q \in Procs : proc[q].pc = "finalize" => proc'[q].work = proc[q].work
      BY <2>a DEF InWork
    <3>6. RowExplained'
      BY <2>2, <2>a, <3>3, <3>4, <3>5 DEF RowExplained
    <3> QED BY <3>1, <3>2, <3>6
  <2>b. ASSUME NEW p \in Procs, MutexFree(primary),
               \A q \in Procs \ {p} : proc'[q] = proc[q],
               proc'[p].op # "upgrade", proc'[p].ok, proc'[p].pc = "lock",
               proc'[p].node = primary, proc'[p].reg = row,
               UNCHANGED <<row, schema, cluster>>
        PROVE  OnPrimary' /\ CopyCurrent' /\ RowExplained'
    <3>1. \A q \in Procs : proc[q].pc \notin Active
      BY <2>2, <2>b, NobodyActive
    <3>2. row.current \in Host /\ schema = row.inst
      BY <2>2, <3>1 DEF RowExplained, InWork, Active
    <3>3. OnPrimary'
      BY <2>2, <2>b DEF OnPrimary, cluster
    <3>4. CopyCurrent'
      BY <2>2, <2>b, <3>1, <3>2 DEF CopyCurrent, Active
    <3>5. RowExplained'
      BY <2>b, <3>1, <3>2 DEF RowExplained, InWork, Active
    <3> QED BY <3>3, <3>4, <3>5
  <2>c. ASSUME NEW p \in Procs, proc[p].pc \in Active,
               \A q \in Procs \ {p} : proc'[q] = proc[q],
               proc'[p].op = proc[p].op, proc'[p].ok = proc[p].ok,
               proc'[p].node = proc[p].node, proc'[p].pc \in Active,
               UNCHANGED cluster
        PROVE  OnPrimary' /\ \A q \in Procs \ {p} : proc'[q].pc \notin Active
    <3>1. \A q \in Procs \ {p} : proc[q].pc \notin Active
      BY <2>2, <2>c, ActiveAlone
    <3>2. proc[p].node = primary
      BY <2>2, <2>c DEF OnPrimary, Active
    <3> QED BY <2>2, <2>c, <3>1, <3>2 DEF OnPrimary, Active, cluster
  <2>3. ASSUME NEW p \in Procs, Lock(p) PROVE OnPrimary' /\ CopyCurrent' /\ RowExplained'
    <3>1. proc[p].op # "upgrade" /\ proc[p].pc = "lock" /\ proc[p].reg \in Row
      BY <2>0, <2>2, <2>3 DEF OnPrimary, Lock, At, ProcState
    <3>2. proc[p].reg.inst = row.inst /\ proc[p].reg.current \in Host
      BY <2>2, <3>1 DEF CopyCurrent
    <3> DEFINE w == WorkFor(proc[p].reg)
    <3>3. \/ w = "none"
          \/ w = "install" /\ ~row.inst
          \/ w \in {"toggle", "uninstall"} /\ row.inst
      BY <3>1, <3>2, WorkFits
    <3> HIDE DEF w
    <3>4. /\ \A q \in Procs \ {p} : proc'[q] = proc[q]
          /\ proc'[p].op = proc[p].op /\ proc'[p].ok = proc[p].ok /\ proc'[p].node = proc[p].node
          /\ proc'[p].pc = (IF w = "none" THEN "unlock" ELSE "mark")
          /\ proc'[p].work = w
      <4>1. proc' = [proc EXCEPT ![p].pc = (IF w = "none" THEN "unlock" ELSE "mark"),
                                 ![p].work = w]
        BY <2>3, <3>1, <3>3 DEF Lock, w
      <4> QED BY <2>0, <4>1 DEF ProcState
    <3>5. UNCHANGED <<row, schema, cluster>>
      BY <2>3 DEF Lock
    <3>6. OnPrimary' /\ \A q \in Procs \ {p} : proc'[q].pc \notin Active
      BY <2>c, <3>1, <3>4, <3>5 DEF Active
    <3>7. \A q \in Procs : ~InWork(q) /\ ~InWork(q)'
      BY <3>1, <3>4, <3>6 DEF InWork, Active
    <3>8. CopyCurrent'
      BY <3>3, <3>4, <3>5, <3>6 DEF CopyCurrent, Active
    <3>9. RowExplained'
      BY <2>2, <3>5, <3>7 DEF RowExplained, InWork
    <3> QED BY <3>6, <3>8, <3>9
  <2>4. ASSUME NEW p \in Procs, Mark(p) PROVE OnPrimary' /\ CopyCurrent' /\ RowExplained'
    <3>1. proc[p].pc = "mark"
      BY <2>4 DEF Mark, At
    <3>2. /\ \A q \in Procs \ {p} : proc'[q] = proc[q]
          /\ proc'[p].op = proc[p].op /\ proc'[p].ok = proc[p].ok /\ proc'[p].node = proc[p].node
          /\ proc'[p].pc = "side" /\ proc'[p].work = proc[p].work
      BY <2>0, <2>4 DEF Mark, To, ProcState
    <3>3. row'.inst = row.inst /\ row'.current = "reconciling"
      BY <2>0, <2>4 DEF Mark, Marked, Updated, Row
    <3>4. UNCHANGED <<schema, cluster>>
      BY <2>4 DEF Mark
    <3>5. OnPrimary' /\ \A q \in Procs \ {p} : proc'[q].pc \notin Active
      BY <2>c, <3>1, <3>2, <3>4 DEF Active
    <3>6. schema = row.inst
      <4>1. \A q \in Procs : proc[q].pc # "finalize"
        BY <3>1, <3>2, <3>5 DEF Active
      <4> QED BY <2>2, <4>1 DEF RowExplained
    <3>7. CopyCurrent'
      BY <2>2, <3>1, <3>2, <3>3, <3>5 DEF CopyCurrent, Active
    <3>8. RowExplained'
      BY <3>2, <3>3, <3>4, <3>5, <3>6 DEF RowExplained, InWork, Active
    <3> QED BY <3>5, <3>7, <3>8
  <2>5. ASSUME NEW p \in Procs, Side(p) PROVE OnPrimary' /\ CopyCurrent' /\ RowExplained'
    <3>1. proc[p].pc = "side"
      BY <2>5 DEF Side, At
    <3>2. /\ \A q \in Procs \ {p} : proc'[q] = proc[q]
          /\ proc'[p].op = proc[p].op /\ proc'[p].ok = proc[p].ok /\ proc'[p].node = proc[p].node
          /\ proc'[p].pc = "finalize" /\ proc'[p].work = proc[p].work
      BY <2>0, <2>5 DEF Side, To, ProcState
    <3>3. UNCHANGED <<row, cluster>>
      BY <2>5 DEF Side
    <3>4. OnPrimary' /\ \A q \in Procs \ {p} : proc'[q].pc \notin Active
      BY <2>c, <3>1, <3>2, <3>3 DEF Active
    <3>5. schema = row.inst
      <4>1. \A q \in Procs : proc[q].pc # "finalize"
        BY <3>1, <3>2, <3>4 DEF Active
      <4> QED BY <2>2, <4>1 DEF RowExplained
    <3>6. \/ proc[p].work = "install" /\ ~row.inst
          \/ proc[p].work \in {"toggle", "uninstall"} /\ row.inst
      BY <2>2, <3>1 DEF CopyCurrent
    <3>7. schema' = (proc[p].work # "uninstall")
      BY <2>5, <3>5, <3>6 DEF Side, RunsSQL
    <3>8. CopyCurrent'
      BY <3>2, <3>3, <3>4, <3>6 DEF CopyCurrent, Active
    <3>9. row.current = "reconciling"
      BY <2>2, <3>1 DEF RowExplained, InWork
    <3>10. RowExplained'
      BY <3>2, <3>3, <3>4, <3>7, <3>9 DEF RowExplained, InWork, Active
    <3> QED BY <3>4, <3>8, <3>10
  <2>6. ASSUME NEW p \in Procs, Finalize(p) PROVE OnPrimary' /\ CopyCurrent' /\ RowExplained'
    <3>1. proc[p].pc = "finalize"
      BY <2>6 DEF Finalize, FinalizeTo, At
    <3>2. /\ \A q \in Procs \ {p} : proc'[q] = proc[q]
          /\ proc'[p].op = proc[p].op /\ proc'[p].ok = proc[p].ok /\ proc'[p].node = proc[p].node
          /\ proc'[p].pc = "unlock"
      BY <2>0, <2>6 DEF Finalize, FinalizeTo, To, ProcState
    <3>3. row'.inst = (proc[p].work # "uninstall") /\ row'.current \in Host
      BY <2>6, FinalRow DEF Finalize, FinalizeTo
    <3>4. UNCHANGED <<schema, cluster>>
      BY <2>6 DEF Finalize, FinalizeTo
    <3>5. OnPrimary' /\ \A q \in Procs \ {p} : proc'[q].pc \notin Active
      BY <2>c, <3>1, <3>2, <3>4 DEF Active
    <3>6. schema = (proc[p].work # "uninstall")
      BY <2>2, <3>1 DEF RowExplained
    <3>7. CopyCurrent'
      BY <3>2, <3>5 DEF CopyCurrent, Active
    <3>8. RowExplained'
      BY <3>2, <3>3, <3>4, <3>5, <3>6 DEF RowExplained, InWork, Active
    <3> QED BY <3>5, <3>7, <3>8
  <2>7. ASSUME NEW p \in Procs, LockHeld(p) \/ Unlock(p) \/ Project(p)
        PROVE  OnPrimary' /\ CopyCurrent' /\ RowExplained'
    <3>1. proc[p].op # "upgrade" /\ proc[p].ok
      BY <2>2 DEF OnPrimary
    <3>2. /\ \A q \in Procs \ {p} : proc'[q] = proc[q]
          /\ proc'[p].op # "upgrade" /\ proc'[p].ok
          /\ proc'[p].pc \in {"idle", "project"}
      <4>1. CASE LockHeld(p)
        BY <2>0, <3>1, <4>1 DEF LockHeld, ProcState
      <4>2. CASE Unlock(p)
        BY <2>0, <3>1, <4>2 DEF Unlock, AfterUnlock, ProcState
      <4>3. CASE Project(p)
        BY <2>0, <4>3 DEF Project, Ended, Idle
      <4> QED BY <2>7, <4>1, <4>2, <4>3
    <3>3. ~InWork(p) /\ UNCHANGED <<row, schema, cluster>>
      BY <2>7 DEF LockHeld, Unlock, Project, At, InWork
    <3> QED BY <2>a, <3>2, <3>3
  <2>8. ASSUME NEW r \in Requests, Record(r) PROVE OnPrimary' /\ CopyCurrent' /\ RowExplained'
    <3>1. proc[r].op # "upgrade" /\ proc[r].ok /\ r \in Procs
      BY <2>0, <2>2 DEF OnPrimary
    <3>2. /\ \A q \in Procs \ {r} : proc'[q] = proc[q]
          /\ proc'[r].op # "upgrade" /\ proc'[r].ok
          /\ \/ proc'[r].pc = "idle"
             \/ proc'[r].pc = "mutex" /\ proc'[r].node = primary
      <4>1. CASE proc[r].node = primary
        BY <2>0, <2>8, <3>1, <4>1 DEF Record, To, ProcState
      <4>2. CASE proc[r].node # primary
        BY <2>0, <2>8, <3>1, <4>2 DEF Record, Ended, Idle
      <4> QED BY <4>1, <4>2
    <3>3. row'.inst = row.inst /\ row'.current = row.current
      BY <2>0, <2>8 DEF Record, Updated, Row
    <3>4. ~InWork(r) /\ UNCHANGED <<schema, cluster>>
      BY <2>8 DEF Record, At, InWork
    <3> QED BY <2>a, <3>1, <3>2, <3>3, <3>4
  <2>9. ASSUME NEW r \in Requests, Enter(r) PROVE OnPrimary' /\ CopyCurrent' /\ RowExplained'
    <3>1. proc[r].op # "upgrade" /\ proc[r].ok /\ r \in Procs
      BY <2>0, <2>2 DEF OnPrimary
    <3>2. proc[r].node = primary /\ MutexFree(primary)
      BY <2>2, <2>9, <3>1 DEF OnPrimary, Enter, At
    <3>3. proc' = [proc EXCEPT ![r].reg = row, ![r].pc = "lock"]
      BY <2>9, <3>1 DEF Enter
    <3>4. /\ \A q \in Procs \ {r} : proc'[q] = proc[q]
          /\ proc'[r].op # "upgrade" /\ proc'[r].ok /\ proc'[r].pc = "lock"
          /\ proc'[r].node = primary /\ proc'[r].reg = row
      BY <2>0, <3>1, <3>2, <3>3 DEF ProcState
    <3> QED BY <2>b, <2>9, <3>1, <3>2, <3>4 DEF Enter
  <2>10. ASSUME NEW r \in Requests, NEW n \in Nodes, NEW op \in Ops, Begin(r, n, op)
         PROVE  OnPrimary' /\ CopyCurrent' /\ RowExplained'
    <3>1. op # "upgrade" /\ r \in Procs
      BY <2>0, <2>10 DEF Begin
    <3>2. /\ \A q \in Procs \ {r} : proc'[q] = proc[q]
          /\ proc'[r].op # "upgrade" /\ proc'[r].ok /\ proc'[r].pc = "record"
      BY <2>0, <2>10, <3>1 DEF Begin, Idle
    <3>3. ~InWork(r) /\ UNCHANGED <<row, schema, cluster>>
      BY <2>10 DEF Begin, At, InWork
    <3> QED BY <2>a, <3>1, <3>2, <3>3
  <2>11. ASSUME NEW n \in Nodes, Tick(n) PROVE OnPrimary' /\ CopyCurrent' /\ RowExplained'
    <3>1. proc[n].op # "upgrade" /\ proc[n].ok /\ n \in Procs /\ proc[n].node = n
      BY <2>0, <2>2 DEF OnPrimary, MutexHeld
    <3>2. UNCHANGED <<row, schema, cluster>>
      BY <2>11 DEF Tick
    <3>3. CASE n = primary
      <4>1. /\ \A q \in Procs \ {n} : proc'[q] = proc[q]
            /\ proc'[n].op # "upgrade" /\ proc'[n].ok /\ proc'[n].pc = "lock"
            /\ proc'[n].node = primary /\ proc'[n].reg = row
        BY <2>0, <2>11, <3>1, <3>3 DEF Tick, ProcState
      <4> QED BY <2>b, <2>11, <3>1, <3>2, <3>3, <4>1 DEF Tick
    <3>4. CASE n # primary
      <4>1. /\ \A q \in Procs \ {n} : proc'[q] = proc[q]
            /\ proc'[n].op # "upgrade" /\ proc'[n].ok /\ proc'[n].pc = "project"
        BY <2>0, <2>11, <3>1, <3>4 DEF Tick, ProcState
      <4>2. ~InWork(n)
        BY <2>11 DEF Tick, At, InWork
      <4> QED BY <2>a, <3>1, <3>2, <4>1, <4>2
    <3> QED BY <3>3, <3>4
  <2>12. CASE Age
    <3>1. \A q \in Procs :
            /\ proc'[q].pc = proc[q].pc /\ proc'[q].node = proc[q].node
            /\ proc'[q].op = proc[q].op /\ proc'[q].ok = proc[q].ok /\ proc'[q].work = proc[q].work
            /\ proc'[q].reg.inst = proc[q].reg.inst /\ proc'[q].reg.current = proc[q].reg.current
      BY <2>0, <2>12 DEF Age, ProcState, Row
    <3>2. row'.inst = row.inst /\ row'.current = row.current /\ UNCHANGED <<schema, cluster>>
      BY <2>0, <2>12 DEF Age, Row
    <3>3. OnPrimary'
      BY <2>2, <3>1, <3>2 DEF OnPrimary, cluster
    <3>4. CopyCurrent'
      BY <2>2, <3>1, <3>2 DEF CopyCurrent
    <3>5. RowExplained'
      BY <2>2, <3>1, <3>2 DEF RowExplained, InWork
    <3> QED BY <3>3, <3>4, <3>5
  <2>13. CASE UNCHANGED <<row, schema, cluster, proc>>
    BY <2>2, <2>13 DEF OnPrimary, CopyCurrent, RowExplained, InWork, cluster
  <2>14. ASSUME NEW p \in Procs,
                RecoverStale(p) \/ Rollback(p) \/ MarkFailed(p) \/ Failure(p)
         PROVE  FALSE
    BY <2>1, <2>2, <2>14
       DEF OnPrimary, RecoverStale, Rollback, MarkFailed, At, Failure, LockFails, RecoverFails,
           MarkFails, SideFails, FinalizeFails, NotifyFails, UnlockFails, ProjectFails
  <2>15. ASSUME NEW r \in Requests,
                RequestFailure(r) \/ MarkRunning(r) \/ Reread(r) \/ RestoreUpgrade(r)
         PROVE  FALSE
    BY <2>0, <2>1, <2>2, <2>15
       DEF OnPrimary, RequestFailure, RecordFails, MarkRunningFails, RestoreUpgradeFails,
           MarkRunning, Reread, RestoreUpgrade, At
  <2>16. ASSUME NEW n \in Nodes, Crash(n) \/ Elect(n) \/ Restart(n) PROVE FALSE
    <3>1. up[n] /\ up[primary]
      BY <2>2 DEF OnPrimary, TypeOK
    <3> QED BY <2>1, <2>16, <3>1 DEF Crash, Elect, Restart
  <2> QED
    BY <2>3, <2>4, <2>5, <2>6, <2>7, <2>8, <2>9, <2>10, <2>11, <2>12, <2>13, <2>14, <2>15, <2>16
       DEF Next, Pass, Request, Time, LeaseEnds, vars
<1> QED BY <1>1, <1>2, TypeCorrect, MutexInvariant, PTL DEF Spec

\* Without faults and upgrades the tables exist exactly while the row says that
\* the plugin is installed: nothing comes between the read of the row, the choice
\* of the work and its end.
THEOREM SchemaMatchesThm == Spec => []SchemaMatches
<1>1. Settled => SchemaMatches
  <2> SUFFICES ASSUME Settled, calm, row.current \in Host PROVE schema = row.inst
    BY DEF SchemaMatches
  <2>1. \A p \in Procs : ~InWork(p)
    BY DEF Settled, RowExplained, Host
  <2> QED BY <2>1 DEF Settled, RowExplained, InWork
<1> QED BY <1>1, SettledInvariant, PTL

=============================================================================
