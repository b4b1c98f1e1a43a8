-------------------------- MODULE JobSchedulerProofs --------------------------
(***************************************************************************)
(* Proofs about JobScheduler, for every number of nodes, calls, requests,  *)
(* executions and faults, and whatever settings the job is given.          *)
(***************************************************************************)
EXTENDS JobScheduler, FiniteSetTheorems, TLAPS

USE SchedulerAssumption

-----------------------------------------------------------------------------
(***************************************************************************)
(* The inductive invariant.  A call in flight is on a node that is up; its *)
(* release is pending exactly while it still has to give a slot back; log  *)
(* ids are never used twice.                                               *)
(***************************************************************************)

CallsPlaced ==
    \A c \in Calls : ~At(c, "idle") => call[c].at \in Nodes /\ phase[call[c].at] = "up"

SlotsPending == \A c \in Calls : call[c].slot => HoldsSlot(c)

LogsFresh ==
    /\ \A r \in running : r.id < nextLog
    /\ \A c \in Calls : Executing(c) => call[c].log < nextLog
    /\ \A c, d \in Calls :
          c # d /\ Executing(c) /\ Executing(d) => call[c].log # call[d].log

CallInv == TypeOK /\ CallsPlaced /\ SlotsPending /\ SlotsExact

IInv == CallInv /\ LogsFresh /\ RowsMatchExecutions

-----------------------------------------------------------------------------
\* The next-state relation, one action at a time: what every proof by cases
\* below starts from.
CallStep(c) ==
    \/ Fire(c) \/ Trigger(c) \/ SkipNotPrimary(c) \/ QuotaFails(c) \/ CreateFails(c) \/ Run(c)

AdminStep(a) == Receive(a) \/ WriteFails(a) \/ RefreshFails(a) \/ Serve(a)

LEMMA NextCases ==
    ASSUME [Next]_vars
    PROVE  \/ \E n \in Nodes : Reclaim(n) \/ Load(n) \/ Crash(n)
           \/ \E c \in Calls : CallStep(c)
           \/ \E a \in Admins : AdminStep(a)
           \/ TriggerFails \/ ClearLogs
           \/ UNCHANGED vars
  BY DEF Next, CallStep, AdminStep

\* A request touches the row and the gcron entry of its node, nothing else.
LEMMA AdminStepIsLocal ==
    ASSUME NEW a \in Admins, AdminStep(a)
    PROVE  UNCHANGED <<logVars, phase, slots, call>>
  BY DEF AdminStep, Serve, Receive, CreateJob, UpdateJob, Enable, Disable, ResetJob,
         DeleteJob, WriteFails, RefreshFails, Unregister, RefreshRemove, RefreshReload,
         RefreshAdd, nodeVars, logVars

\* A call changes the state of no other call.
LEMMA CallStepIsLocal ==
    ASSUME TypeOK, NEW c \in Calls, CallStep(c)
    PROVE  /\ \A d \in Calls : d # c => call'[d] = call[d]
           /\ UNCHANGED phase
  BY DEF CallStep, Run, TypeOK, Goto, Return, Released, NewLog, Fire, SkipNotPrimary, PassScope,
         AcquireSlot, DisableExhausted, Claim, ClaimLost, QuotaFails, CreateFails,
         CreateExecution, RemoveLast, Trigger, Finish, Free, RemoveExhausted, nodeVars

-----------------------------------------------------------------------------
\* A call that holds a slot is counted, so its release keeps the count natural.
LEMMA HolderCounted ==
    ASSUME TypeOK, SlotsExact, NEW c \in Calls, HoldsSlot(c), call[c].at \in Nodes
    PROVE  slots[call[c].at] >= 1
<1> DEFINE H == {d \in Calls : call[d].at = call[c].at /\ HoldsSlot(d)}
<1>1. IsFiniteSet(H) /\ c \in H
  BY FS_Subset
<1>2. Cardinality(H) # 0 /\ Cardinality(H) \in Nat
  BY <1>1, FS_CardinalityType, FS_EmptySet
<1>3. slots[call[c].at] = Cardinality(H)
  BY DEF SlotsExact
<1> QED BY <1>2, <1>3

LEMMA AnyTyped == AnySettings \in Settings
  BY DEF AnySettings

\* The types of the locals of calls and requests.
LEMMA LocalsTypeStep ==
    ASSUME TypeOK, CallsPlaced, [Next]_vars
    PROVE  call' \in [Calls -> CallState] /\ req' \in [Admins -> Request]
<1>1. IdleCall \in CallState /\ IdleReq \in Request
  BY AnyTyped DEF IdleCall, CallState, IdleReq, Request, AllOps, Status
<1>2. ASSUME NEW c \in Calls, CallStep(c)
      PROVE  call' \in [Calls -> CallState]
  <2> USE <1>1 DEF TypeOK, Goto, Return, Released, At
  <2>0. call \in [Calls -> CallState] /\ call[c] \in CallState
    OBVIOUS
  <2>1. CASE Fire(c)
    <3>1. PICK n \in Nodes :
             call' = [call EXCEPT ![c].pc = "scope", ![c].at = n,
                                  ![c].job = settings, ![c].seen = count]
      BY <2>1 DEF Fire
    <3> QED BY <2>0, <3>1 DEF CallState
  <2>2. CASE SkipNotPrimary(c)
    BY <2>0, <2>2 DEF SkipNotPrimary
  <2>3. CASE PassScope(c)
    BY <2>0, <2>3 DEF PassScope, CallState
  <2>4. CASE AcquireSlot(c)
    BY <2>0, <2>4 DEF AcquireSlot, CallState
  <2>5. CASE DisableExhausted(c)
    BY <2>0, <2>5 DEF DisableExhausted, CallState
  <2>6. CASE Claim(c)
    <3>1. LastOne(c) \in BOOLEAN
      BY DEF LastOne, Exhausted
    <3> QED BY <2>0, <2>6, <3>1 DEF Claim, CallState
  <2>7. CASE ClaimLost(c)
    BY <2>0, <2>7 DEF ClaimLost, CallState
  <2>8. CASE QuotaFails(c) \/ CreateFails(c)
    <3>1. call' = [call EXCEPT ![c].pc = "free", ![c].last = FALSE]
      BY <2>8 DEF QuotaFails, CreateFails
    <3> QED BY <2>0, <3>1 DEF CallState
  <2>9. CASE CreateExecution(c)
    BY <2>0, <2>9 DEF CreateExecution, CallState, NewLog
  <2>10. CASE RemoveLast(c)
    BY <2>0, <2>10 DEF RemoveLast, CallState
  <2>11. CASE Trigger(c)
    <3>1. PICK n \in Nodes :
             call' = [call EXCEPT ![c].pc = "exec", ![c].at = n, ![c].log = nextLog]
      BY <2>11 DEF Trigger
    <3> QED BY <2>0, <3>1 DEF CallState
  <2>12. CASE Finish(c)
    BY <2>0, <2>12 DEF Finish, CallState
  <2>13. CASE Free(c)
    BY <2>0, <2>13 DEF Free, CallState
  <2>14. CASE RemoveExhausted(c)
    BY <2>0, <2>14 DEF RemoveExhausted
  <2> QED
    BY <1>2, <2>1, <2>2, <2>3, <2>4, <2>5, <2>6, <2>7, <2>8, <2>9, <2>10, <2>11, <2>12, <2>13, <2>14 DEF CallStep, Run
<1>3. ASSUME NEW a \in Admins, AdminStep(a)
      PROVE  req' \in [Admins -> Request]
  <2> USE <1>1 DEF TypeOK, Then, Writes
  <2>0. req \in [Admins -> Request] /\ req[a] \in Request
    OBVIOUS
  <2>1. CASE Receive(a)
    BY <2>0, <2>1 DEF Receive, Request, AllOps, Status
  <2>2. CASE CreateJob(a)
    BY <2>0, <2>2 DEF CreateJob, Request
  <2>3. CASE UpdateJob(a)
    BY <2>0, <2>3 DEF UpdateJob, Request
  <2>4. CASE Enable(a)
    BY <2>0, <2>4 DEF Enable, Request
  <2>5. CASE Disable(a)
    BY <2>0, <2>5 DEF Disable, Request
  <2>6. CASE ResetJob(a)
    BY <2>0, <2>6 DEF ResetJob, Request
  <2>7. CASE DeleteJob(a)
    BY <2>0, <2>7 DEF DeleteJob, Request
  <2>8. CASE WriteFails(a) \/ RefreshFails(a)
    BY <2>0, <2>8 DEF WriteFails, RefreshFails
  <2>9. CASE Unregister(a)
    BY <2>0, <2>9 DEF Unregister
  <2>10. CASE RefreshRemove(a)
    BY <2>0, <2>10 DEF RefreshRemove, Request
  <2>11. CASE RefreshReload(a)
    BY <2>0, <2>11 DEF RefreshReload, Request
  <2>12. CASE RefreshAdd(a)
    BY <2>0, <2>12 DEF RefreshAdd
  <2> QED
    BY <1>3, <2>1, <2>2, <2>3, <2>4, <2>5, <2>6, <2>7, <2>8, <2>9, <2>10, <2>11, <2>12 DEF AdminStep, Serve
<1>4. ASSUME NEW n \in Nodes, Reclaim(n) \/ Load(n) \/ Crash(n)
      PROVE  call' \in [Calls -> CallState] /\ req' \in [Admins -> Request]
  BY <1>1, <1>4 DEF Reclaim, Load, Crash, TypeOK
<1>5. ASSUME NEW c \in Calls, CallStep(c)
      PROVE  req' = req
  BY <1>5 DEF CallStep, Run, Fire, SkipNotPrimary, PassScope, AcquireSlot,
         DisableExhausted, Claim, ClaimLost, QuotaFails, CreateFails, CreateExecution,
         RemoveLast, Trigger, Finish, Free, RemoveExhausted
<1>6. CASE TriggerFails \/ ClearLogs \/ UNCHANGED vars
  BY <1>6 DEF vars, TypeOK, TriggerFails, ClearLogs
<1> QED
  BY <1>2, <1>3, <1>4, <1>5, <1>6, NextCases, AdminStepIsLocal DEF TypeOK

\* The types of the row, the logs and the nodes.
LEMMA TypeStep ==
    ASSUME CallInv, [Next]_vars
    PROVE  TypeOK'
<1> USE DEF CallInv
<1>0. call' \in [Calls -> CallState] /\ req' \in [Admins -> Request]
  BY LocalsTypeStep
<1> DEFINE RestOK == /\ status \in Status /\ settings \in Settings
                     /\ count \in Nat /\ claims \in Nat
                     /\ running \subseteq [id : Nat, node : Nodes]
                     /\ nextLog \in Nat /\ orphans \subseteq Nat /\ cleared \subseteq Nat
                     /\ faults \in Nat
                     /\ phase \in [Nodes -> {"down", "load", "up"}]
                     /\ entry \in [Nodes -> BOOLEAN] /\ slots \in [Nodes -> Nat]
<1> SUFFICES RestOK'
  BY <1>0 DEF TypeOK
<1> USE DEF TypeOK, Fault, rowVars, logVars, nodeVars, Status
<1>1. ASSUME NEW n \in Nodes, Reclaim(n) \/ Load(n) \/ Crash(n)
      PROVE  RestOK'
  <2>1. CASE Reclaim(n)
    <3> DEFINE mine == {r \in running : r.node = n}
               ids  == {r.id : r \in mine}
    <3>1. ids \subseteq Nat
      OBVIOUS
    <3>2. \/ running' = running \ mine /\ orphans' = orphans /\ faults' = faults
          \/ running' = running /\ orphans' = orphans \cup ids /\ faults' = faults + 1
      BY <2>1 DEF Reclaim
    <3> HIDE DEF ids, mine
    <3>3. running' \subseteq running
      BY <3>2
    <3>4. orphans' \subseteq Nat
      BY <3>1, <3>2
    <3>5. faults' \in Nat
      BY <3>2
    <3> QED BY <2>1, <3>3, <3>4, <3>5 DEF Reclaim
  <2>2. CASE Load(n)    BY <2>2 DEF Load
  <2>3. CASE Crash(n)   BY <2>3 DEF Crash
  <2> QED BY <1>1, <2>1, <2>2, <2>3
<1>2. ASSUME NEW c \in Calls, CallStep(c)
      PROVE  RestOK'
  <2>0. call[c] \in CallState
    OBVIOUS
  <2>1. CASE SkipNotPrimary(c) \/ PassScope(c) \/ ClaimLost(c)
    BY <2>1 DEF SkipNotPrimary, PassScope, ClaimLost
  <2>10. CASE Fire(c)
    <3>1. UNCHANGED <<rowVars, logVars, nodeVars, faults>>
      BY <2>10 DEF Fire
    <3> QED BY <3>1
  <2>11. CASE QuotaFails(c)
    <3>1. UNCHANGED <<logVars, nodeVars>> /\ faults' = faults + 1 /\ settings' = settings
      BY <2>11 DEF QuotaFails, DisableRow, ClaimRow
    <3>2. status' \in Status /\ count' \in {count, count + 1} /\ claims' \in {claims, claims + 1}
      BY <2>11 DEF QuotaFails, DisableRow, ClaimRow
    <3> QED BY <3>1, <3>2
  <2>12. CASE CreateFails(c)
    <3>1. call[c].at \in Nodes
      BY <2>12 DEF CreateFails, CallsPlaced, At
    <3>2. UNCHANGED <<rowVars, nodeVars, cleared>> /\ faults' = faults + 1
      BY <2>12 DEF CreateFails, LostLog, NewRow
    <3>3. UNCHANGED logVars \/ LostLog(call[c].at)
      BY <2>12 DEF CreateFails
    <3>4. CASE UNCHANGED logVars
      BY <3>2, <3>4
    <3>5. CASE LostLog(call[c].at)
      <4>1. /\ running' = running \cup {[id |-> nextLog, node |-> call[c].at]}
            /\ nextLog' = nextLog + 1 /\ orphans' = orphans \cup {nextLog}
        BY <3>5 DEF LostLog, NewRow
      <4>2. running' \subseteq [id : Nat, node : Nodes]
        BY <3>1, <4>1
      <4>3. nextLog \in Nat /\ orphans \subseteq Nat
        OBVIOUS
      <4>4. nextLog' \in Nat
        BY <4>1, <4>3
      <4>5. orphans' \subseteq Nat
        BY <4>1, <4>3
      <4> QED BY <3>2, <4>2, <4>4, <4>5
    <3> QED BY <3>3, <3>4, <3>5
  <2>2. CASE AcquireSlot(c)
    BY <2>2 DEF AcquireSlot
  <2>3. CASE DisableExhausted(c)
    BY <2>3 DEF DisableExhausted, DisableRow
  <2>4. CASE Claim(c)
    BY <2>4 DEF Claim, ClaimRow
  <2>5. CASE CreateExecution(c)
    <3>1. call[c].at \in Nodes
      BY <2>5 DEF CreateExecution, CallsPlaced, At
    <3> QED BY <2>5, <3>1 DEF CreateExecution, NewLog, NewRow
  <2>6. CASE RemoveLast(c) \/ RemoveExhausted(c)
    BY <2>6 DEF RemoveLast, RemoveExhausted
  <2>7. CASE Trigger(c)
    <3>1. PICK n \in Nodes : NewLog(n)
      BY <2>7 DEF Trigger
    <3>2. running' = running \cup {[id |-> nextLog, node |-> n]} /\ nextLog' = nextLog + 1
          /\ UNCHANGED <<orphans, cleared>>
      BY <3>1 DEF NewLog, NewRow
    <3>3. running' \subseteq [id : Nat, node : Nodes]
      BY <3>2
    <3>4. nextLog' \in Nat /\ orphans' \subseteq Nat /\ cleared' \subseteq Nat
      BY <3>2
    <3>5. UNCHANGED <<rowVars, nodeVars, faults>>
      BY <2>7 DEF Trigger
    <3>6. /\ status' \in Status /\ settings' \in Settings /\ count' \in Nat
          /\ claims' \in Nat /\ faults' \in Nat
      BY <3>5
    <3>7. /\ phase' \in [Nodes -> {"down", "load", "up"}]
          /\ entry' \in [Nodes -> BOOLEAN] /\ slots' \in [Nodes -> Nat]
      BY <3>5
    <3> QED BY <3>3, <3>4, <3>6, <3>7
  <2>8. CASE Finish(c)
    <3>1. call[c].log \in Nat
      BY <2>0 DEF CallState
    <3> DEFINE rest == {r \in running : r.id # call[c].log}
    <3>2. \/ running' = rest /\ orphans' = orphans /\ faults' = faults
          \/ running' = running /\ orphans' = orphans \cup {call[c].log} /\ faults' = faults + 1
      BY <2>8 DEF Finish
    <3>3. rest \subseteq running
      OBVIOUS
    <3> HIDE DEF rest
    <3>4. running' \subseteq [id : Nat, node : Nodes]
      BY <3>2, <3>3
    <3>5. orphans' \subseteq Nat
      BY <3>1, <3>2
    <3>6. faults' \in Nat
      BY <3>2
    <3>7. UNCHANGED <<rowVars, nextLog, cleared, nodeVars>>
      BY <2>8 DEF Finish
    <3> QED BY <3>4, <3>5, <3>6, <3>7
  <2>9. CASE Free(c)
    <3>1. call[c].at \in Nodes
      BY <2>9 DEF Free, CallsPlaced, At
    <3>2. call[c].slot => slots[call[c].at] >= 1
      BY <3>1, HolderCounted DEF SlotsPending
    <3> QED BY <2>9, <3>1, <3>2 DEF Free
  <2> QED
    BY <1>2, <2>1, <2>2, <2>3, <2>4, <2>5, <2>6, <2>7, <2>8, <2>9, <2>10, <2>11, <2>12
       DEF CallStep, Run
<1>3. ASSUME NEW a \in Admins, AdminStep(a)
      PROVE  RestOK'
  <2> USE DEF InsertRow, SaveRow, WriteStatus, ResetRow, Exists
  <2>0. req[a].seen \in Nat
    BY DEF Request
  <2>1. CASE Receive(a) \/ RefreshFails(a) \/ RefreshReload(a)
    <3>1. UNCHANGED <<rowVars, logVars, nodeVars>> /\ faults' \in {faults, faults + 1}
      BY <2>1 DEF Receive, RefreshFails, RefreshReload
    <3> QED BY <3>1
  <2>7. CASE WriteFails(a)
    <3>1. UNCHANGED <<logVars, nodeVars>> /\ faults' = faults + 1
      BY <2>7 DEF WriteFails
    <3>2. /\ status' \in Status /\ settings' \in Settings
          /\ count' \in Nat /\ claims' \in Nat
      BY <2>0, <2>7 DEF WriteFails
    <3> QED BY <3>1, <3>2
  <2>2. CASE CreateJob(a)
    BY <2>2 DEF CreateJob
  <2>3. CASE UpdateJob(a)
    BY <2>0, <2>3 DEF UpdateJob, Request
  <2>4. CASE Enable(a) \/ Disable(a) \/ DeleteJob(a)
    BY <2>4 DEF Enable, Disable, DeleteJob
  <2>5. CASE ResetJob(a)
    BY <2>5 DEF ResetJob
  <2>6. CASE Unregister(a) \/ RefreshRemove(a) \/ RefreshAdd(a)
    BY <2>6 DEF Unregister, RefreshRemove, RefreshAdd
  <2> QED
    BY <1>3, <2>1, <2>2, <2>3, <2>4, <2>5, <2>6, <2>7 DEF AdminStep, Serve
<1>5. CASE TriggerFails
  <2>1. PICK n \in Nodes : LostLog(n)
    BY <1>5 DEF TriggerFails
  <2> QED BY <1>5, <2>1 DEF TriggerFails, LostLog, NewRow
<1>6. CASE ClearLogs
  <2>1. PICK rows \in SUBSET running :
           running' = running \ rows /\ cleared' = cleared \cup {r.id : r \in rows}
    BY <1>6 DEF ClearLogs
  <2>2. running \subseteq [id : Nat, node : Nodes] /\ cleared \subseteq Nat
    OBVIOUS
  <2> DEFINE ids == {r.id : r \in rows}
  <2>3. ids \subseteq Nat
    BY <2>2
  <2>4. running' = running \ rows /\ cleared' = cleared \cup ids
    BY <2>1
  <2> HIDE DEF ids
  <2>5. cleared' \subseteq Nat
    BY <2>2, <2>3, <2>4
  <2>6. running' \subseteq [id : Nat, node : Nodes]
    BY <2>2, <2>4
  <2>7. UNCHANGED <<rowVars, nextLog, orphans, nodeVars, faults>>
    BY <1>6 DEF ClearLogs
  <2> QED BY <2>5, <2>6, <2>7
<1>4. CASE UNCHANGED vars
  BY <1>4 DEF vars
<1> QED BY <1>1, <1>2, <1>3, <1>4, <1>5, <1>6, NextCases

-----------------------------------------------------------------------------
(* Slots. *)

\* What one step of a call does to its slot and its place.
Acquires(c) ==
    /\ ~HoldsSlot(c) /\ HoldsSlot(c)'
    /\ call'[c].at = call[c].at /\ call'[c].job = call[c].job
    /\ slots[call[c].at] < call[c].job.limit
    /\ slots' = [slots EXCEPT ![call[c].at] = @ + 1]

Releases(c) ==
    /\ HoldsSlot(c) /\ ~HoldsSlot(c)'
    /\ slots' = [slots EXCEPT ![call[c].at] = @ - 1]

Keeps(c) ==
    /\ HoldsSlot(c)' <=> HoldsSlot(c)
    /\ HoldsSlot(c) => call'[c].at = call[c].at /\ call'[c].job = call[c].job
    /\ slots' = slots

LEMMA SlotEffect ==
    ASSUME CallInv, NEW c \in Calls, CallStep(c)
    PROVE  /\ Acquires(c) \/ Releases(c) \/ Keeps(c)
           /\ call'[c].slot => HoldsSlot(c)'
           /\ call'[c].pc # "idle" => call'[c].at \in Nodes /\ phase[call'[c].at] = "up"
<1> USE DEF CallInv, TypeOK, At, Goto, Return, Released, HoldsSlot, Keeps, nodeVars
<1>0. call[c] \in CallState /\ (call[c].slot => HoldsSlot(c))
  BY DEF SlotsPending
<1>1. ~At(c, "idle") => call[c].at \in Nodes /\ phase[call[c].at] = "up"
  BY DEF CallsPlaced
<1>2. CASE Fire(c)
  <2>1. PICK n \in Nodes :
           /\ phase[n] = "up"
           /\ call' = [call EXCEPT ![c].pc = "scope", ![c].at = n,
                                   ![c].job = settings, ![c].seen = count]
    BY <1>2 DEF Fire
  <2> QED BY <1>0, <1>2, <2>1 DEF Fire, CallState
<1>3. CASE Trigger(c)
  <2>1. PICK n \in Nodes :
           /\ phase[n] = "up"
           /\ call' = [call EXCEPT ![c].pc = "exec", ![c].at = n, ![c].log = nextLog]
    BY <1>3 DEF Trigger
  <2> QED BY <1>0, <1>3, <2>1 DEF Trigger, CallState
<1>4. CASE SkipNotPrimary(c) \/ RemoveExhausted(c)
  BY <1>0, <1>4 DEF SkipNotPrimary, RemoveExhausted, IdleCall, CallState
<1>5. CASE AcquireSlot(c)
  BY <1>0, <1>1, <1>5 DEF AcquireSlot, IdleCall, CallState, Acquires
<1>6. CASE PassScope(c)
  BY <1>0, <1>1, <1>6 DEF PassScope, CallState
<1>7. CASE DisableExhausted(c) \/ Claim(c) \/ ClaimLost(c)
  BY <1>0, <1>1, <1>7 DEF DisableExhausted, Claim, ClaimLost, CallState
<1>10. CASE QuotaFails(c) \/ CreateFails(c)
  BY <1>0, <1>1, <1>10 DEF QuotaFails, CreateFails, CallState
<1>8. CASE CreateExecution(c) \/ RemoveLast(c) \/ Finish(c)
  BY <1>0, <1>1, <1>8 DEF CreateExecution, RemoveLast, Finish, CallState
<1>9. CASE Free(c)
  <2>1. CASE call[c].slot
    BY <1>0, <1>1, <1>9, <2>1 DEF Free, IdleCall, CallState, Releases
  <2>2. CASE ~call[c].slot
    <3>1. slots' = slots
      BY <1>9, <2>2 DEF Free
    <3> QED BY <1>0, <1>1, <1>9, <2>2, <3>1 DEF Free, IdleCall, CallState
  <2> QED BY <2>1, <2>2
<1> QED
  BY <1>2, <1>3, <1>4, <1>5, <1>6, <1>7, <1>8, <1>9, <1>10 DEF CallStep, Run

LEMMA PlacedStep ==
    ASSUME CallInv, [Next]_vars
    PROVE  CallsPlaced' /\ SlotsPending'
<1> USE DEF CallInv, CallsPlaced, SlotsPending, HoldsSlot, At
<1>1. ASSUME NEW n \in Nodes, Reclaim(n) \/ Load(n) \/ Crash(n)
      PROVE  CallsPlaced' /\ SlotsPending'
  BY <1>1 DEF Reclaim, Load, Crash, TypeOK, IdleCall
<1>2. ASSUME NEW c \in Calls, CallStep(c)
      PROVE  CallsPlaced' /\ SlotsPending'
  BY <1>2, SlotEffect, CallStepIsLocal
<1>3. ASSUME NEW a \in Admins, AdminStep(a)
      PROVE  CallsPlaced' /\ SlotsPending'
  BY <1>3, AdminStepIsLocal
<1>4. CASE TriggerFails \/ ClearLogs \/ UNCHANGED vars
  BY <1>4 DEF TriggerFails, ClearLogs, vars, nodeVars
<1> QED BY <1>1, <1>2, <1>3, <1>4, NextCases

LEMMA CountStep ==
    ASSUME CallInv, [Next]_vars
    PROVE  (\A n \in Nodes :
              slots[n] = Cardinality({c \in Calls : call[c].at = n /\ HoldsSlot(c)}))'
<1> DEFINE H(n) == {c \in Calls : call[c].at = n /\ HoldsSlot(c)}
           Exact(n) == slots[n] = Cardinality(H(n))
<1> USE DEF CallInv
<1>0. \A n \in Nodes : Exact(n) /\ IsFiniteSet(H(n)) /\ Cardinality(H(n)) \in Nat
  BY FS_Subset, FS_CardinalityType DEF SlotsExact
<1> SUFFICES ASSUME NEW n \in Nodes
             PROVE  Exact(n)'
  OBVIOUS
<1>1. ASSUME NEW m \in Nodes, Reclaim(m) \/ Load(m) \/ Crash(m)
      PROVE  Exact(n)'
  <2>1. CASE Reclaim(m) \/ Load(m)
    <3>1. call' = call /\ slots' = slots
      BY <2>1 DEF Reclaim, Load
    <3> QED BY <1>0, <3>1 DEF HoldsSlot
  <2>2. CASE Crash(m) /\ n = m
    <3>1. H(n)' = {}
      BY <2>2 DEF Crash, HoldsSlot, IdleCall, TypeOK
    <3>2. slots'[n] = 0
      BY <2>2 DEF Crash, TypeOK
    <3>3. Cardinality(H(n)') = 0
      BY <3>1, FS_EmptySet
    <3> QED BY <3>2, <3>3
  <2>3. CASE Crash(m) /\ n # m
    <3>1. H(n)' = H(n)
      BY <2>3 DEF Crash, HoldsSlot, IdleCall, TypeOK
    <3>2. slots'[n] = slots[n]
      BY <2>3 DEF Crash, TypeOK
    <3> QED BY <1>0, <3>1, <3>2
  <2> QED BY <1>1, <2>1, <2>2, <2>3
<1>2. ASSUME NEW c \in Calls, CallStep(c)
      PROVE  Exact(n)'
  <2>0. \A d \in Calls : d # c => call'[d] = call[d]
    BY <1>2, CallStepIsLocal
  <2>1. CASE Acquires(c)
    <3>1. CASE call[c].at = n
      <4>1. H(n)' = H(n) \cup {c} /\ c \notin H(n)
        BY <2>0, <2>1, <3>1 DEF Acquires, HoldsSlot
      <4>2. Cardinality(H(n)') = Cardinality(H(n)) + 1
        BY <1>0, <4>1, FS_AddElement
      <4>3. slots'[n] = slots[n] + 1
        BY <2>1, <3>1 DEF Acquires, TypeOK
      <4> QED BY <1>0, <4>2, <4>3 DEF TypeOK
    <3>2. CASE call[c].at # n
      <4>1. H(n)' = H(n)
        BY <2>0, <2>1, <3>2 DEF Acquires, HoldsSlot
      <4>2. slots'[n] = slots[n]
        BY <2>1, <3>2 DEF Acquires, TypeOK
      <4> QED BY <1>0, <4>1, <4>2
    <3> QED BY <3>1, <3>2
  <2>2. CASE Releases(c)
    <3>1. CASE call[c].at = n
      <4>1. H(n)' = H(n) \ {c} /\ c \in H(n)
        BY <2>0, <2>2, <3>1 DEF Releases, HoldsSlot
      <4> HIDE DEF H
      <4>2. Cardinality(H(n) \ {c}) = Cardinality(H(n)) - 1
        BY <1>0, <4>1, FS_RemoveElement
      <4>3. slots'[n] = slots[n] - 1
        BY <2>2, <3>1 DEF Releases, TypeOK
      <4> QED BY <1>0, <4>1, <4>2, <4>3 DEF TypeOK
    <3>2. CASE call[c].at # n
      <4>1. H(n)' = H(n)
        BY <2>0, <2>2, <3>2 DEF Releases, HoldsSlot
      <4>2. slots'[n] = slots[n]
        BY <2>2, <3>2 DEF Releases, TypeOK
      <4> QED BY <1>0, <4>1, <4>2
    <3> QED BY <3>1, <3>2
  <2>3. CASE Keeps(c)
    <3>1. H(n)' = H(n)
      BY <2>0, <2>3 DEF Keeps, HoldsSlot
    <3> QED BY <1>0, <2>3, <3>1 DEF Keeps
  <2> QED BY <1>2, <2>1, <2>2, <2>3, SlotEffect
<1>3. ASSUME NEW a \in Admins, AdminStep(a)
      PROVE  Exact(n)'
  BY <1>0, <1>3, AdminStepIsLocal DEF HoldsSlot
<1>4. CASE TriggerFails \/ ClearLogs \/ UNCHANGED vars
  BY <1>0, <1>4 DEF TriggerFails, ClearLogs, vars, nodeVars, HoldsSlot
<1> QED BY <1>1, <1>2, <1>3, <1>4, NextCases

\* A call is let in when fewer slots are taken than its own limit, so that with it
\* no more than that many are let in under that limit or a smaller one.
LEMMA LimitStep ==
    ASSUME CallInv, [Next]_vars
    PROVE  (\A n \in Nodes : \A s \in Settings : Cardinality(Holders(n, s.limit)) <= s.limit)'
<1> USE DEF CallInv
<1> SUFFICES ASSUME NEW n \in Nodes, NEW s \in Settings
             PROVE  Cardinality(Holders(n, s.limit)') <= s.limit
  BY DEF Holders, HoldsSlot
<1> DEFINE G == Holders(n, s.limit)
           H == {c \in Calls : call[c].at = n /\ HoldsSlot(c)}
<1>1. IsFiniteSet(G) /\ Cardinality(G) <= s.limit /\ s.limit \in Nat /\ Cardinality(G) \in Nat
  BY FS_Subset, FS_CardinalityType DEF SlotsExact, Holders
<1>2. ASSUME G' \subseteq G
      PROVE  Cardinality(G') <= s.limit
  <2>1. Cardinality(G') <= Cardinality(G) /\ Cardinality(G') \in Nat
    BY <1>1, <1>2, FS_Subset, FS_CardinalityType
  <2> QED BY <1>1, <2>1
<1>3. ASSUME NEW m \in Nodes, Reclaim(m) \/ Load(m) \/ Crash(m)
      PROVE  Cardinality(G') <= s.limit
  <2>1. G' \subseteq G
    BY <1>3 DEF Reclaim, Load, Crash, Holders, HoldsSlot, IdleCall, TypeOK
  <2> QED BY <1>2, <2>1
<1>4. ASSUME NEW c \in Calls, CallStep(c)
      PROVE  Cardinality(G') <= s.limit
  <2>0. \A d \in Calls : d # c => call'[d] = call[d]
    BY <1>4, CallStepIsLocal
  <2>1. CASE Acquires(c) /\ call[c].at = n /\ call[c].job.limit <= s.limit
    <3>1. slots'[n] = slots[n] + 1 /\ slots[n] < call[c].job.limit /\ slots[n] \in Nat
      BY <2>1 DEF Acquires, TypeOK
    <3>2. call[c].job.limit \in Nat
      BY DEF TypeOK, CallState
    <3>3. slots'[n] = Cardinality(H')
      BY CountStep
    <3>4. G' \subseteq H' /\ IsFiniteSet(H')
      BY FS_Subset DEF Holders
    <3> HIDE DEF G, H
    <3>5. Cardinality(G') <= Cardinality(H') /\ Cardinality(G') \in Nat
      BY <3>4, FS_Subset, FS_CardinalityType
    <3> QED BY <1>1, <2>1, <3>1, <3>2, <3>3, <3>5
  <2>2. CASE Acquires(c) /\ ~(call[c].at = n /\ call[c].job.limit <= s.limit)
    <3>1. G' \subseteq G
      BY <2>0, <2>2 DEF Acquires, Holders, HoldsSlot
    <3> QED BY <1>2, <3>1
  <2>3. CASE Releases(c) \/ Keeps(c)
    <3>1. G' \subseteq G
      BY <2>0, <2>3 DEF Releases, Keeps, Holders, HoldsSlot
    <3> QED BY <1>2, <3>1
  <2> QED BY <1>4, <2>1, <2>2, <2>3, SlotEffect
<1>5. ASSUME NEW a \in Admins, AdminStep(a)
      PROVE  Cardinality(G') <= s.limit
  <2>1. G' \subseteq G
    BY <1>5, AdminStepIsLocal DEF Holders, HoldsSlot
  <2> QED BY <1>2, <2>1
<1>6. CASE TriggerFails \/ ClearLogs \/ UNCHANGED vars
  <2>1. G' \subseteq G
    BY <1>6 DEF TriggerFails, ClearLogs, vars, Holders, HoldsSlot
  <2> QED BY <1>2, <2>1
<1> QED BY <1>3, <1>4, <1>5, <1>6, NextCases

\* The types of all variables, and that every call in flight is on a node that
\* is up and gives back exactly the slot it took.
THEOREM CallInvariant == Spec => []CallInv
<1>1. Init => CallInv
  <2> SUFFICES ASSUME Init PROVE CallInv
    OBVIOUS
  <2>1. TypeOK
    BY AnyTyped DEF Init, TypeOK, Status, IdleCall, CallState, IdleReq, Request, AllOps
  <2>2. CallsPlaced /\ SlotsPending
    BY DEF Init, CallsPlaced, SlotsPending, IdleCall, At
  <2>3. \A n \in Nodes : {c \in Calls : call[c].at = n /\ HoldsSlot(c)} = {}
    BY DEF Init, HoldsSlot, IdleCall
  <2>4. \A n \in Nodes, s \in Settings : Holders(n, s.limit) = {} /\ 0 <= s.limit
    BY <2>3 DEF Holders
  <2>5. SlotsExact
    BY <2>3, <2>4, FS_EmptySet DEF Init, SlotsExact
  <2> QED BY <2>1, <2>2, <2>5 DEF CallInv
<1>2. CallInv /\ [Next]_vars => CallInv'
  <2> SUFFICES ASSUME CallInv, [Next]_vars PROVE CallInv'
    OBVIOUS
  <2>1. SlotsExact'
    BY CountStep, LimitStep DEF SlotsExact
  <2> QED BY <2>1, TypeStep, PlacedStep DEF CallInv
<1> QED BY <1>1, <1>2, PTL DEF Spec

\* The variables always have their types.
THEOREM TypeCorrect == Spec => []TypeOK
  BY CallInvariant, PTL DEF CallInv

\* Spec implies SlotsExact: runningCounts counts exactly the cron calls that
\* still have to release, and of those let in under a limit of at most k there
\* are never more than k on a node, whatever fails and whatever an update makes
\* of the limit.
THEOREM SlotsExactThm == Spec => []SlotsExact
  BY CallInvariant, PTL DEF CallInv

-----------------------------------------------------------------------------
(* Log rows. *)

\* What one step of a call does to the log rows.
Opens(c) ==
    /\ ~Executing(c) /\ Executing(c)'
    /\ running' = running \cup {[id |-> nextLog, node |-> call'[c].at]}
    /\ call'[c].log = nextLog
    /\ nextLog' = nextLog + 1
    /\ orphans' = orphans /\ cleared' = cleared

\* A row that no execution will close.
Loses ==
    /\ \E n \in Nodes : running' = running \cup {[id |-> nextLog, node |-> n]}
    /\ nextLog' = nextLog + 1
    /\ orphans' = orphans \cup {nextLog} /\ cleared' = cleared

Closes(c) ==
    /\ Executing(c) /\ ~Executing(c)'
    /\ \/ running' = {r \in running : r.id # call[c].log} /\ orphans' = orphans
       \/ running' = running /\ orphans' = orphans \cup {call[c].log}
    /\ nextLog' = nextLog /\ cleared' = cleared

GoesOn(c) ==
    /\ Executing(c)' <=> Executing(c)
    /\ Executing(c) => call'[c].log = call[c].log /\ call'[c].at = call[c].at

Leaves(c) == GoesOn(c) /\ UNCHANGED logVars

LEMMA LogEffect ==
    ASSUME CallInv, NEW c \in Calls, CallStep(c)
    PROVE  Opens(c) \/ Closes(c) \/ Leaves(c) \/ (GoesOn(c) /\ Loses)
<1> USE DEF CallInv, TypeOK, At, Goto, Return, Released, Executing, GoesOn, logVars
<1>0. call[c] \in CallState
  OBVIOUS
<1>1. CASE Fire(c)
  <2>1. PICK n \in Nodes :
           call' = [call EXCEPT ![c].pc = "scope", ![c].at = n,
                                ![c].job = settings, ![c].seen = count]
    BY <1>1 DEF Fire
  <2> QED BY <1>0, <1>1, <2>1 DEF Fire, CallState, Leaves
<1>2. CASE Trigger(c)
  <2>1. PICK n \in Nodes :
           /\ NewLog(n)
           /\ call' = [call EXCEPT ![c].pc = "exec", ![c].at = n, ![c].log = nextLog]
    BY <1>2 DEF Trigger
  <2> QED BY <1>0, <1>2, <2>1 DEF Trigger, CallState, NewLog, NewRow, Opens
<1>3. CASE SkipNotPrimary(c) \/ RemoveExhausted(c) \/ AcquireSlot(c) \/ Free(c)
  BY <1>0, <1>3 DEF SkipNotPrimary, RemoveExhausted, AcquireSlot, Free, IdleCall, CallState,
                    Leaves
<1>4. CASE PassScope(c) \/ DisableExhausted(c) \/ Claim(c) \/ ClaimLost(c)
           \/ QuotaFails(c) \/ RemoveLast(c)
  BY <1>0, <1>4 DEF PassScope, DisableExhausted, Claim, ClaimLost, QuotaFails,
                    RemoveLast, CallState, Leaves
<1>7. CASE CreateFails(c)
  <2>1. GoesOn(c)
    BY <1>0, <1>7 DEF CreateFails, CallState
  <2>2. call[c].at \in Nodes
    BY <1>7 DEF CreateFails, CallsPlaced
  <2>3. UNCHANGED logVars \/ Loses
    BY <1>7, <2>2 DEF CreateFails, LostLog, NewRow, Loses
  <2> QED BY <2>1, <2>3 DEF Leaves
<1>5. CASE CreateExecution(c)
  BY <1>0, <1>5 DEF CreateExecution, CallState, NewLog, NewRow, Opens
<1>6. CASE Finish(c)
  BY <1>0, <1>6 DEF Finish, CallState, Closes
<1> QED
  BY <1>1, <1>2, <1>3, <1>4, <1>5, <1>6, <1>7 DEF CallStep, Run

\* A row that is lost belongs to no execution, and needs none.
LEMMA LossStep ==
    ASSUME IInv, Loses, UNCHANGED phase,
           \A c \in Calls : GoesOn(c)
    PROVE  LogsFresh' /\ RowsMatchExecutions'
<1> USE DEF IInv, CallInv
<1>1. PICK n \in Nodes : running' = running \cup {[id |-> nextLog, node |-> n]}
  BY DEF Loses
<1>2. nextLog \in Nat /\ \A r \in running : r.id \in Nat
  BY DEF TypeOK
<1>3. \A c \in Calls : call[c].log \in Nat
  BY DEF TypeOK, CallState
<1>4. LogsFresh'
  BY <1>1, <1>2, <1>3 DEF LogsFresh, Loses, GoesOn
<1>5. RowsMatchExecutions'
  BY <1>1 DEF RowsMatchExecutions, Loses, GoesOn
<1> QED BY <1>4, <1>5

LEMMA LogStep ==
    ASSUME IInv, [Next]_vars
    PROVE  LogsFresh' /\ RowsMatchExecutions'
<1> USE DEF IInv, CallInv, LogsFresh, RowsMatchExecutions
<1>0. \A c \in Calls : Executing(c) => call[c].at \in Nodes /\ phase[call[c].at] = "up"
  BY DEF CallsPlaced, Executing, At
<1>1. ASSUME NEW n \in Nodes, Reclaim(n)
      PROVE  LogsFresh' /\ RowsMatchExecutions'
  <2> DEFINE mine == {r \in running : r.node = n}
  <2>1. /\ call' = call /\ nextLog' = nextLog /\ cleared' = cleared
        /\ phase[n] = "down" /\ phase' = [phase EXCEPT ![n] = "load"]
        /\ \/ running' = running \ mine /\ orphans' = orphans
           \/ running' = running /\ orphans' = orphans \cup {r.id : r \in mine}
    BY <1>1 DEF Reclaim
  <2>2. LogsFresh'
    BY <2>1 DEF Executing
  <2>3. ASSUME NEW c \in Calls, Executing(c)'
        PROVE  [id |-> call[c].log, node |-> call[c].at]' \in running' \/ (call[c].log \in cleared)'
    <3>1. call[c].at # n
      BY <1>0, <2>1, <2>3 DEF Executing
    <3> QED BY <2>1, <2>3, <3>1 DEF Executing
  <2>4. ASSUME NEW r \in running'
        PROVE  \/ (phase[r.node] = "down")'
               \/ (r.id \in orphans)'
               \/ \E c \in Calls : (Executing(c) /\ call[c].log = r.id /\ call[c].at = r.node)'
    <3>1. r \in running /\ r.node \in Nodes
      BY <2>1, <2>4 DEF TypeOK
    <3>2. CASE r.node = n
      BY <2>1, <2>4, <3>1, <3>2
    <3>3. CASE r.node # n
      BY <2>1, <3>1, <3>3 DEF TypeOK, Executing
    <3> QED BY <3>2, <3>3
  <2> QED BY <2>2, <2>3, <2>4
<1>2. ASSUME NEW n \in Nodes, Load(n)
      PROVE  LogsFresh' /\ RowsMatchExecutions'
  BY <1>2 DEF Load, logVars, Executing, TypeOK
<1>3. ASSUME NEW n \in Nodes, Crash(n)
      PROVE  LogsFresh' /\ RowsMatchExecutions'
  <2>1. /\ UNCHANGED logVars
        /\ phase' = [phase EXCEPT ![n] = "down"]
        /\ \A c \in Calls : call'[c] = IF call[c].at = n THEN IdleCall ELSE call[c]
    BY <1>3 DEF Crash
  <2>2. \A c \in Calls : Executing(c)' => Executing(c) /\ call'[c] = call[c] /\ call[c].at # n
    BY <2>1 DEF Executing, IdleCall
  <2>3. \A c \in Calls : Executing(c) /\ call[c].at # n => Executing(c)' /\ call'[c] = call[c]
    BY <2>1 DEF Executing
  <2>4. \A r \in running : r.node \in Nodes
    BY DEF TypeOK
  <2> QED BY <2>1, <2>2, <2>3, <2>4 DEF logVars, TypeOK
<1>4. ASSUME NEW c \in Calls, CallStep(c)
      PROVE  LogsFresh' /\ RowsMatchExecutions'
  <2>0. /\ phase' = phase
        /\ \A d \in Calls : d # c => call'[d] = call[d] /\ (Executing(d)' <=> Executing(d))
    BY <1>4, CallStepIsLocal DEF Executing
  <2>1. CASE Opens(c)
    <3>1. nextLog \in Nat /\ \A r \in running : r.id \in Nat
      BY DEF TypeOK
    <3>2. \A d \in Calls : call[d].log \in Nat
      BY DEF TypeOK, CallState
    <3>3. LogsFresh'
      BY <2>0, <2>1, <3>1, <3>2 DEF Opens
    <3>4. RowsMatchExecutions'
      BY <2>0, <2>1 DEF Opens
    <3> QED BY <3>3, <3>4
  <2>2. CASE Closes(c)
    <3>1. running' \subseteq running /\ nextLog' = nextLog
      BY <2>2 DEF Closes
    <3>2. LogsFresh'
      BY <2>0, <2>2, <3>1 DEF Closes
    <3>3. \A d \in Calls : Executing(d)' =>
             /\ Executing(d) /\ d # c /\ call'[d] = call[d]
             /\ \/ [id |-> call[d].log, node |-> call[d].at] \in running'
                \/ call[d].log \in cleared'
      BY <2>0, <2>2 DEF Closes
    <3>4. RowsMatchExecutions'
      BY <2>0, <2>2, <3>1, <3>3 DEF Closes
    <3> QED BY <3>2, <3>4
  <2>3. CASE Leaves(c)
    BY <2>0, <2>3 DEF Leaves, GoesOn, logVars
  <2>4. CASE GoesOn(c) /\ Loses
    <3>1. \A d \in Calls : GoesOn(d)
      BY <2>0, <2>4 DEF GoesOn
    <3> QED BY <2>0, <2>4, <3>1, LossStep
  <2> QED BY <1>4, <2>1, <2>2, <2>3, <2>4, LogEffect
<1>5. ASSUME NEW a \in Admins, AdminStep(a)
      PROVE  LogsFresh' /\ RowsMatchExecutions'
  BY <1>5, AdminStepIsLocal DEF logVars, Executing
<1>6. CASE UNCHANGED vars
  BY <1>6 DEF vars, logVars, nodeVars, Executing
<1>7. CASE TriggerFails
  <2>1. Loses /\ UNCHANGED <<phase, call>>
    BY <1>7 DEF TriggerFails, LostLog, NewRow, Loses, nodeVars
  <2>2. \A c \in Calls : GoesOn(c)
    BY <2>1 DEF GoesOn, Executing
  <2> QED BY <2>1, <2>2, LossStep
<1>8. CASE ClearLogs
  <2>1. PICK rows \in SUBSET running :
           running' = running \ rows /\ cleared' = cleared \cup {r.id : r \in rows}
    BY <1>8 DEF ClearLogs
  <2>2. UNCHANGED <<nextLog, orphans, phase, call>>
    BY <1>8 DEF ClearLogs, nodeVars
  <2>3. LogsFresh'
    BY <2>1, <2>2 DEF Executing
  <2>4. \A c \in Calls : LET r == [id |-> call[c].log, node |-> call[c].at]
                         IN r \in rows => call[c].log \in cleared'
    BY <2>1
  <2>5. RowsMatchExecutions'
    BY <2>1, <2>2, <2>4 DEF Executing
  <2> QED BY <2>3, <2>5
<1> QED BY <1>1, <1>2, <1>3, <1>4, <1>5, <1>6, <1>7, <1>8, NextCases

\* Spec implies RowsMatchExecutions: reclaiming never closes the row of a live
\* execution, which only a deletion of log rows takes away, and no row stays
\* running unless its insert or its closing update failed.
THEOREM RowsMatchExecutionsThm == Spec => []RowsMatchExecutions
<1>1. Init => LogsFresh /\ RowsMatchExecutions
  BY DEF Init, LogsFresh, RowsMatchExecutions, Executing, IdleCall
<1>2. IInv /\ [Next]_vars => LogsFresh' /\ RowsMatchExecutions'
  BY LogStep
<1>3. Spec => [](LogsFresh /\ RowsMatchExecutions)
  BY <1>1, <1>2, CallInvariant, PTL DEF Spec, IInv
<1> QED BY <1>3, PTL

-----------------------------------------------------------------------------
(* The quota. *)

\* Without UpdateJob the stored count is the number of claims since the last
\* reset, and the settings that a call or the row has are those of the insert.
QuotaInv ==
    /\ count = claims
    /\ settings.quota > 0 => claims <= settings.quota
    /\ status = "absent" => claims = 0 /\ \A c \in Calls : At(c, "idle")
    /\ \A c \in Calls : call[c].pc \in {"scope", "slot", "quota"} => call[c].job = settings
    /\ \A a \in Admins : req[a].pc # "idle" => req[a].op \in Ops

\* A claim is below the quota, and one that fails leaves the count as it is or
\* is a claim.
LEMMA ClaimStep ==
    ASSUME TypeOK, QuotaInv, NEW c \in Calls, At(c, "quota"), ~UsedUp(c), Matches(c), ClaimRow(c)
    PROVE  /\ count' = claims' /\ settings' = settings
           /\ settings.quota > 0 => claims' <= settings.quota
           /\ status # "absent" /\ status' # "absent"
<1>1. settings.quota \in Nat /\ count \in Nat /\ claims \in Nat
  BY DEF TypeOK
<1>2. call[c].job = settings /\ call[c].seen = count
  BY DEF QuotaInv, At, Matches
<1>3. ~(settings.quota > 0 /\ count >= settings.quota)
  BY <1>2 DEF UsedUp, Exhausted
<1>4. count = claims /\ status = "enabled"
  BY DEF QuotaInv, Matches
<1>5. count' = count + 1 /\ claims' = claims + 1 /\ settings' = settings
  BY DEF ClaimRow
<1>6. status' # "absent"
  BY <1>4 DEF ClaimRow
<1> QED BY <1>1, <1>3, <1>4, <1>5, <1>6

\* Spec implies QuotaRespected when no UpdateJob is in flight, for every number
\* of nodes that fire the job at once: the compare-and-set on executed_count
\* is enough, and UpdateJob is the only operation that defeats it.
THEOREM QuotaRespectedThm ==
    ASSUME "update" \notin Ops
    PROVE  Spec => []QuotaRespected
<1>1. Init => QuotaInv
  <2> SUFFICES ASSUME Init PROVE QuotaInv
    OBVIOUS
  <2>1. settings \in Settings /\ \A c \in Calls : call[c].pc = "idle"
    BY AnyTyped DEF Init, IdleCall
  <2> QED BY <2>1 DEF Init, QuotaInv, IdleReq, At
<1>2. ASSUME TypeOK, QuotaInv, [Next]_vars
      PROVE  QuotaInv'
  <2> USE <1>2
  <2>1. ASSUME NEW n \in Nodes, Reclaim(n) \/ Load(n) \/ Crash(n)
        PROVE  QuotaInv'
    <3>1. /\ UNCHANGED rowVars
          /\ \A c \in Calls : call'[c] \in {call[c], IdleCall}
          /\ \A a \in Admins : req'[a] \in {req[a], IdleReq}
      BY <2>1 DEF Reclaim, Load, Crash
    <3>2. IdleCall.pc = "idle" /\ IdleReq.pc = "idle"
      BY DEF IdleCall, IdleReq
    <3> QED BY <3>1, <3>2 DEF QuotaInv, rowVars, At
  <2>2. ASSUME NEW c \in Calls, CallStep(c)
        PROVE  QuotaInv'
    <3>0. /\ \A d \in Calls : d # c => call'[d] = call[d]
          /\ req' = req
      BY <2>2, CallStepIsLocal DEF CallStep, Run, Fire, SkipNotPrimary, PassScope, AcquireSlot,
         DisableExhausted, Claim, ClaimLost, QuotaFails, CreateFails, CreateExecution,
         RemoveLast, Trigger, Finish, Free, RemoveExhausted
    <3>1. CASE Fire(c)
      <4>1. PICK n \in Nodes : call' = [call EXCEPT ![c].pc = "scope", ![c].at = n,
                                                    ![c].job = settings, ![c].seen = count]
        BY <3>1 DEF Fire
      <4>2. call'[c].job = settings
        BY <4>1 DEF TypeOK, CallState
      <4>3. UNCHANGED rowVars /\ status # "absent"
        BY <3>1 DEF Fire
      <4> QED BY <3>0, <4>2, <4>3 DEF QuotaInv, rowVars
    <3>2. CASE Trigger(c)
      <4>1. PICK n \in Nodes : call' = [call EXCEPT ![c].pc = "exec", ![c].at = n, ![c].log = nextLog]
        BY <3>2 DEF Trigger
      <4>2. call'[c].pc = "exec"
        BY <4>1 DEF TypeOK, CallState
      <4>3. UNCHANGED rowVars /\ status # "absent"
        BY <3>2 DEF Trigger
      <4> QED BY <3>0, <4>2, <4>3 DEF QuotaInv, rowVars
    <3>3. CASE PassScope(c) \/ AcquireSlot(c)
      <4>1. ~At(c, "idle") /\ call[c].pc \in {"scope", "slot", "quota"}
        BY <3>3 DEF PassScope, AcquireSlot, At
      <4>2. call'[c].pc = "idle" \/ call'[c].job = call[c].job
        BY <3>3 DEF PassScope, AcquireSlot, Goto, Return, IdleCall, TypeOK, CallState
      <4>3. UNCHANGED rowVars
        BY <3>3 DEF PassScope, AcquireSlot
      <4> QED BY <3>0, <4>1, <4>2, <4>3 DEF QuotaInv, rowVars, At
    <3>4. CASE DisableExhausted(c) \/ Claim(c) \/ QuotaFails(c)
      <4>1. ~At(c, "idle") /\ call'[c].pc \in {"free", "create"}
        BY <3>4 DEF DisableExhausted, Claim, QuotaFails, Released, At, TypeOK, CallState
      <4>2. /\ count' = claims' /\ settings' = settings
            /\ settings.quota > 0 => claims' <= settings.quota
            /\ status # "absent" /\ status' # "absent"
        <5>1. status # "absent"
          BY <4>1 DEF QuotaInv
        <5>2. CASE DisableRow \/ UNCHANGED rowVars
          BY <5>1, <5>2 DEF DisableRow, rowVars, QuotaInv
        <5>3. CASE At(c, "quota") /\ ~UsedUp(c) /\ Matches(c) /\ ClaimRow(c)
          BY <5>3, ClaimStep
        <5> QED BY <3>4, <5>2, <5>3 DEF DisableExhausted, Claim, QuotaFails
      <4> QED BY <3>0, <4>1, <4>2 DEF QuotaInv
    <3>5. CASE SkipNotPrimary(c) \/ RemoveExhausted(c) \/ ClaimLost(c) \/ CreateFails(c)
               \/ CreateExecution(c) \/ RemoveLast(c) \/ Finish(c) \/ Free(c)
      <4> USE <3>5 DEF SkipNotPrimary, RemoveExhausted, ClaimLost, CreateFails, CreateExecution,
                       RemoveLast, Finish, Free
      <4>1. ~At(c, "idle") /\ call'[c].pc \notin {"scope", "slot", "quota"}
        BY DEF Goto, Return, Released, At, IdleCall, TypeOK, CallState
      <4>2. UNCHANGED rowVars
        OBVIOUS
      <4> QED BY <3>0, <4>1, <4>2 DEF QuotaInv, rowVars
    <3> QED BY <2>2, <3>1, <3>2, <3>3, <3>4, <3>5 DEF CallStep, Run
  <2>3. ASSUME NEW a \in Admins, AdminStep(a)
        PROVE  QuotaInv'
    <3>1. ~UpdateJob(a) /\ ~(req[a].pc = "write" /\ req[a].op = "update")
      BY DEF UpdateJob, Writes, QuotaInv
    <3>2. call' = call
      BY <2>3, AdminStepIsLocal
    <3>3. \/ UNCHANGED rowVars
          \/ InsertRow \/ ResetRow
          \/ \E s \in {"enabled", "disabled", "deleted"} : WriteStatus(s)
      BY <2>3, <3>1 DEF AdminStep, Serve, Receive, CreateJob, Enable, Disable, ResetJob,
         DeleteJob, WriteFails, RefreshFails, Unregister, RefreshRemove, RefreshReload,
         RefreshAdd
    <3>4. \A b \in Admins : req'[b].pc # "idle" => req'[b].op \in Ops
      <4>1. CASE Receive(a)
        BY <4>1 DEF Receive, TypeOK, QuotaInv
      <4>2. CASE ~Receive(a)
        <5>1. PICK l \in {"idle", "remove", "reload", "add", "unregister"} :
                 Then(a, l) /\ req[a].pc # "idle"
          BY <2>3, <3>1, <4>2 DEF AdminStep, Serve, CreateJob, Enable, Disable, ResetJob,
             DeleteJob, WriteFails, RefreshFails, Unregister, RefreshRemove, RefreshReload,
             RefreshAdd, Writes
        <5> QED BY <5>1 DEF Then, IdleReq, TypeOK, Request, QuotaInv
      <4> QED BY <4>1, <4>2
    <3>5. CASE UNCHANGED rowVars
      BY <3>2, <3>4, <3>5 DEF QuotaInv, rowVars, At
    <3>6. CASE InsertRow
      <4>1. claims = 0 /\ (\A c \in Calls : call[c].pc = "idle") /\ settings' \in Settings
        BY <3>6 DEF InsertRow, QuotaInv, At
      <4> QED BY <3>2, <3>4, <3>6, <4>1 DEF InsertRow, QuotaInv
    <3>7. CASE ResetRow
      <4>1. settings \in Settings
        BY DEF TypeOK
      <4> QED BY <3>2, <3>4, <3>7, <4>1 DEF ResetRow, QuotaInv, At
    <3>8. CASE \E s \in {"enabled", "disabled", "deleted"} : WriteStatus(s)
      BY <3>2, <3>4, <3>8 DEF WriteStatus, Exists, QuotaInv, At
    <3> QED BY <3>3, <3>5, <3>6, <3>7, <3>8
  <2>4. CASE TriggerFails \/ ClearLogs \/ UNCHANGED vars
    <3>1. UNCHANGED <<rowVars, call, req>>
      BY <2>4 DEF TriggerFails, ClearLogs, vars
    <3> QED BY <3>1 DEF QuotaInv, rowVars, At
  <2> QED BY <2>1, <2>2, <2>3, <2>4, NextCases
<1>3. QuotaInv => QuotaRespected
  BY DEF QuotaInv, QuotaRespected
<1> QED BY <1>1, <1>2, <1>3, TypeCorrect, PTL DEF Spec

=============================================================================
