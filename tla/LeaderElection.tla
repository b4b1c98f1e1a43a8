---------------------------- MODULE LeaderElection ----------------------------
(***************************************************************************)
(* The leader election of internal/service/cluster: on every node the loop *)
(* electionService.run, and the electionLeaseManager goroutine that renews *)
(* the leader lock while the node leads.  Both talk to the lock key of     *)
(* module LockStore; every call may fail, and a failed call may or may not *)
(* have reached Redis.  Nodes crash and restart.                           *)
(*                                                                         *)
(* Time passes in ticks.  The renewal ticker has a period; the retry       *)
(* ticker of followers is left free, so a follower may retry at any        *)
(* moment.  With Timely = TRUE a step that is due is taken within Delay    *)
(* ticks (network and scheduling latency); with Timely = FALSE a process   *)
(* may be paused for as long as it likes.                                  *)
(***************************************************************************)
EXTENDS LockStore

CONSTANTS
    Nodes,          \* the processes of the cluster
    RenewInterval,  \* period of the renewal ticker, in ticks
    Delay,          \* latency of a due step when Timely
    Timely,         \* are due steps taken within Delay ticks?
    MaxFaults       \* how many Redis errors and crashes may happen

ASSUME ElectionAssumption ==
    /\ RenewInterval \in Nat \ {0}
    /\ Delay \in Nat
    /\ Timely \in BOOLEAN
    /\ MaxFaults \in Nat

VARIABLES
    pc,       \* where electionService.run is
    leader,   \* electionService.isLeader
    token,    \* token of electionService.handle, or of the lock being acquired
    mgr,      \* the lease manager: "none", "run", or "exited"
    due,      \* a tick of the renewal ticker is waiting to be served
    ticker,   \* ticks until the renewal ticker fires
    stopReq,  \* electionService.stopChan is closed
    lag,      \* how long the loop's due step has been waiting
    mgrLag,   \* how long the lease manager's due step has been waiting
    faults    \* faults so far

nodeVars == <<pc, leader, token, mgr, due, ticker, stopReq>>
lagVars  == <<lag, mgrLag>>
vars     == <<key, ttl, nodeVars, lagVars, faults>>

PC == {"down", "setnx", "incr", "undo", "loop", "join", "release", "clear", "stopped"}

Typed ==
    /\ StoreTypeOK
    /\ pc \in [Nodes -> PC]
    /\ leader \in [Nodes -> BOOLEAN]
    /\ token \in [Nodes -> Tokens \cup {NoToken}]
    /\ mgr \in [Nodes -> {"none", "run", "exited"}]
    /\ due \in [Nodes -> BOOLEAN]
    /\ ticker \in [Nodes -> 1..RenewInterval]
    /\ stopReq \in [Nodes -> BOOLEAN]
    /\ lag \in [Nodes -> 0..Delay]
    /\ mgrLag \in [Nodes -> 0..Delay]
    /\ faults \in Nat

\* The variables have their types, and leaseMgr and handle agree: there is a
\* lease manager only while the node has the handle it renews.
TypeOK ==
    /\ Typed
    /\ \A n \in Nodes : mgr[n] # "none" => token[n] # NoToken

Init ==
    /\ StoreInit
    /\ pc = [n \in Nodes |-> "down"]
    /\ leader = [n \in Nodes |-> FALSE]
    /\ token = [n \in Nodes |-> NoToken]
    /\ mgr = [n \in Nodes |-> "none"]
    /\ due = [n \in Nodes |-> FALSE]
    /\ ticker = [n \in Nodes |-> RenewInterval]
    /\ stopReq = [n \in Nodes |-> FALSE]
    /\ lag = [n \in Nodes |-> 0]
    /\ mgrLag = [n \in Nodes |-> 0]
    /\ faults = 0

-----------------------------------------------------------------------------
\* A token nobody refers to: what a fresh random token amounts to.
Fresh(t) == t # key /\ \A n \in Nodes : t # token[n]

\* A Redis error or a crash.
Fault == faults < MaxFaults /\ faults' = faults + 1

\* The loop of n moves on, so nothing it was waiting for is late any more.
Goto(n, label) ==
    /\ pc' = [pc EXCEPT ![n] = label]
    /\ lag' = [lag EXCEPT ![n] = 0]

\* The lease manager goroutine of n returns and closes stoppedChan.
MgrReturns(n) ==
    /\ mgr' = [mgr EXCEPT ![n] = "exited"]
    /\ due' = [due EXCEPT ![n] = FALSE]
    /\ mgrLag' = [mgrLag EXCEPT ![n] = 0]

-----------------------------------------------------------------------------
(* Start: the loop begins with tryAcquire. *)
Start(n) ==
    /\ pc[n] = "down"
    /\ Goto(n, "setnx")
    /\ UNCHANGED <<key, ttl, leader, token, mgr, due, ticker, stopReq, mgrLag, faults>>

(* The process dies: its memory is gone, the key in Redis stays. *)
Crash(n) ==
    /\ pc[n] # "down"
    /\ Fault
    /\ Goto(n, "down")
    /\ leader' = [leader EXCEPT ![n] = FALSE]
    /\ token' = [token EXCEPT ![n] = NoToken]
    /\ mgr' = [mgr EXCEPT ![n] = "none"]
    /\ due' = [due EXCEPT ![n] = FALSE]
    /\ ticker' = [ticker EXCEPT ![n] = RenewInterval]
    /\ stopReq' = [stopReq EXCEPT ![n] = FALSE]
    /\ mgrLag' = [mgrLag EXCEPT ![n] = 0]
    /\ UNCHANGED storeVars

(* Stop closes stopChan. *)
Stop(n) ==
    /\ pc[n] \notin {"down", "stopped"}
    /\ ~stopReq[n]
    /\ stopReq' = [stopReq EXCEPT ![n] = TRUE]
    /\ UNCHANGED <<key, ttl, pc, leader, token, mgr, due, ticker, lagVars, faults>>

-----------------------------------------------------------------------------
(* tryAcquire: Acquire is SETNX followed by INCR of the fencing counter. *)

SetNXWins(n) ==
    /\ pc[n] = "setnx"
    /\ \E t \in Tokens :
          /\ Fresh(t)
          /\ SetNX(t)
          /\ token' = [token EXCEPT ![n] = t]
    /\ Goto(n, "incr")
    /\ UNCHANGED <<leader, mgr, due, ticker, stopReq, mgrLag, faults>>

SetNXLoses(n) ==
    /\ pc[n] = "setnx"
    /\ key # NoToken
    /\ leader' = [leader EXCEPT ![n] = FALSE]
    /\ Goto(n, "loop")
    /\ UNCHANGED <<key, ttl, token, mgr, due, ticker, stopReq, mgrLag, faults>>

\* SETNX fails; the key may have been written all the same, and then
\* belongs to nobody until it expires.
SetNXFails(n) ==
    /\ pc[n] = "setnx"
    /\ Fault
    /\ \/ UNCHANGED storeVars
       \/ \E t \in Tokens : Fresh(t) /\ SetNX(t)
    /\ leader' = [leader EXCEPT ![n] = FALSE]
    /\ Goto(n, "loop")
    /\ UNCHANGED <<token, mgr, due, ticker, stopReq, mgrLag>>

\* INCR answers: Acquire returns the handle and the node leads.
Incr(n) ==
    /\ pc[n] = "incr"
    /\ leader' = [leader EXCEPT ![n] = TRUE]
    /\ mgr' = [mgr EXCEPT ![n] = "run"]
    /\ due' = [due EXCEPT ![n] = FALSE]
    /\ ticker' = [ticker EXCEPT ![n] = RenewInterval]
    /\ mgrLag' = [mgrLag EXCEPT ![n] = 0]
    /\ Goto(n, "loop")
    /\ UNCHANGED <<key, ttl, token, stopReq, faults>>

IncrFails(n) ==
    /\ pc[n] = "incr"
    /\ Fault
    /\ Goto(n, "undo")
    /\ UNCHANGED <<key, ttl, leader, token, mgr, due, ticker, stopReq, mgrLag>>

\* Acquire gives the lock back after a failed INCR; this may fail too.
UndoAcquire(n) ==
    /\ pc[n] = "undo"
    /\ \/ ReleaseScript(token[n]) /\ UNCHANGED faults
       \/ UNCHANGED storeVars /\ Fault
    /\ token' = [token EXCEPT ![n] = NoToken]
    /\ leader' = [leader EXCEPT ![n] = FALSE]
    /\ Goto(n, "loop")
    /\ UNCHANGED <<mgr, due, ticker, stopReq, mgrLag>>

-----------------------------------------------------------------------------
(* The lease manager goroutine. *)

RenewSucceeds(n) ==
    /\ mgr[n] = "run"
    /\ due[n]
    /\ Extend(token[n])
    /\ due' = [due EXCEPT ![n] = FALSE]
    /\ mgrLag' = [mgrLag EXCEPT ![n] = 0]
    /\ UNCHANGED <<pc, leader, token, mgr, ticker, stopReq, lag, faults>>

\* Mutant of RenewFails: a Redis error is logged and the ticker loop goes on.
RenewFails_ErrorIgnored(n) ==
    /\ mgr[n] = "run"
    /\ due[n]
    /\ UNCHANGED storeVars
    /\ \/ key # token[n] /\ MgrReturns(n) /\ UNCHANGED faults
       \/ Fault /\ due' = [due EXCEPT ![n] = FALSE]
          /\ mgrLag' = [mgrLag EXCEPT ![n] = 0] /\ UNCHANGED mgr
    /\ UNCHANGED <<pc, leader, token, ticker, stopReq, lag>>

\* Mutant of RenewFails: a zero result of the script is not an error.
RenewFails_NotHeldIgnored(n) ==
    /\ mgr[n] = "run"
    /\ due[n]
    /\ UNCHANGED storeVars
    /\ \/ key # token[n] /\ due' = [due EXCEPT ![n] = FALSE]
          /\ mgrLag' = [mgrLag EXCEPT ![n] = 0] /\ UNCHANGED <<mgr, faults>>
       \/ Fault /\ MgrReturns(n)
    /\ UNCHANGED <<pc, leader, token, ticker, stopReq, lag>>

\* Not held any more, or a Redis error: the goroutine returns either way.
RenewFails(n) ==
    /\ mgr[n] = "run"
    /\ due[n]
    /\ \/ key # token[n] /\ UNCHANGED <<key, ttl, faults>>
       \/ UNCHANGED storeVars /\ Fault
       \/ Extend(token[n]) /\ Fault
    /\ MgrReturns(n)
    /\ UNCHANGED <<pc, leader, token, ticker, stopReq, lag>>

\* Mutant of MgrStops: the goroutine does not listen to stopChan.
MgrStops_Deaf(n) ==
    /\ FALSE
    /\ MgrReturns(n)
    /\ UNCHANGED <<key, ttl, pc, leader, token, ticker, stopReq, lag, faults>>

\* electionLeaseManager.Stop has closed stopChan.
MgrStops(n) ==
    /\ mgr[n] = "run"
    /\ pc[n] = "join"
    /\ MgrReturns(n)
    /\ UNCHANGED <<key, ttl, pc, leader, token, ticker, stopReq, lag, faults>>

-----------------------------------------------------------------------------
(* The select of run. *)

\* Mutant of OnLeaseStopped: isLeader.Store(false) is missing.
OnLeaseStopped_KeepsFlag(n) ==
    /\ pc[n] = "loop"
    /\ mgr[n] = "exited"
    /\ token' = [token EXCEPT ![n] = NoToken]
    /\ mgr' = [mgr EXCEPT ![n] = "none"]
    /\ Goto(n, "setnx")
    /\ UNCHANGED <<key, ttl, leader, due, ticker, stopReq, mgrLag, faults>>

\* Mutant of OnLeaseStopped: leaseMgr is not reset with the handle.
OnLeaseStopped_KeepsManager(n) ==
    /\ pc[n] = "loop"
    /\ mgr[n] = "exited"
    /\ token' = [token EXCEPT ![n] = NoToken]
    /\ leader' = [leader EXCEPT ![n] = FALSE]
    /\ Goto(n, "setnx")
    /\ UNCHANGED <<key, ttl, mgr, due, ticker, stopReq, mgrLag, faults>>

OnLeaseStopped(n) ==
    /\ pc[n] = "loop"
    /\ mgr[n] = "exited"
    /\ token' = [token EXCEPT ![n] = NoToken]
    /\ mgr' = [mgr EXCEPT ![n] = "none"]
    /\ leader' = [leader EXCEPT ![n] = FALSE]
    /\ Goto(n, "setnx")
    /\ UNCHANGED <<key, ttl, due, ticker, stopReq, mgrLag, faults>>

\* Mutant of OnRetry: the condition on isLeader is inverted.
OnRetry_LeaderOnly(n) ==
    /\ pc[n] = "loop"
    /\ leader[n]
    /\ Goto(n, "setnx")
    /\ UNCHANGED <<key, ttl, leader, token, mgr, due, ticker, stopReq, mgrLag, faults>>

OnRetry(n) ==
    /\ pc[n] = "loop"
    /\ ~leader[n]
    /\ Goto(n, "setnx")
    /\ UNCHANGED <<key, ttl, leader, token, mgr, due, ticker, stopReq, mgrLag, faults>>

\* stepDown: stop the lease manager first, if there is one.
OnStop(n) ==
    /\ pc[n] = "loop"
    /\ stopReq[n]
    /\ Goto(n, IF mgr[n] = "none" THEN "clear" ELSE "join")
    /\ UNCHANGED <<key, ttl, leader, token, mgr, due, ticker, stopReq, mgrLag, faults>>

\* stepDown: leaseMgr.Stop returns.
Join(n) ==
    /\ pc[n] = "join"
    /\ mgr[n] = "exited"
    /\ mgr' = [mgr EXCEPT ![n] = "none"]
    /\ Goto(n, "release")
    /\ UNCHANGED <<key, ttl, leader, token, due, ticker, stopReq, mgrLag, faults>>

\* stepDown: Release; its error is only logged.
Release(n) ==
    /\ pc[n] = "release"
    /\ \/ ReleaseScript(token[n]) /\ UNCHANGED faults
       \/ UNCHANGED storeVars /\ Fault
    /\ Goto(n, "clear")
    /\ UNCHANGED <<leader, token, mgr, due, ticker, stopReq, mgrLag>>

\* stepDown: handle = nil, isLeader.Store(false); run returns.
Clear(n) ==
    /\ pc[n] = "clear"
    /\ token' = [token EXCEPT ![n] = NoToken]
    /\ leader' = [leader EXCEPT ![n] = FALSE]
    /\ Goto(n, "stopped")
    /\ UNCHANGED <<key, ttl, mgr, due, ticker, stopReq, mgrLag, faults>>

-----------------------------------------------------------------------------
(* Time. *)

\* The loop of n has a step to take now.
LoopDue(n) ==
    \/ pc[n] \in {"setnx", "incr", "undo", "release", "clear"}
    \/ pc[n] = "join" /\ mgr[n] = "exited"
    \/ pc[n] = "loop" /\ (mgr[n] = "exited" \/ stopReq[n])

\* The lease manager of n has a step to take now.
MgrDue(n) == mgr[n] = "run" /\ (due[n] \/ pc[n] = "join")

InTime == \A n \in Nodes :
    /\ LoopDue(n) => lag[n] < Delay
    /\ MgrDue(n) => mgrLag[n] < Delay

\* A tick of time: leases and tickers run, due steps get later.
Tick ==
    /\ Timely => InTime
    /\ Age
    /\ ticker' = [n \in Nodes |->
                    IF mgr[n] # "run" THEN ticker[n]
                    ELSE IF ticker[n] = 1 THEN RenewInterval ELSE ticker[n] - 1]
    /\ due' = [n \in Nodes |-> due[n] \/ (mgr[n] = "run" /\ ticker[n] = 1)]
    /\ lag' = [n \in Nodes |-> IF Timely /\ LoopDue(n) THEN lag[n] + 1 ELSE 0]
    /\ mgrLag' = [n \in Nodes |-> IF Timely /\ MgrDue(n) THEN mgrLag[n] + 1 ELSE 0]
    /\ UNCHANGED <<pc, leader, token, mgr, stopReq, faults>>

Loop(n) ==
    \/ SetNXWins(n) \/ SetNXLoses(n) \/ Incr(n) \/ UndoAcquire(n)
    \/ OnLeaseStopped(n) \/ OnStop(n) \/ Join(n) \/ Release(n) \/ Clear(n)

Manager(n) == RenewSucceeds(n) \/ RenewFails(n) \/ MgrStops(n)

Environment(n) ==
    \/ Start(n) \/ Crash(n) \/ Stop(n) \/ SetNXFails(n) \/ IncrFails(n)

Next ==
    \/ Tick
    \/ \E n \in Nodes : Loop(n) \/ OnRetry(n) \/ Manager(n) \/ Environment(n)

Spec == Init /\ [][Next]_vars

\* The goroutines are scheduled, tickers fire and time passes.  A select with
\* several ready cases picks one at random, so a closed stopChan is not passed
\* over for ever: OnStop is strongly fair, MgrStops fair on its own.
Fairness ==
    /\ WF_vars(Tick)
    /\ \A n \in Nodes :
          /\ WF_vars(Loop(n)) /\ WF_vars(OnRetry(n)) /\ WF_vars(Manager(n))
          /\ SF_vars(OnStop(n)) /\ WF_vars(MgrStops(n))

FairSpec == Spec /\ Fairness

-----------------------------------------------------------------------------
(* Properties. *)

SteppingDown(n) == pc[n] \in {"join", "release", "clear"}

\* The latency bound that makes a lease safe: from SETNX on, a node needs at
\* most Delay to adopt the lock, RenewInterval until its ticker fires, Delay
\* to renew and Delay to notice that renewing failed.
TimingAssumption == Timely /\ RenewInterval + 3 * Delay < Lease

\* A node that reports IsLeader and is not shutting down owns the leader
\* lease in Redis (run, tryAcquire and the lease manager, when every step is
\* timely): whatever fails, it gives up before its lease can run out.
LeaderOwnsLease ==
    \A n \in Nodes : leader[n] /\ ~SteppingDown(n) => key = token[n]

\* No two nodes are primary at once, except while one of them is inside
\* stepDown: master-only work runs on one node.
SinglePrimary ==
    \A m, n \in Nodes :
        leader[m] /\ leader[n] /\ m # n => SteppingDown(m) \/ SteppingDown(n)

\* A lease ends only by running out or by its own node releasing it, and is
\* extended only by its own lease manager, however late the commands of
\* former holders reach Redis (the token checks of Renew and Release).
OwnerOnlyTouchesLease ==
    [][key # NoToken =>
          /\ key' # key => ttl <= 1 \/ \E n \in Nodes :
                                token[n] = key /\ pc[n] \in {"undo", "release"}
          /\ ttl' > ttl => \E n \in Nodes : token[n] = key /\ mgr[n] = "run"]_vars

\* A node that still reports IsLeader after losing its lease stops doing so,
\* also when it was paused for longer than the lease.
StaleLeaderStepsDown ==
    \A n \in Nodes : (leader[n] /\ key # token[n]) ~> ~leader[n]

Campaigning(n) == pc[n] \notin {"down", "stopped"} /\ ~stopReq[n]

\* While some node keeps running, a leader emerges: a key left behind by a
\* crash, by a failed INCR or by a lost SETNX reply does not block for ever.
LeaderEmerges ==
    (\E n \in Nodes : Campaigning(n)) ~>
        (\E n \in Nodes : leader[n]) \/ (\A n \in Nodes : ~Campaigning(n))

\* Stop returns: the loop sees stopChan, the lease manager is joined and
\* stoppedChan is closed (unless the process dies first).
StopCompletes ==
    \A n \in Nodes : stopReq[n] ~> pc[n] \in {"stopped", "down"}

=============================================================================
