------------------------- MODULE LeaderElectionProofs -------------------------
(***************************************************************************)
(* Proofs about LeaderElection, for every set of nodes and tokens and for  *)
(* every lease, renewal interval and delay.                                *)
(***************************************************************************)
EXTENDS LeaderElection, TLAPS

USE LockStoreAssumption, ElectionAssumption

-----------------------------------------------------------------------------
\* The variables have their types: in particular the lag of a due step
\* never exceeds Delay and a lease never exceeds Lease.
LEMMA TypedInvariant == Spec => []Typed
<1> USE DEF Typed, StoreTypeOK, PC
<1>1. Init => Typed
  BY DEF Init, StoreInit
<1>2. ASSUME Typed, [Next]_vars
      PROVE  Typed'
  <2> USE <1>2 DEF Goto, Fault, storeVars, lagVars, nodeVars
  <2>1. CASE Tick
    <3>1. StoreTypeOK'
      BY <2>1 DEF Tick, Age
    <3>2. (ticker \in [Nodes -> 1..RenewInterval])' /\ (due \in [Nodes -> BOOLEAN])'
      BY <2>1 DEF Tick
    <3>3. (lag \in [Nodes -> 0..Delay])' /\ (mgrLag \in [Nodes -> 0..Delay])'
      BY <2>1 DEF Tick, InTime
    <3> QED BY <2>1, <3>1, <3>2, <3>3 DEF Tick
  <2>2. ASSUME NEW n \in Nodes, Loop(n)
        PROVE  Typed'
    <3>1. CASE SetNXWins(n)      BY <3>1 DEF SetNXWins, SetNX
    <3>2. CASE SetNXLoses(n)     BY <3>2 DEF SetNXLoses
    <3>3. CASE Incr(n)           BY <3>3 DEF Incr
    <3>4. CASE UndoAcquire(n)    BY <3>4 DEF UndoAcquire, ReleaseScript, Delete
    <3>5. CASE OnLeaseStopped(n) BY <3>5 DEF OnLeaseStopped
    <3>6. CASE OnStop(n)         BY <3>6 DEF OnStop
    <3>7. CASE Join(n)           BY <3>7 DEF Join
    <3>8. CASE Release(n)        BY <3>8 DEF Release, ReleaseScript, Delete
    <3>9. CASE Clear(n)          BY <3>9 DEF Clear
    <3> QED BY <2>2, <3>1, <3>2, <3>3, <3>4, <3>5, <3>6, <3>7, <3>8, <3>9 DEF Loop
  <2>3. ASSUME NEW n \in Nodes, Manager(n)
        PROVE  Typed'
    <3>1. CASE RenewSucceeds(n)  BY <3>1 DEF RenewSucceeds, Extend
    <3>2. CASE RenewFails(n)     BY <3>2 DEF RenewFails, MgrReturns, Extend
    <3>3. CASE MgrStops(n)       BY <3>3 DEF MgrStops, MgrReturns
    <3> QED BY <2>3, <3>1, <3>2, <3>3 DEF Manager
  <2>4. ASSUME NEW n \in Nodes, Environment(n) \/ OnRetry(n)
        PROVE  Typed'
    <3>1. CASE Start(n)          BY <3>1 DEF Start
    <3>2. CASE Crash(n)          BY <3>2 DEF Crash
    <3>3. CASE Stop(n)           BY <3>3 DEF Stop
    <3>4. CASE SetNXFails(n)     BY <3>4 DEF SetNXFails, SetNX
    <3>5. CASE IncrFails(n)      BY <3>5 DEF IncrFails
    <3>6. CASE OnRetry(n)        BY <3>6 DEF OnRetry
    <3> QED BY <2>4, <3>1, <3>2, <3>3, <3>4, <3>5, <3>6 DEF Environment
  <2>5. CASE UNCHANGED vars
    BY <2>5 DEF vars
  <2> QED BY <2>1, <2>2, <2>3, <2>4, <2>5 DEF Next
<1> QED BY <1>1, <1>2, PTL DEF Spec

-----------------------------------------------------------------------------
(***************************************************************************)
(* A lease ends and grows only through its owner, in every interleaving.   *)
(***************************************************************************)

\* However late a command of a former holder arrives, it neither ends nor
\* extends the lease of another node: Spec implies OwnerOnlyTouchesLease.
THEOREM OwnerOnly == Spec => OwnerOnlyTouchesLease
<1> DEFINE Freed    == key' # key => ttl <= 1 \/ \E n \in Nodes :
                                token[n] = key /\ pc[n] \in {"undo", "release"}
           Extended == ttl' > ttl => \E n \in Nodes : token[n] = key /\ mgr[n] = "run"
<1>1. ASSUME Typed, [Next]_vars, key # NoToken
      PROVE  Freed /\ Extended
  <2> USE <1>1 DEF Typed, StoreTypeOK, storeVars
  <2>1. CASE Tick
    BY <2>1 DEF Tick, Age
  <2>2. ASSUME NEW n \in Nodes, Loop(n)
        PROVE  Freed /\ Extended
    <3>1. CASE UndoAcquire(n) BY <3>1 DEF UndoAcquire, ReleaseScript, Delete
    <3>2. CASE Release(n)     BY <3>2 DEF Release, ReleaseScript, Delete
    <3>3. CASE SetNXWins(n)   BY <3>3 DEF SetNXWins, SetNX
    <3>4. CASE SetNXLoses(n) \/ Incr(n) \/ OnLeaseStopped(n) \/ OnStop(n) \/ Join(n) \/ Clear(n)
      BY <3>4 DEF SetNXLoses, Incr, OnLeaseStopped, OnStop, Join, Clear
    <3> QED BY <2>2, <3>1, <3>2, <3>3, <3>4 DEF Loop
  <2>3. ASSUME NEW n \in Nodes, Manager(n)
        PROVE  Freed /\ Extended
    BY <2>3 DEF Manager, RenewSucceeds, RenewFails, MgrStops, Extend
  <2>4. ASSUME NEW n \in Nodes, Environment(n) \/ OnRetry(n)
        PROVE  Freed /\ Extended
    <3>1. CASE SetNXFails(n)  BY <3>1 DEF SetNXFails, SetNX
    <3>2. CASE Start(n) \/ Crash(n) \/ Stop(n) \/ IncrFails(n) \/ OnRetry(n)
      BY <3>2 DEF Start, Crash, Stop, IncrFails, OnRetry
    <3> QED BY <2>4, <3>1, <3>2 DEF Environment
  <2>5. CASE UNCHANGED vars
    BY <2>5 DEF vars
  <2> QED BY <2>1, <2>2, <2>3, <2>4, <2>5 DEF Next
<1>2. Typed /\ [Next]_vars => [key # NoToken => Freed /\ Extended]_vars
  BY <1>1
<1> QED BY <1>2, TypedInvariant, PTL DEF Spec, OwnerOnlyTouchesLease

-----------------------------------------------------------------------------
(***************************************************************************)
(* The inductive invariant.  Tokens in memory are distinct; the flags of a *)
(* node agree with its place in the loop; and the lease that backs an      *)
(* acquiring or leading node has at least the margin that the steps still  *)
(* needed to renew it or to step down may use up.                          *)
(***************************************************************************)

TokensDistinct ==
    \A m, n \in Nodes : m # n /\ token[m] # NoToken => token[m] # token[n]

Control == \A n \in Nodes :
    /\ pc[n] \in {"down", "setnx", "stopped"} =>
          ~leader[n] /\ mgr[n] = "none" /\ token[n] = NoToken
    /\ pc[n] \in {"incr", "undo"} =>
          ~leader[n] /\ mgr[n] = "none" /\ token[n] # NoToken
    /\ pc[n] = "loop" =>
          \/ ~leader[n] /\ mgr[n] = "none" /\ token[n] = NoToken
          \/ leader[n] /\ mgr[n] # "none" /\ token[n] # NoToken
    /\ pc[n] = "join" => leader[n] /\ mgr[n] # "none" /\ token[n] # NoToken
    /\ pc[n] \in {"release", "clear"} => mgr[n] = "none"

\* What is left of the lease that n relies on covers the steps still to come.
Margin(n) ==
    /\ pc[n] = "incr" =>
          key = token[n] /\ ttl >= Lease - lag[n]
    /\ pc[n] = "loop" /\ mgr[n] = "run" /\ ~due[n] =>
          key = token[n] /\ ttl >= Lease - Delay - RenewInterval + ticker[n]
    /\ pc[n] = "loop" /\ mgr[n] = "run" /\ due[n] =>
          key = token[n] /\ ttl >= Lease - Delay - RenewInterval - mgrLag[n]
    /\ pc[n] = "loop" /\ mgr[n] = "exited" =>
          key = token[n] /\ ttl >= Lease - 2 * Delay - RenewInterval - lag[n]

LeaseMargin == \A n \in Nodes : Margin(n)

IInv == Typed /\ TokensDistinct /\ Control /\ LeaseMargin

\* What a step of node n does to the state of every other node, and to the key.
Local(n) ==
    /\ \A m \in Nodes \ {n} :
          /\ pc'[m] = pc[m] /\ mgr'[m] = mgr[m] /\ due'[m] = due[m]
          /\ token'[m] = token[m] /\ leader'[m] = leader[m]
          /\ ticker'[m] = ticker[m] /\ lag'[m] = lag[m] /\ mgrLag'[m] = mgrLag[m]
    /\ \/ UNCHANGED storeVars
       \/ key = NoToken
       \/ token[n] # NoToken /\ key = token[n]

NodeStep(n) == Loop(n) \/ OnRetry(n) \/ Manager(n) \/ Environment(n)

LEMMA StepIsLocal ==
  ASSUME Typed, Control, NEW n \in Nodes, NodeStep(n)
  PROVE  Local(n)
<1> USE DEF Typed, StoreTypeOK, PC, Control, Local, Goto, storeVars, lagVars
<1>1. CASE SetNXWins(n) \/ SetNXLoses(n) \/ SetNXFails(n)
  BY <1>1 DEF SetNXWins, SetNXLoses, SetNXFails, SetNX
<1>2. CASE Incr(n) \/ IncrFails(n)
  BY <1>2 DEF Incr, IncrFails
<1>3. CASE UndoAcquire(n) \/ Release(n)
  <2>1. UNCHANGED storeVars \/ key = token[n]
    BY <1>3 DEF UndoAcquire, Release, ReleaseScript, Delete
  <2> QED BY <1>3, <2>1 DEF UndoAcquire, Release
<1>4. CASE OnLeaseStopped(n) \/ OnStop(n) \/ Join(n) \/ Clear(n) \/ OnRetry(n)
  BY <1>4 DEF OnLeaseStopped, OnStop, Join, Clear, OnRetry
<1>5. CASE Manager(n)
  BY <1>5 DEF Manager, RenewSucceeds, RenewFails, MgrStops, MgrReturns, Extend
<1>6. CASE Start(n) \/ Crash(n) \/ Stop(n)
  BY <1>6 DEF Start, Crash, Stop
<1> QED BY <1>1, <1>2, <1>3, <1>4, <1>5, <1>6 DEF NodeStep, Loop, Environment

-----------------------------------------------------------------------------
\* Tokens and control: what the timing argument relies on, true without it.

LEMMA ControlInvariant == Spec => [](TokensDistinct /\ Control)
<1>1. Init => TokensDistinct /\ Control
  BY DEF Init, TokensDistinct, Control
<1>2. ASSUME Typed, TokensDistinct, Control, [Next]_vars
      PROVE  TokensDistinct' /\ Control'
  <2> USE <1>2 DEF Typed, StoreTypeOK, PC
  <2>1. CASE Tick
    BY <2>1 DEF Tick, TokensDistinct, Control
  <2>2. CASE UNCHANGED vars
    BY <2>2 DEF vars, nodeVars, TokensDistinct, Control
  <2>3. ASSUME NEW n \in Nodes, NodeStep(n)
        PROVE  TokensDistinct' /\ Control'
    <3>1. Local(n)
      BY <2>3, StepIsLocal
    <3>2. \/ token'[n] \in {token[n], NoToken}
          \/ \A m \in Nodes : token'[n] # token[m]
      BY <2>3 DEF NodeStep, Loop, Manager, Environment, SetNXWins, SetNXLoses, SetNXFails,
                  Incr, IncrFails, UndoAcquire, OnLeaseStopped, OnRetry, OnStop, Join,
                  Release, Clear, RenewSucceeds, RenewFails, MgrStops, MgrReturns,
                  Start, Crash, Stop, Fresh, Goto, storeVars
    <3>3. TokensDistinct'
      BY <3>1, <3>2 DEF TokensDistinct, Local
    <3>4. Control!(n)'
      <4> USE DEF Control, Goto, lagVars
      <4>1. CASE SetNXWins(n) \/ SetNXLoses(n) \/ SetNXFails(n)
        BY <4>1 DEF SetNXWins, SetNXLoses, SetNXFails
      <4>2. CASE Incr(n) \/ IncrFails(n) \/ UndoAcquire(n)
        BY <4>2 DEF Incr, IncrFails, UndoAcquire
      <4>3. CASE OnLeaseStopped(n) \/ OnStop(n) \/ OnRetry(n) \/ Join(n) \/ Release(n) \/ Clear(n)
        BY <4>3 DEF OnLeaseStopped, OnStop, OnRetry, Join, Release, Clear
      <4>4. CASE Manager(n)
        BY <4>4 DEF Manager, RenewSucceeds, RenewFails, MgrStops, MgrReturns
      <4>5. CASE Start(n) \/ Crash(n) \/ Stop(n)
        BY <4>5 DEF Start, Crash, Stop
      <4> QED BY <2>3, <4>1, <4>2, <4>3, <4>4, <4>5 DEF NodeStep, Loop, Environment
    <3>5. Control'
      BY <3>1, <3>4 DEF Local, Control
    <3> QED BY <3>3, <3>5
  <2> QED BY <2>1, <2>2, <2>3 DEF Next, NodeStep
<1> QED BY <1>1, <1>2, TypedInvariant, PTL DEF Spec

\* The variables always have their types, and a lease manager always has the
\* handle it renews: no way out of run leaves one without the other.
THEOREM TypeCorrect == Spec => []TypeOK
<1>1. Typed /\ Control => TypeOK
  BY DEF TypeOK, Typed, Control, PC
<1> QED BY <1>1, TypedInvariant, ControlInvariant, PTL

-----------------------------------------------------------------------------
\* The margin of every node survives every step, when steps are timely.

LEMMA MarginOfOthers ==
  ASSUME TimingAssumption, IInv, NEW n \in Nodes, NodeStep(n),
         NEW m \in Nodes, m # n
  PROVE  Margin(m)'
<1>1. Local(n)
  BY StepIsLocal DEF IInv
<1>2. CASE UNCHANGED storeVars
  BY <1>1, <1>2 DEF IInv, LeaseMargin, Margin, Local, storeVars
<1>3. CASE ~UNCHANGED storeVars
  <2>1. key # token[m] \/ token[m] = NoToken
    BY <1>1, <1>3 DEF IInv, TokensDistinct, Local
  <2>2. token[m] # NoToken
        \/ (pc[m] # "incr" /\ ~(pc[m] = "loop" /\ mgr[m] \in {"run", "exited"}))
    BY DEF IInv, Control
  <2>3. pc[m] # "incr" /\ ~(pc[m] = "loop" /\ mgr[m] \in {"run", "exited"})
    BY <2>1, <2>2 DEF IInv, LeaseMargin, Margin, Typed
  <2> QED BY <1>1, <2>3 DEF Local, Margin
<1> QED BY <1>2, <1>3

LEMMA MarginOfActor ==
  ASSUME TimingAssumption, IInv, NEW n \in Nodes, NodeStep(n)
  PROVE  Margin(n)'
<1>0. Typed /\ Control /\ Margin(n)
  BY DEF IInv, LeaseMargin
<1> USE <1>0 DEF Typed, StoreTypeOK, PC, Control, Margin, Goto, TimingAssumption, storeVars, lagVars
<1>1. CASE SetNXWins(n)
  BY <1>1 DEF SetNXWins, SetNX
<1>2. CASE Incr(n)
  BY <1>2 DEF Incr
<1>3. CASE RenewSucceeds(n)
  BY <1>3 DEF RenewSucceeds, Extend
<1>4. CASE RenewFails(n)
  BY <1>4 DEF RenewFails, MgrReturns, Extend
<1>5. CASE SetNXLoses(n) \/ SetNXFails(n) \/ IncrFails(n) \/ UndoAcquire(n)
  BY <1>5 DEF SetNXLoses, SetNXFails, IncrFails, UndoAcquire
<1>6. CASE OnLeaseStopped(n) \/ OnStop(n) \/ OnRetry(n) \/ Join(n) \/ Release(n) \/ Clear(n)
  BY <1>6 DEF OnLeaseStopped, OnStop, OnRetry, Join, Release, Clear
<1>7. CASE Start(n) \/ Crash(n) \/ Stop(n) \/ MgrStops(n)
  BY <1>7 DEF Start, Crash, Stop, MgrStops, MgrReturns
<1> QED
  BY <1>1, <1>2, <1>3, <1>4, <1>5, <1>6, <1>7 DEF NodeStep, Loop, Manager, Environment

LEMMA MarginAfterTick ==
  ASSUME TimingAssumption, IInv, Tick, NEW n \in Nodes
  PROVE  Margin(n)'
<1>0. Typed /\ Control /\ Margin(n) /\ InTime
  BY DEF IInv, LeaseMargin, Tick, TimingAssumption
<1> USE <1>0 DEF Typed, StoreTypeOK, Control, Tick, Age, InTime, TimingAssumption
<1>1. CASE pc[n] = "incr"
  BY <1>1 DEF LoopDue, Margin
<1>2. CASE pc[n] = "loop" /\ mgr[n] = "run" /\ ~due[n]
  BY <1>2 DEF MgrDue, Margin
<1>3. CASE pc[n] = "loop" /\ mgr[n] = "run" /\ due[n]
  BY <1>3 DEF MgrDue, Margin
<1>4. CASE pc[n] = "loop" /\ mgr[n] = "exited"
  BY <1>4 DEF LoopDue, Margin
<1>5. CASE pc[n] # "incr" /\ ~(pc[n] = "loop" /\ mgr[n] \in {"run", "exited"})
  BY <1>5 DEF Margin
<1> QED BY <1>1, <1>2, <1>3, <1>4, <1>5

LEMMA InductiveInvariant == ASSUME TimingAssumption PROVE Spec => []IInv
<1>1. Init => LeaseMargin
  BY DEF Init, LeaseMargin, Margin
<1>2. IInv /\ [Next]_vars => LeaseMargin'
  <2> SUFFICES ASSUME IInv, [Next]_vars, NEW m \in Nodes
               PROVE  Margin(m)'
    BY DEF LeaseMargin
  <2>1. CASE Tick
    BY <2>1, MarginAfterTick
  <2>2. ASSUME NEW n \in Nodes, NodeStep(n)
        PROVE  Margin(m)'
    BY <2>2, MarginOfActor, MarginOfOthers
  <2>3. CASE UNCHANGED vars
    BY <2>3 DEF vars, nodeVars, lagVars, IInv, LeaseMargin, Margin
  <2> QED BY <2>1, <2>2, <2>3 DEF Next, NodeStep
<1> QED BY <1>1, <1>2, TypedInvariant, ControlInvariant, PTL DEF Spec, IInv

-----------------------------------------------------------------------------
\* With timely steps a node that reports IsLeader and is not shutting down
\* owns the lease in Redis, whatever fails and for every timing parameter
\* with RenewInterval + 3 * Delay < Lease.
THEOREM LeaderOwnsLeaseThm == ASSUME TimingAssumption PROVE Spec => []LeaderOwnsLease
<1>1. IInv => LeaderOwnsLease
  BY DEF IInv, Typed, PC, Control, LeaseMargin, Margin, LeaderOwnsLease, SteppingDown
<1> QED BY <1>1, InductiveInvariant, PTL

\* With timely steps there are never two primaries, except during stepDown.
THEOREM SinglePrimaryThm == ASSUME TimingAssumption PROVE Spec => []SinglePrimary
<1>1. IInv => SinglePrimary
  BY DEF IInv, Typed, PC, Control, TokensDistinct, LeaseMargin, Margin,
         SinglePrimary, SteppingDown
<1> QED BY <1>1, InductiveInvariant, PTL

=============================================================================
