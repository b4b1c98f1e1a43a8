--------------------------- MODULE RedisLockProofs ---------------------------
(***************************************************************************)
(* Proofs about RedisLock, for every set of clients and tokens, every      *)
(* lease and every delay.                                                  *)
(***************************************************************************)
EXTENDS RedisLock, TLAPS

USE LockStoreAssumption, RedisLockAssumption

\* Handles refer to different tokens, and no handle is ahead of the counter.
Handles ==
    /\ \A c \in Clients : token[c] = NoToken <=> state[c] = "idle"
    /\ \A c, d \in Clients : c # d /\ token[c] # NoToken => token[c] # token[d]
    /\ \A c \in Clients : fencing[c] <= fence

\* A client between SETNX and INCR still owns the key.
PendingOwnsKey == \A c \in Clients :
    state[c] = "incr" => key = token[c] /\ ttl >= Lease - lag[c]

\* The variables always have their types.
THEOREM TypeCorrect == Spec => []TypeOK
<1> USE DEF TypeOK, StoreTypeOK
<1>1. Init => TypeOK
  BY DEF Init, StoreInit
<1>2. TypeOK /\ [Next]_vars => TypeOK'
  <2> SUFFICES ASSUME TypeOK, [Next]_vars PROVE TypeOK'
    OBVIOUS
  <2>1. CASE Tick
    BY <2>1 DEF Tick, Age
  <2>2. ASSUME NEW c \in Clients, AcquireSetNX(c) \/ AcquireLost(c)
        PROVE  TypeOK'
    BY <2>2 DEF AcquireSetNX, AcquireLost, SetNX
  <2>3. ASSUME NEW c \in Clients, AcquireIncr(c) \/ AcquireIncrFails(c)
        PROVE  TypeOK'
    BY <2>3 DEF AcquireIncr, AcquireIncrFails
  <2>4. ASSUME NEW c \in Clients, AcquireUndo(c) \/ Release(c)
        PROVE  TypeOK'
    BY <2>4 DEF AcquireUndo, Release, ReleaseScript, Delete, Forget, storeVars
  <2>5. ASSUME NEW c \in Clients, Renew(c)
        PROVE  TypeOK'
    BY <2>5 DEF Renew, Extend
  <2>6. CASE UNCHANGED vars
    BY <2>6 DEF vars
  <2> QED BY <2>1, <2>2, <2>3, <2>4, <2>5, <2>6 DEF Next
<1> QED BY <1>1, <1>2, PTL DEF Spec

LEMMA HandlesInvariant == Spec => [](Handles /\ FencesUnique)
<1> USE DEF Handles, FencesUnique, TypeOK, StoreTypeOK
<1>1. Init => Handles /\ FencesUnique
  BY DEF Init
<1>2. TypeOK /\ Handles /\ FencesUnique /\ [Next]_vars => (Handles /\ FencesUnique)'
  <2> SUFFICES ASSUME TypeOK, Handles, FencesUnique, [Next]_vars
               PROVE  (Handles /\ FencesUnique)'
    OBVIOUS
  <2>1. CASE Tick
    BY <2>1 DEF Tick
  <2>2. ASSUME NEW c \in Clients, AcquireSetNX(c) \/ AcquireLost(c)
        PROVE  (Handles /\ FencesUnique)'
    BY <2>2 DEF AcquireSetNX, AcquireLost, Fresh
  <2>3. ASSUME NEW c \in Clients, AcquireIncr(c) \/ AcquireIncrFails(c)
        PROVE  (Handles /\ FencesUnique)'
    BY <2>3 DEF AcquireIncr, AcquireIncrFails
  <2>4. ASSUME NEW c \in Clients, AcquireUndo(c) \/ Release(c)
        PROVE  (Handles /\ FencesUnique)'
    BY <2>4 DEF AcquireUndo, Release, Forget
  <2>5. ASSUME NEW c \in Clients, Renew(c)
        PROVE  (Handles /\ FencesUnique)'
    BY <2>5 DEF Renew
  <2>6. CASE UNCHANGED vars
    BY <2>6 DEF vars
  <2> QED BY <2>1, <2>2, <2>3, <2>4, <2>5, <2>6 DEF Next
<1> QED BY <1>1, <1>2, TypeCorrect, PTL DEF Spec

\* No two handles ever carry the same fencing token, without any assumption
\* on timing: Redis INCR serialises the clients.
THEOREM FencesUniqueThm == Spec => []FencesUnique
BY HandlesInvariant, PTL

-----------------------------------------------------------------------------
LEMMA FenceInductive == ASSUME TimingAssumption
                        PROVE  Spec => [](PendingOwnsKey /\ FenceOrdersHolders)
<1> DEFINE I == PendingOwnsKey /\ FenceOrdersHolders
<1> USE TimingAssumption
        DEF Handles, PendingOwnsKey, FenceOrdersHolders, TypeOK, StoreTypeOK, TimingAssumption
<1>1. Init => I
  BY DEF Init
<1>2. TypeOK /\ Handles /\ I /\ [Next]_vars => I'
  <2> SUFFICES ASSUME TypeOK, Handles, I, [Next]_vars PROVE I'
    OBVIOUS
  <2>1. CASE Tick
    <3>1. PendingOwnsKey'
      BY <2>1 DEF Tick, Age
    <3>2. FenceOrdersHolders'
      BY <2>1 DEF Tick, Age
    <3> QED BY <3>1, <3>2
  <2>2. ASSUME NEW c \in Clients, AcquireSetNX(c) \/ AcquireLost(c)
        PROVE  I'
    BY <2>2 DEF AcquireSetNX, AcquireLost, Fresh, SetNX
  <2>3. ASSUME NEW c \in Clients, AcquireIncr(c)
        PROVE  I'
    BY <2>3 DEF AcquireIncr
  <2>4. ASSUME NEW c \in Clients, AcquireIncrFails(c)
        PROVE  I'
    BY <2>4 DEF AcquireIncrFails
  <2>5. ASSUME NEW c \in Clients, AcquireUndo(c) \/ Release(c)
        PROVE  I'
    BY <2>5 DEF AcquireUndo, Release, ReleaseScript, Delete, Forget, storeVars
  <2>6. ASSUME NEW c \in Clients, Renew(c)
        PROVE  I'
    BY <2>6 DEF Renew, Extend
  <2>7. CASE UNCHANGED vars
    BY <2>7 DEF vars
  <2> QED BY <2>1, <2>2, <2>3, <2>4, <2>5, <2>6, <2>7 DEF Next
<1> QED BY <1>1, <1>2, TypeCorrect, HandlesInvariant, PTL DEF Spec

\* When INCR follows SETNX within the lease, the live holder has the largest
\* fencing token of all handles around.
THEOREM FenceOrdersHoldersThm == ASSUME TimingAssumption
                                 PROVE  Spec => []FenceOrdersHolders
BY FenceInductive, PTL
-----------------------------------------------------------------------------
\* A step that draws no number and grants nothing ends at most the one claim
\* there is.
LEMMA Ending ==
    ASSUME Handles, UNCHANGED fence, Owning' \subseteq Owning
    PROVE  Fenced!Next \/ UNCHANGED <<Owning, fence>>
<1> SUFFICES ASSUME Owning' # Owning PROVE Fenced!Next
  OBVIOUS
<1>1. PICK c \in Owning : c \notin Owning'
  OBVIOUS
<1>2. c \in Clients /\ Owning = {c}
  BY DEF Owning, Handles
<1>3. Fenced!End(c)
  BY <1>1, <1>2 DEF Fenced!End
<1> QED BY <1>2, <1>3 DEF Fenced!Next

\* When INCR follows SETNX within the lease, the lock store implements the
\* fenced lock: only the INCR of a client that owns the key grants the lock,
\* with a number above all earlier ones, and every other step ends a claim or
\* changes nothing that the abstract lock shows.
THEOREM ImplementsFencedLockThm == ASSUME TimingAssumption
                                   PROVE  Spec => ImplementsFencedLock
<1> USE TimingAssumption
<1>1. Init => Fenced!Init
  BY DEF Init, StoreInit, Fenced!Init, Owning
<1>2. TypeOK /\ Handles /\ PendingOwnsKey /\ [Next]_vars
      => [Fenced!Next]_<<Owning, fence>>
  <2> SUFFICES ASSUME TypeOK, Handles, PendingOwnsKey, [Next]_vars
               PROVE  Fenced!Next \/ UNCHANGED <<Owning, fence>>
    OBVIOUS
  <2> USE DEF TypeOK, StoreTypeOK
  <2>1. CASE Tick
    <3>1. Owning' \subseteq Owning /\ UNCHANGED fence
      BY <2>1 DEF Tick, Age, Owning, Handles
    <3> QED BY <3>1, Ending
  <2>2. ASSUME NEW c \in Clients, AcquireSetNX(c) \/ AcquireLost(c)
        PROVE  Owning' \subseteq Owning /\ UNCHANGED fence
    BY <2>2 DEF AcquireSetNX, AcquireLost, Fresh, SetNX, Owning, Handles
  <2>3. ASSUME NEW c \in Clients, AcquireIncr(c)
        PROVE  Fenced!Next
    <3>1. key = token[c] /\ key # NoToken
      BY <2>3 DEF AcquireIncr, PendingOwnsKey, Handles
    <3>2. Owning = {} /\ Owning' = {c}
      BY <2>3, <3>1 DEF AcquireIncr, Owning, Handles
    <3>3. Fenced!Grant(c)
      BY <2>3, <3>2 DEF AcquireIncr, Fenced!Grant
    <3> QED BY <3>3 DEF Fenced!Next
  <2>4. ASSUME NEW c \in Clients, AcquireIncrFails(c) \/ Renew(c)
        PROVE  Owning' \subseteq Owning /\ UNCHANGED fence
    BY <2>4 DEF AcquireIncrFails, Renew, Extend, Owning
  <2>5. ASSUME NEW c \in Clients, AcquireUndo(c) \/ Release(c)
        PROVE  Owning' \subseteq Owning /\ UNCHANGED fence
    BY <2>5 DEF AcquireUndo, Release, ReleaseScript, Delete, Forget, storeVars,
                Owning, Handles
  <2>6. CASE UNCHANGED vars
    BY <2>6 DEF vars, Owning
  <2> QED BY <2>1, <2>2, <2>3, <2>4, <2>5, <2>6, Ending DEF Next
<1> QED BY <1>1, <1>2, TypeCorrect, HandlesInvariant, FenceInductive, PTL
        DEF Spec, ImplementsFencedLock, Fenced!Spec
=============================================================================
