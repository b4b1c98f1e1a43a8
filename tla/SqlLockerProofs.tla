---------------------------- MODULE SqlLockerProofs ----------------------------
(***************************************************************************)
(* Proofs about SqlLocker, for every set of clients and holders, every     *)
(* lease and every delay between reading a clock and the statement.        *)
(***************************************************************************)
EXTENDS SqlLocker, TLAPS

USE SqlLockerAssumption

\* The variables always have their types.
THEOREM TypeCorrect == Spec => []TypeOK
<1> USE DEF TypeOK
<1>1. Init => TypeOK
  BY DEF Init
<1>2. TypeOK /\ [Next]_vars => TypeOK'
  <2> SUFFICES ASSUME TypeOK, [Next]_vars PROVE TypeOK'
    OBVIOUS
  <2>1. CASE Tick
    BY <2>1 DEF Tick
  <2>2. ASSUME NEW c \in Clients, LockReads(c) PROVE TypeOK'
    BY <2>2 DEF LockReads, Goto, Fresh
  <2>3. ASSUME NEW c \in Clients, LockSucceeds(c) \/ LockReplyLost(c) \/ LockFails(c)
        PROVE  TypeOK'
    BY <2>3 DEF LockSucceeds, LockReplyLost, LockFails, Claims, Inserts, TakesOver,
                OwnRow, Granted, Forget, Goto
  <2>4. ASSUME NEW c \in Clients, RenewChecks(c) \/ RenewRefused(c)
        PROVE  TypeOK'
    BY <2>4 DEF RenewChecks, RenewRefused, Goto, Forget
  <2>5. ASSUME NEW c \in Clients, RenewExtends(c) \/ RenewFails(c)
        PROVE  TypeOK'
    BY <2>5 DEF RenewExtends, RenewFails, Goto, Granted, Ticket
  <2>6. ASSUME NEW c \in Clients, Release(c) \/ Abandon(c)
        PROVE  TypeOK'
    BY <2>6 DEF Release, Abandon, Expire, Forget
  <2>7. CASE UNCHANGED vars
    BY <2>7 DEF vars
  <2> QED BY <2>1, <2>2, <2>3, <2>4, <2>5, <2>6, <2>7 DEF Next
<1> QED BY <1>1, <1>2, PTL DEF Spec

-----------------------------------------------------------------------------
\* A statement runs at most Delay after the clock it uses was read.
Recent == \A c \in Clients : at[c] <= now /\ (pc[c] # "idle" => now - at[c] <= Delay)

\* No two clients have the same holder.
Distinct ==
    \A c, d \in Clients : c # d /\ holder[c] # NoHolder => holder[c] # holder[d]

\* No answer promises more than a lease from now on.
Promised == \A c \in Clients : until[c] <= now + Lease

IInv == Recent /\ Distinct /\ Promised /\ LeaseKept

\* A client that relies on the lock has a holder, and the row has not expired.
LEMMA RelyingFacts ==
    ASSUME TypeOK, IInv, NEW c \in Relying
    PROVE  /\ c \in Clients /\ holder[c] # NoHolder
           /\ row.holder = holder[c] /\ row.expire > now
           /\ \A d \in Relying : d = c
BY DEF TypeOK, IInv, LeaseKept, Distinct, Relying

\* A row is claimed only when nobody relies on the lock.
LEMMA ClaimsFree ==
    ASSUME TypeOK, IInv, NEW c \in Clients, Claims(c)
    PROVE  Relying = {} /\ at[c] \in Nat /\ now - at[c] <= Delay
           /\ row' = [holder |-> holder[c], expire |-> at[c] + Lease]
<1>1. at[c] \in Nat /\ at[c] <= now /\ now - at[c] <= Delay
  BY DEF TypeOK, IInv, Recent, Claims
<1>2. row.holder = NoHolder \/ row.expire < at[c]
  BY DEF Claims, Inserts, TakesOver
<1>3. Relying = {}
  BY <1>1, <1>2, RelyingFacts DEF TypeOK
<1> QED BY <1>1, <1>3 DEF Claims, Inserts, TakesOver, OwnRow

\* A renewal's update leaves every client that relies on the lock, and keeps
\* its ticket as it is, with all but Delay of what it was told.
LEMMA ExtendKeeps ==
    ASSUME TypeOK, IInv, NEW c \in Clients, RenewExtends(c), NEW d \in Relying
    PROVE  row'.holder = row.holder /\ row'.expire = at[c] + Lease
           /\ row'.expire >= until[d] - Delay
<1>1. row'.holder = row.holder /\ row'.expire = at[c] + Lease
  BY DEF TypeOK, RenewExtends
<1>2. at[c] \in Nat /\ now - at[c] <= Delay /\ until[d] <= now + Lease
  BY DEF TypeOK, IInv, Recent, Promised, RenewExtends, Relying
<1> QED BY <1>1, <1>2 DEF TypeOK, Relying

LEMMA InductiveInvariant == Spec => []IInv
<1> USE DEF TypeOK
<1>1. Init => IInv
  BY DEF Init, IInv, Recent, Distinct, Promised, LeaseKept, Relying
<1>2. ASSUME TypeOK, IInv, [Next]_vars PROVE IInv'
  <2> USE <1>2
  <2>1. Recent'
    <3> USE DEF IInv, Recent, Goto
    <3>1. CASE Tick
      BY <3>1 DEF Tick
    <3>2. ASSUME NEW c \in Clients, LockReads(c) \/ LockSucceeds(c) \/ LockReplyLost(c) \/ LockFails(c)
          PROVE  Recent'
      BY <3>2 DEF LockReads, LockSucceeds, LockReplyLost, LockFails
    <3>3. ASSUME NEW c \in Clients, RenewChecks(c) \/ RenewRefused(c) \/ RenewExtends(c) \/ RenewFails(c)
          PROVE  Recent'
      BY <3>3 DEF RenewChecks, RenewRefused, RenewExtends, RenewFails
    <3>4. ASSUME NEW c \in Clients, Release(c) \/ Abandon(c)
          PROVE  Recent'
      BY <3>4 DEF Release, Abandon
    <3>5. CASE UNCHANGED vars
      BY <3>5 DEF vars
    <3> QED BY <3>1, <3>2, <3>3, <3>4, <3>5 DEF Next
  <2>2. Distinct'
    <3> USE DEF IInv, Distinct
    <3>1. ASSUME NEW c \in Clients, LockReads(c)
          PROVE  Distinct'
      BY <3>1 DEF LockReads, Fresh
    <3>2. ASSUME NEW c \in Clients, LockSucceeds(c) \/ LockReplyLost(c) \/ LockFails(c)
          PROVE  Distinct'
      BY <3>2 DEF LockSucceeds, LockReplyLost, LockFails, Granted, Forget
    <3>3. ASSUME NEW c \in Clients, RenewChecks(c) \/ RenewRefused(c) \/ RenewExtends(c) \/ RenewFails(c)
          PROVE  Distinct'
      BY <3>3 DEF RenewChecks, RenewRefused, RenewExtends, RenewFails, Granted, Forget
    <3>4. ASSUME NEW c \in Clients, Release(c) \/ Abandon(c)
          PROVE  Distinct'
      BY <3>4 DEF Release, Abandon, Forget
    <3>5. CASE Tick \/ UNCHANGED vars
      BY <3>5 DEF Tick, vars
    <3> QED BY <3>1, <3>2, <3>3, <3>4, <3>5 DEF Next
  <2>3. Promised'
    <3> USE DEF IInv, Promised
    <3>1. ASSUME NEW c \in Clients, LockReads(c) \/ LockSucceeds(c) \/ LockReplyLost(c) \/ LockFails(c)
          PROVE  Promised'
      BY <3>1 DEF LockReads, LockSucceeds, LockReplyLost, LockFails, Granted, Forget
    <3>2. ASSUME NEW c \in Clients, RenewChecks(c) \/ RenewRefused(c) \/ RenewExtends(c) \/ RenewFails(c)
          PROVE  Promised'
      BY <3>2 DEF RenewChecks, RenewRefused, RenewExtends, RenewFails, Granted, Forget
    <3>3. ASSUME NEW c \in Clients, Release(c) \/ Abandon(c)
          PROVE  Promised'
      BY <3>3 DEF Release, Abandon, Forget
    <3>4. CASE Tick \/ UNCHANGED vars
      BY <3>4 DEF Tick, vars
    <3> QED BY <3>1, <3>2, <3>3, <3>4 DEF Next
  <2>4. LeaseKept'
    <3> SUFFICES ASSUME NEW d \in Relying'
                 PROVE  row'.holder = holder'[d] /\ row'.expire >= until'[d] - Delay
      BY DEF LeaseKept
    <3>0. /\ d \in Clients /\ now' + Delay < until'[d] /\ d \notin misled'
          /\ d \in Relying => row.holder = holder[d] /\ row.expire >= until[d] - Delay
      BY DEF Relying, IInv, LeaseKept
    <3>1. CASE UNCHANGED <<row, holder, until, misled>> /\ now' \in {now, now + 1}
      BY <3>0, <3>1 DEF Relying
    <3>2. ASSUME NEW c \in Clients, Claims(c), UNCHANGED now, Granted(c) \/ Forget(c)
          PROVE  row'.holder = holder'[d] /\ row'.expire >= until'[d] - Delay
      <4>1. d \notin Relying /\ at[c] \in Nat /\ now - at[c] <= Delay
            /\ row' = [holder |-> holder[c], expire |-> at[c] + Lease]
        BY <3>2, ClaimsFree
      <4>2. d = c /\ Granted(c)
        BY <3>0, <3>2, <4>1 DEF Granted, Forget, Relying
      <4> QED BY <4>1, <4>2 DEF Granted
    <3>3. ASSUME NEW c \in Clients, Forget(c), UNCHANGED now, UNCHANGED row \/ Expire(c)
          PROVE  row'.holder = holder'[d] /\ row'.expire >= until'[d] - Delay
      <4>1. d # c /\ d \in Relying /\ holder'[d] = holder[d] /\ until'[d] = until[d]
        BY <3>0, <3>3 DEF Forget, Relying
      <4>2. row.holder # holder[c]
        BY <4>1, RelyingFacts DEF IInv, Distinct
      <4>3. row' = row
        BY <3>3, <4>2 DEF Expire
      <4> QED BY <3>0, <4>1, <4>3
    <3>4. ASSUME NEW c \in Clients, LockReads(c)
          PROVE  row'.holder = holder'[d] /\ row'.expire >= until'[d] - Delay
      <4>1. d \in Relying /\ row' = row /\ until' = until
        BY <3>0, <3>4 DEF LockReads, Relying
      <4>2. holder[d] # NoHolder
        BY <4>1, RelyingFacts
      <4>3. holder'[d] = holder[d]
        BY <3>0, <3>4, <4>2 DEF LockReads
      <4> QED BY <3>0, <4>1, <4>3
    <3>5. ASSUME NEW c \in Clients, RenewExtends(c)
          PROVE  row'.holder = holder'[d] /\ row'.expire >= until'[d] - Delay
      <4>1. row'.holder = row.holder /\ row'.expire = at[c] + Lease /\ holder' = holder /\ now' = now
        BY <3>5 DEF RenewExtends, Granted
      <4>2. at[c] \in Nat /\ now - at[c] <= Delay
        BY <3>5 DEF RenewExtends, IInv, Recent
      <4>3. CASE until'[d] = until[d] /\ (d \in misled' <=> d \in misled)
        <5>1. d \in Relying
          BY <3>0, <4>1, <4>3 DEF Relying
        <5> QED BY <3>0, <3>5, <4>1, <4>3, <5>1, ExtendKeeps
      <4>4. CASE d = c /\ Granted(c)
        <5>1. row'.holder = holder[c] /\ until'[c] = now + Lease
          BY <3>0, <4>4 DEF Granted
        <5> QED BY <4>1, <4>2, <4>4, <5>1
      <4> QED BY <3>0, <3>5, <4>3, <4>4 DEF RenewExtends, Granted
    <3> QED BY <3>1, <3>2, <3>3, <3>4, <3>5
            DEF Next, Tick, LockSucceeds, LockReplyLost, LockFails, RenewChecks,
                RenewRefused, RenewFails, Release, Abandon, vars
  <2> QED BY <2>1, <2>2, <2>3, <2>4 DEF IInv
<1> QED BY <1>1, <1>2, TypeCorrect, PTL DEF Spec

-----------------------------------------------------------------------------
\* A step after which nobody relies on the lock who did not before ends the
\* one claim there is, or none.
LEMMA Ending ==
    ASSUME TypeOK, IInv, Relying' \subseteq Relying
    PROVE  Lock!Next \/ UNCHANGED Relying
<1> SUFFICES ASSUME Relying' # Relying PROVE Lock!Next
  OBVIOUS
<1>1. PICK c \in Relying : c \notin Relying'
  OBVIOUS
<1>2. c \in Clients /\ Relying = {c} /\ Relying' = {}
  BY <1>1, RelyingFacts
<1> QED BY <1>2 DEF Lock!Next, Lock!End

\* However slow its statements are, the SQL locker implements the exclusive
\* lock for the clients that allow for their latency: a row is taken over only
\* when nobody relies on it, and a renewal that has lost its row misleads its
\* own client only.
THEOREM ExclusiveThm == Spec => Exclusive
<1>1. Init => Lock!Init
  BY DEF Init, Lock!Init, Relying
<1>2. ASSUME TypeOK, IInv, [Next]_vars PROVE [Lock!Next]_Relying
  <2> SUFFICES Lock!Next \/ UNCHANGED Relying
    OBVIOUS
  <2> USE <1>2 DEF TypeOK
  <2>1. CASE Tick
    BY <2>1, Ending DEF Tick, Relying
  <2>2. ASSUME NEW c \in Clients, LockSucceeds(c)
        PROVE  Lock!Next \/ UNCHANGED Relying
    <3>1. Relying = {}
      BY <2>2, ClaimsFree DEF LockSucceeds
    <3>2. Relying' = {c} \/ Relying' = {}
      BY <2>2, <3>1 DEF LockSucceeds, Granted, Relying
    <3> QED BY <3>1, <3>2 DEF Lock!Next, Lock!Grant
  <2>3. ASSUME NEW c \in Clients, LockReads(c) \/ LockReplyLost(c) \/ LockFails(c)
                                  \/ RenewChecks(c) \/ RenewFails(c)
        PROVE  Relying' \subseteq Relying
    BY <2>3 DEF LockReads, LockReplyLost, LockFails, RenewChecks, RenewFails,
                Forget, Relying
  <2>4. ASSUME NEW c \in Clients, RenewRefused(c) \/ Release(c) \/ Abandon(c)
        PROVE  Relying' \subseteq Relying
    BY <2>4 DEF RenewRefused, Release, Abandon, Forget, Relying
  <2>5. ASSUME NEW c \in Clients, RenewExtends(c)
        PROVE  Lock!Next \/ UNCHANGED Relying
    <3>1. CASE UNCHANGED <<until, misled>>
      BY <2>5, <3>1 DEF RenewExtends, Relying
    <3>2. CASE Granted(c) /\ row'.holder # holder[c]
      <4>1. c \notin Relying /\ c \in misled'
        BY <2>5, <3>2, RelyingFacts DEF RenewExtends, Granted
      <4> QED BY <2>5, <3>2, <4>1, Ending DEF RenewExtends, Granted, Relying
    <3>3. CASE Granted(c) /\ row'.holder = holder[c] /\ Ticket(c)
      <4>1. \A d \in Relying : d = c
        BY <2>5, <3>3, RelyingFacts DEF RenewExtends, IInv, Distinct, Ticket
      <4>2. Relying' \subseteq Relying \cup {c}
        BY <2>5, <3>3 DEF RenewExtends, Granted, Relying
      <4>3. CASE Relying = {}
        BY <4>2, <4>3 DEF Lock!Next, Lock!Grant
      <4>4. CASE Relying # {}
        BY <4>1, <4>2, <4>4, Ending
      <4> QED BY <4>3, <4>4
    <3> QED BY <2>5, <3>1, <3>2, <3>3 DEF RenewExtends
  <2>6. CASE UNCHANGED vars
    BY <2>6 DEF vars, Relying
  <2> QED BY <2>1, <2>2, <2>3, <2>4, <2>5, <2>6, Ending DEF Next
<1> QED BY <1>1, <1>2, TypeCorrect, InductiveInvariant, PTL DEF Spec, Exclusive, Lock!Spec

\* However slow its statements are, no client takes the row from another that
\* relies on it, nor cuts its lease by more than Delay.
THEOREM LeaseKeptThm == Spec => []LeaseKept
<1>1. IInv => LeaseKept
  BY DEF IInv
<1> QED BY <1>1, InductiveInvariant, PTL
=============================================================================
