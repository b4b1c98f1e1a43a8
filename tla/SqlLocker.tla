------------------------------ MODULE SqlLocker ------------------------------
(***************************************************************************)
(* The SQL branch of internal/service/locker, as internal/service/hostlock *)
(* hands it to plugins: one row of sys_locker, and clients that acquire,   *)
(* renew and release the lock behind it by a ticket.                       *)
(*                                                                         *)
(* Every SQL statement is a step.  A call reads the clock before the       *)
(* statement that uses it, and Delay bounds how much later that statement  *)
(* runs.  A ticket carries a holder that no other acquisition has          *)
(* (buildLockHolder), so the branch of Lock that extends the caller's own  *)
(* row is not reachable.                                                   *)
(***************************************************************************)
EXTENDS Integers

CONSTANTS
    Clients,     \* plugin calls that use the lock
    Holders,     \* holder names, one per acquisition
    NoHolder,    \* there is no row; a client has no ticket
    Lease,       \* lease of every acquisition, in ticks
    Delay,       \* ticks between reading the clock and the statement
    MaxTime      \* bound on the clock

ASSUME SqlLockerAssumption ==
    /\ NoHolder \notin Holders
    /\ Lease \in Nat \ {0}
    /\ Delay \in Nat
    /\ MaxTime \in Nat

VARIABLES
    now,         \* the clock of the process
    row,         \* the row of the lock: holder and expire_time
    pc,          \* "idle", "insert", "takeover", "extend": the statement due
    holder,      \* the holder of the client's call or ticket
    at,          \* the clock when the call read it
    until,       \* ExpireAt as the client was told; 0 when it has no ticket
    misled       \* history: clients told so by a renewal of another's row

vars == <<now, row, pc, holder, at, until, misled>>

TypeOK ==
    /\ now \in Nat
    /\ row \in [holder : Holders \cup {NoHolder}, expire : Int]
    /\ pc \in [Clients -> {"idle", "insert", "takeover", "extend"}]
    /\ holder \in [Clients -> Holders \cup {NoHolder}]
    /\ at \in [Clients -> Nat]
    /\ until \in [Clients -> Nat]
    /\ misled \in SUBSET Clients
    /\ \A c \in Clients : holder[c] = NoHolder => pc[c] \in {"idle", "extend"} /\ until[c] = 0

Init ==
    /\ now = 0
    /\ row = [holder |-> NoHolder, expire |-> -1]
    /\ pc = [c \in Clients |-> "idle"]
    /\ holder = [c \in Clients |-> NoHolder]
    /\ at = [c \in Clients |-> 0]
    /\ until = [c \in Clients |-> 0]
    /\ misled = {}

\* guid.S never returns a holder that somebody still refers to.
Fresh(h) == h # row.holder /\ \A c \in Clients : h # holder[c]

Ticket(c) == until[c] > 0

Goto(c, s) == pc' = [pc EXCEPT ![c] = s]

\* Mutant of Forget: the ticket stays usable.
Forget_KeepsTicket(c) ==
    holder' = [holder EXCEPT ![c] = NoHolder] /\ UNCHANGED <<until, misled>>

Forget(c) ==
    /\ holder' = [holder EXCEPT ![c] = NoHolder]
    /\ until' = [until EXCEPT ![c] = 0]
    /\ misled' = misled \ {c}

\* hostlock reads the clock again for the ExpireAt of its answer.
Granted(c) ==
    /\ until' = [until EXCEPT ![c] = now + Lease]
    /\ misled' = IF row'.holder = holder[c] THEN misled \ {c} ELSE misled \cup {c}
    /\ UNCHANGED holder

-----------------------------------------------------------------------------
\* Lock reads the row: without one it inserts, with one it may take it over.
LockReads(c) ==
    /\ pc[c] = "idle" /\ holder[c] = NoHolder
    /\ \E h \in Holders : Fresh(h) /\ holder' = [holder EXCEPT ![c] = h]
    /\ Goto(c, IF row.holder = NoHolder THEN "insert" ELSE "takeover")
    /\ at' = [at EXCEPT ![c] = now]
    /\ UNCHANGED <<now, row, until, misled>>

OwnRow(c) == row' = [holder |-> holder[c], expire |-> at[c] + Lease]

\* INSERT; the unique index on the name lets one of several succeed.
Inserts(c) == row.holder = NoHolder /\ OwnRow(c)

\* Mutant of TakesOver: expire_time is not compared with the clock.
TakesOver_Unexpired(c) == row.holder # NoHolder /\ OwnRow(c)

\* UPDATE ... WHERE id = ? AND expire_time < now.
TakesOver(c) == row.expire < at[c] /\ OwnRow(c)

\* The statement of Lock that claims the row.
Claims(c) ==
    \/ pc[c] = "insert" /\ Inserts(c)
    \/ pc[c] = "takeover" /\ TakesOver(c)

LockSucceeds(c) ==
    /\ Claims(c)
    /\ Granted(c)
    /\ Goto(c, "idle")
    /\ UNCHANGED <<now, at>>

\* The statement ran and its reply is lost: Lock returns an error.
LockReplyLost(c) ==
    /\ Claims(c)
    /\ Forget(c)
    /\ Goto(c, "idle")
    /\ UNCHANGED <<now, at>>

\* Unique violation, no row affected, or an error before the statement ran.
LockFails(c) ==
    /\ pc[c] \in {"insert", "takeover"}
    /\ Forget(c)
    /\ Goto(c, "idle")
    /\ UNCHANGED <<now, row, at>>

-----------------------------------------------------------------------------
\* SELECT ... WHERE name AND holder AND expire_time > t.
Held(c, t) == row.holder = holder[c] /\ row.expire > t

\* RenewByName, first statement; the clock it compares with may have been
\* read some ticks ago.
RenewChecks(c) ==
    /\ pc[c] = "idle" /\ Ticket(c)
    /\ \E t \in at[c]..now :
          /\ now - t <= Delay
          /\ Held(c, t)
          /\ at' = [at EXCEPT ![c] = t]
    /\ Goto(c, "extend")
    /\ UNCHANGED <<now, row, holder, until, misled>>

\* RenewByName finds no live row of the ticket: the lock is lost.
RenewRefused(c) ==
    /\ pc[c] = "idle" /\ Ticket(c)
    /\ ~Held(c, now)
    /\ Forget(c)
    /\ UNCHANGED <<now, row, pc, at>>

\* RenewByName, second statement: UPDATE ... WHERE id = ?, whoever holds the
\* row by now.  The ticket may have been released meanwhile, and the reply may
\* be lost.
RenewExtends(c) ==
    /\ pc[c] = "extend"
    /\ row' = [row EXCEPT !.expire = at[c] + Lease]
    /\ \/ Ticket(c) /\ Granted(c)
       \/ UNCHANGED <<holder, until, misled>>
    /\ Goto(c, "idle")
    /\ UNCHANGED <<now, at>>

\* The second statement did not run.
RenewFails(c) ==
    /\ pc[c] = "extend"
    /\ Goto(c, "idle")
    /\ UNCHANGED <<now, row, holder, at, until, misled>>

-----------------------------------------------------------------------------
\* Mutant of Expire: UPDATE by name alone.
Expire_AnyHolder(c) == row' = [row EXCEPT !.expire = now - 1]

\* UPDATE expire_time = now - 1s WHERE name AND holder.
Expire(c) ==
    row' = IF row.holder = holder[c] THEN [row EXCEPT !.expire = now - 1] ELSE row

\* UnlockByName, also while a renewal of the same ticket is under way.
Release(c) ==
    /\ pc[c] \in {"idle", "extend"} /\ Ticket(c)
    /\ Expire(c)
    /\ Forget(c)
    /\ UNCHANGED <<now, pc, at>>

\* The plugin drops its ticket, or the statement of UnlockByName failed.
Abandon(c) ==
    /\ pc[c] \in {"idle", "extend"} /\ Ticket(c)
    /\ Forget(c)
    /\ UNCHANGED <<now, row, pc, at>>

Tick ==
    /\ now < MaxTime
    /\ \A c \in Clients : pc[c] # "idle" => now - at[c] < Delay
    /\ now' = now + 1
    /\ UNCHANGED <<row, pc, holder, at, until, misled>>

Next ==
    \/ Tick
    \/ \E c \in Clients :
          \/ LockReads(c) \/ LockSucceeds(c) \/ LockReplyLost(c) \/ LockFails(c)
          \/ RenewChecks(c) \/ RenewRefused(c) \/ RenewExtends(c) \/ RenewFails(c)
          \/ Release(c) \/ Abandon(c)

Spec == Init /\ [][Next]_vars

-----------------------------------------------------------------------------
(* Properties. *)

\* Whoever was told that the lock is his until some time relies on it so long,
\* less the latency of a statement: the row may expire that much earlier than
\* the answer says.  A client whose last renewal updated the row of another is
\* left out: RenewTellsTruth, which the code breaks, is about it.
Relying == {c \in Clients : now + Delay < until[c] /\ c \notin misled}

Lock == INSTANCE ExclusiveLock WITH claims <- Relying

\* However slow the statements are, the locker is an exclusive lock: it is
\* granted to nobody while somebody relies on it, although a takeover decides
\* by an old clock, and a renewal checks and extends in two statements between
\* which the ticket can be released and the lock be lost.
Exclusive == Lock!Spec

\* A late renewal, release or takeover of another client never takes the row
\* from a client that relies on it, nor cuts its lease by more than Delay.
LeaseKept ==
    \A c \in Relying : row.holder = holder[c] /\ row.expire >= until[c] - Delay

\* RenewByName reports success only to the client whose lock it extended
\* (src/openspec/specs/distributed-locker/spec.md:39-41).
RenewTellsTruth == [][\A c \in Clients :
    pc[c] = "extend" /\ until'[c] > until[c] => row.holder = holder[c]]_vars
=============================================================================
