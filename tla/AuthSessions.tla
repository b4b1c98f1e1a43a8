----------------------------- MODULE AuthSessions -----------------------------
(***************************************************************************)
(* Login state of one user: tokens and their revocation                    *)
(* (internal/service/auth) over online sessions (internal/service/session).*)
(*                                                                         *)
(* A session belongs to one tenant, or to the platform.                    *)
(* In cluster mode a session is a hot state in Redis with a TTL, an index  *)
(* of the user's tokens in the tenant, in Redis, and a row of              *)
(* sys_online_session, which only lists it.  In single-node mode (cluster = FALSE) the row is the    *)
(* session.  Revoked token ids are kept in the process and in the shared   *)
(* key-value cache, which a single node keeps in its memory.               *)
(*                                                                         *)
(* Operations are taken apart at every access to Redis and to PostgreSQL;  *)
(* the first access of an operation is part of the action that begins it.  *)
(* Clocks are ticks, and something with a TTL exists while now < until.    *)
(***************************************************************************)
EXTENDS Naturals, FiniteSets

CONSTANTS
    Nodes,
    Tokens,       \* token ids: an access and a refresh token have the same
    Tenants,      \* tenants the user is in, with
    Platform,     \* tenant 0
    Calls,        \* requests at work at the same time
    Tickets,      \* pre-login and password-reset tokens
    Timeouts,     \* values of the session timeout, which may change, and of a store's TTL
    AccessTTL,    \* jwt.expire
    RefreshTTL,   \* defaultRefreshTokenTTL
    TicketTTL,    \* preTokenTTL, passwordResetTokenTTL
    RowWindow,    \* sessionLastActiveUpdateWindow
    CallTime,     \* ticks a request may take
    Home,         \* the node of a single-node deployment
    Nowhere,      \* the node of a call that has not begun
    NoToken,      \* no token, no ticket
    Modes,        \* values of cluster.enabled
    MaxTime,      \* bound on the clock
    MaxBegun,     \* bound on the requests that begin
    MaxFaults     \* bound on failing accesses, restarts and changes of the timeout

ASSUME AuthAssumption ==
    /\ Timeouts \subseteq Nat \ {0} /\ Timeouts # {}
    /\ AccessTTL \in Nat /\ RefreshTTL \in Nat /\ TicketTTL \in Nat /\ RowWindow \in Nat
    /\ CallTime \in Nat /\ MaxTime \in Nat /\ MaxBegun \in Nat
    /\ MaxFaults \in Nat
    /\ Home \in Nodes /\ Nowhere \notin Nodes /\ NoToken \notin Tokens \cup Tickets
    /\ Modes \subseteq BOOLEAN
    /\ Platform \in Tenants

VARIABLES
    now,
    cluster,      \* cluster.enabled, read at startup
    timeout,      \* the session timeout in force
    tenant,       \* token: the tenant its session belongs to, once it is issued
    token,        \* token: what was issued, and how it ended (history)
    hot,          \* token: hot state in Redis
    index,        \* tenant: the user's index in Redis
    row,          \* token: row of sys_online_session
    marked,       \* token: end of its shared revocation marker, 0: none
    markedAt,     \* node, token: end of its process-local marker
    ticket,       \* ticket: its value, its consume counter, times it was honoured
    call,         \* call: where a request is, and its locals
    begun,        \* number of requests so far
    faults        \* number of faults so far

store == <<hot, index, row>>
vars == <<now, cluster, timeout, tenant, token, store, marked, markedAt, ticket,
          call, begun, faults>>

TokenState ==
    [issued  : BOOLEAN,
     access  : Nat,         \* when its newest access token expires
     refresh : Nat,         \* when its refresh token expires
     stored  : BOOLEAN,     \* its session was created without an error (history)
     used    : Nat,         \* when the last request began that was accepted with it (history)
     lapsed  : BOOLEAN,     \* it was once unused for the timeout, less Slack (history)
     switch  : BOOLEAN,     \* a tenant switch has begun (history)
     ending  : BOOLEAN,     \* a revocation, switch or reset has begun (history)
     ended   : {"no", "revoked", "switched", "reset"}]     \* and is done (history)

CallState ==
    [pc    : {"idle", "hot", "addRead", "addWrite", "undo", "row", "get", "set", "touch",
              "user", "ok", "no", "mark", "find", "dropHot", "dropRead", "dropWrite",
              "dropRow", "claim", "read", "consume", "todo", "dropRows"},
     kind  : {"login", "access", "refresh", "revoke", "switch", "reset"},
     node  : Nodes \cup {Nowhere},
     token : Tokens \cup {NoToken},
     tkt   : Tickets \cup {NoToken},
     ttl   : Nat,                      \* the session timeout it has read
     claim : Nat,                      \* the counter of the ticket it has read
     idx   : SUBSET Tokens,            \* the index it has read
     todo  : SUBSET Tokens,            \* a reset: the tokens it has still to drop
     due   : SUBSET Tokens,            \* a reset: the sessions it is to end (history)
     since : Nat,                      \* when it began
     dead  : {"no", "revoked", "switched", "reset"}]  \* how its token had ended then

NoTokenState == [issued |-> FALSE, access |-> 0, refresh |-> 0, stored |-> FALSE,
                 used |-> 0, lapsed |-> FALSE, switch |-> FALSE,
                 ending |-> FALSE, ended |-> "no"]
NoHot == [until |-> 0, active |-> 0]
NoIndex == [until |-> 0, tokens |-> {}]
NoRow == [held |-> FALSE, active |-> 0]
NoTicket == [made |-> FALSE, kind |-> "login", until |-> 0, count |-> 0, countUntil |-> 0, honoured |-> 0]
IdleCall == [pc |-> "idle", kind |-> "login", node |-> Nowhere, token |-> NoToken,
             tkt |-> NoToken, ttl |-> 0, claim |-> 0, idx |-> {}, todo |-> {}, due |-> {}, since |-> 0,
             dead |-> "no"]

\* Every variable has its type, and every step on a token has one.
TypeOK ==
    /\ now \in Nat /\ cluster \in Modes /\ timeout \in Timeouts
    /\ token \in [Tokens -> TokenState]
    /\ hot \in [Tokens -> [until : Nat, active : Nat]]
    /\ tenant \in [Tokens -> Tenants]
    /\ index \in [Tenants -> [until : Nat, tokens : SUBSET Tokens]]
    /\ row \in [Tokens -> [held : BOOLEAN, active : Nat]]
    /\ marked \in [Tokens -> Nat]
    /\ markedAt \in [Nodes -> [Tokens -> Nat]]
    /\ ticket \in [Tickets -> [made : BOOLEAN, kind : {"login", "reset"}, until : Nat,
                               count : Nat, countUntil : Nat, honoured : Nat]]
    /\ call \in [Calls -> CallState]
    /\ begun \in 0..MaxBegun /\ faults \in 0..MaxFaults
    /\ \A c \in Calls : call[c].pc \in {"hot", "row", "set", "ok", "mark", "dropRow"}
                          => call[c].token \in Tokens

\* Token ids are of one kind: which of them is of which tenant is left open.
Init ==
    /\ now = 0
    /\ cluster \in Modes
    /\ timeout \in Timeouts
    /\ tenant \in [Tokens -> Tenants]
    /\ token = [k \in Tokens |-> NoTokenState]
    /\ hot = [k \in Tokens |-> NoHot]
    /\ index = [t \in Tenants |-> NoIndex]
    /\ row = [k \in Tokens |-> NoRow]
    /\ marked = [k \in Tokens |-> 0]
    /\ markedAt = [n \in Nodes |-> [k \in Tokens |-> 0]]
    /\ ticket = [t \in Tickets |-> NoTicket]
    /\ call = [c \in Calls |-> IdleCall]
    /\ begun = 0 /\ faults = 0

-----------------------------------------------------------------------------
(* Helpers. *)

Running == IF cluster THEN Nodes ELSE {Home}

Larger(x, y) == IF x >= y THEN x ELSE y

\* tokenTTL for a refresh token.
TokenTTL(ttl) == Larger(RefreshTTL, Larger(ttl, AccessTTL))

Fault == faults < MaxFaults /\ faults' = faults + 1
NoFault == UNCHANGED faults

Becomes(c, b) == call' = [call EXCEPT ![c] = b]
Goto(c, pc) == Becomes(c, [call[c] EXCEPT !.pc = pc])
Ends(c) == Becomes(c, IdleCall)

Live(x) == now < x.until

IndexTokens(t) == IF Live(index[t]) THEN index[t].tokens ELSE {}

OfPlatform == {k \in Tokens : tenant[k] = Platform}

\* A session was last active so long ago that a request refuses it.
Inactive(active, ttl) == active + ttl <= now

\* The login that issued the token has answered.
Delivered(k) ==
    token[k].issued /\ \A c \in Calls : call[c].kind = "login" => call[c].token # k

Settings == <<now, cluster, timeout, tenant>>
Env == <<Settings, begun>>

\* A request that begins counts against the bound.
Counted == begun < MaxBegun /\ begun' = begun + 1

-----------------------------------------------------------------------------
(* Login and session creation: generateTokenPair, createSession, Set. *)

Signed(ttl) == [NoTokenState EXCEPT
    !.issued = TRUE, !.access = now + AccessTTL, !.refresh = now + TokenTTL(ttl), !.used = now]

\* Signs a token pair; a token id is fresh.
Issue(k, ttl) ==
    /\ ~token[k].issued
    /\ token' = [token EXCEPT ![k] = Signed(ttl)]

\* In single-node mode a session is its row.
FirstStore == IF cluster THEN "hot" ELSE "row"

\* Login with a password, to the platform or to the user's one tenant.  Its first
\* effect is the signed pair.
Login(c, n, k) ==
    /\ call[c].pc = "idle" /\ n \in Running
    /\ Issue(k, timeout)
    /\ Becomes(c, [IdleCall EXCEPT !.pc = FirstStore, !.kind = "login", !.node = n,
                                   !.token = k, !.ttl = timeout, !.since = now])
    /\ Counted
    /\ UNCHANGED <<Settings, store, marked, markedAt, ticket, faults>>

\* A session store that fails is only logged: the caller gets its tokens.
SetHot(c) ==
    LET k == call[c].token IN
    /\ call[c].pc = "hot"
    /\ \/ /\ hot' = [hot EXCEPT ![k] = [until |-> now + call[c].ttl, active |-> now]]
          /\ Goto(c, "addRead") /\ NoFault
       \/ Fault /\ Ends(c) /\ UNCHANGED hot
    /\ UNCHANGED <<Env, token, index, row, marked, markedAt, ticket>>

\* addUserIndexToken reads the index,
AddRead(c) ==
    /\ call[c].pc = "addRead"
    /\ \/ /\ Becomes(c, [call[c] EXCEPT !.pc = "addWrite",
                                         !.idx = IndexTokens(tenant[call[c].token])])
          /\ NoFault
       \/ Fault /\ Goto(c, "undo")
    /\ UNCHANGED <<Env, token, store, marked, markedAt, ticket>>

\* and writes it with the token.
AddWrite(c) ==
    /\ call[c].pc = "addWrite"
    /\ \/ /\ index' = [index EXCEPT ![tenant[call[c].token]] =
                          [until |-> now + call[c].ttl, tokens |-> call[c].idx \cup {call[c].token}]]
          /\ Goto(c, "row") /\ NoFault
       \/ Fault /\ Goto(c, "undo") /\ UNCHANGED index
    /\ UNCHANGED <<Env, token, hot, row, marked, markedAt, ticket>>

\* The hot state is removed again when the index could not be written.
UndoHot(c) ==
    /\ call[c].pc = "undo"
    /\ \/ hot' = [hot EXCEPT ![call[c].token] = NoHot] /\ NoFault
       \/ Fault /\ UNCHANGED hot
    /\ Ends(c)
    /\ UNCHANGED <<Env, token, index, row, marked, markedAt, ticket>>

\* The row; when it fails in cluster mode the hot state is dropped.
SetRow(c) ==
    LET k == call[c].token IN
    /\ call[c].pc = "row"
    /\ \/ /\ row' = [row EXCEPT ![k] = [held |-> TRUE, active |-> now]]
          /\ token' = [token EXCEPT ![k].stored = TRUE, ![k].used = call[c].since]
          /\ Ends(c) /\ NoFault
       \/ /\ Fault
          /\ IF cluster THEN Goto(c, "dropHot") ELSE Ends(c)
          /\ UNCHANGED <<row, token>>
    /\ UNCHANGED <<Env, hot, index, marked, markedAt, ticket>>

-----------------------------------------------------------------------------
(* Requests: parseToken, TouchOrValidate, Refresh. *)

Expiry(k, kind) == IF kind = "access" THEN token[k].access ELSE token[k].refresh

\* A marked token is refused, and the marker is copied into the process.
Parse(c, n, k, kind) ==
    /\ call[c].pc = "idle" /\ n \in Running
    /\ Delivered(k) /\ now < Expiry(k, kind)
    /\ LET refused == now < markedAt[n][k] \/ now < marked[k]
       IN /\ markedAt' = IF now < markedAt[n][k] \/ ~refused THEN markedAt
                         ELSE [markedAt EXCEPT ![n][k] = marked[k]]
          /\ IF refused THEN UNCHANGED call
             ELSE Becomes(c, [IdleCall EXCEPT
                    !.pc = "get", !.kind = kind, !.node = n, !.token = k,
                    !.ttl = timeout, !.since = now, !.dead = token[k].ended])
    /\ Counted
    /\ UNCHANGED <<Settings, token, store, marked, ticket, faults>>

\* TouchOrValidate of the coordination store reads the hot state.
GetHot(c) ==
    LET k == call[c].token IN
    /\ cluster /\ call[c].pc = "get"
    /\ \/ ~Live(hot[k]) /\ Goto(c, "no") /\ NoFault
       \/ Live(hot[k]) /\ Inactive(hot[k].active, call[c].ttl) /\ Goto(c, "dropHot") /\ NoFault
       \/ Live(hot[k]) /\ ~Inactive(hot[k].active, call[c].ttl) /\ Goto(c, "set") /\ NoFault
       \/ Fault /\ Ends(c)
    /\ UNCHANGED <<Env, token, store, marked, markedAt, ticket>>

\* Mutant: a request is noted, and the TTL is left as it was.
Refreshed_SameTTL(c) == [until |-> hot[call[c].token].until, active |-> now]

Refreshed(c) == [until |-> now + call[c].ttl, active |-> now]

\* It writes the hot state back with a new TTL.
RefreshHot(c) ==
    /\ call[c].pc = "set"
    /\ \/ /\ hot' = [hot EXCEPT ![call[c].token] = Refreshed(c)]
          /\ Goto(c, "touch") /\ NoFault
       \/ Fault /\ Ends(c) /\ UNCHANGED hot
    /\ UNCHANGED <<Env, token, index, row, marked, markedAt, ticket>>

\* TouchOrValidate of the database store; an inactive row is deleted by its key.
GetRow(c) ==
    LET k == call[c].token IN
    /\ ~cluster /\ call[c].pc = "get"
    /\ \/ ~row[k].held /\ Goto(c, "no") /\ NoFault
       \/ row[k].held /\ Inactive(row[k].active, call[c].ttl) /\ Goto(c, "dropRow") /\ NoFault
       \/ row[k].held /\ ~Inactive(row[k].active, call[c].ttl) /\ Goto(c, "touch") /\ NoFault
       \/ Fault /\ Ends(c)
    /\ UNCHANGED <<Env, token, store, marked, markedAt, ticket>>

\* Mutant: an upsert, like that of the hot state.
Touched_Inserts(k) == [held |-> TRUE, active |-> now]

\* The row's activity is updated outside the write window, if the row is there.
Touched(k) ==
    IF row[k].held /\ row[k].active + RowWindow < now
    THEN [held |-> TRUE, active |-> now] ELSE row[k]

TouchRow(c) ==
    LET k == call[c].token IN
    /\ call[c].pc = "touch"
    /\ \/ /\ row' = [row EXCEPT ![k] = Touched(k)]
          /\ IF call[c].kind = "access"
             THEN Goto(c, "ok") /\ token' = [token EXCEPT ![k].used = Larger(@, call[c].since)]
             ELSE Goto(c, "user") /\ UNCHANGED token
          /\ NoFault
       \/ Fault /\ Ends(c) /\ UNCHANGED <<row, token>>
    /\ UNCHANGED <<Env, hot, index, marked, markedAt, ticket>>

\* Refresh looks the user and the membership up: it signs a new access token,
\* or revokes the session of a user that has lost access.
RefreshUser(c) ==
    LET k == call[c].token IN
    /\ call[c].pc = "user"
    /\ \/ /\ token' = [token EXCEPT ![k].used = Larger(@, call[c].since),
                                    ![k].access = Larger(@, now + AccessTTL)]
          /\ Goto(c, "ok") /\ NoFault
       \/ /\ token' = [token EXCEPT ![k].ending = TRUE]
          /\ Becomes(c, [call[c] EXCEPT !.pc = "mark", !.kind = "revoke"])
          /\ NoFault
       \/ Fault /\ Ends(c) /\ UNCHANGED token
    /\ UNCHANGED <<Env, store, marked, markedAt, ticket>>

Return(c) ==
    /\ call[c].pc \in {"ok", "no"}
    /\ Ends(c)
    /\ UNCHANGED <<Env, token, store, marked, markedAt, ticket, faults>>

-----------------------------------------------------------------------------
(* Revocation: revokeSession, and ReissueTenantToken after it. *)

\* Logout, or a forced logout by an administrator.
Revoke(c, n, k) ==
    /\ call[c].pc = "idle" /\ n \in Running
    /\ Delivered(k)
    /\ token' = [token EXCEPT ![k].ending = TRUE]
    /\ Becomes(c, [IdleCall EXCEPT !.pc = "mark", !.kind = "revoke", !.node = n,
                                   !.token = k, !.ttl = timeout, !.since = now])
    /\ Counted
    /\ UNCHANGED <<Settings, store, marked, markedAt, ticket, faults>>

\* An authenticated request switches the tenant.
Switch(c) ==
    LET k == call[c].token IN
    /\ call[c].pc = "ok" /\ call[c].kind = "access"
    /\ token' = [token EXCEPT ![k].ending = TRUE, ![k].switch = TRUE]
    /\ Becomes(c, [call[c] EXCEPT !.pc = "mark", !.kind = "switch"])
    /\ UNCHANGED <<Env, store, marked, markedAt, ticket, faults>>

\* Mutant: a revocation lasts as long as the access token.
MarkerEnds_Access(c) == {token[call[c].token].access}

\* fallbackRevocationExpiresAt; a switch passes the expiry of the access token it
\* was asked with, which need not be the newest one.
MarkerEnds(c) ==
    IF call[c].kind = "switch" THEN (call[c].since + 1)..token[call[c].token].access
    ELSE {now + TokenTTL(call[c].ttl)}

\* The marker of the process, then the shared one (the first only hides what
\* this node accepts in between).
Mark(c) ==
    LET k == call[c].token IN
    /\ call[c].pc = "mark"
    /\ \E end \in MarkerEnds(c) :
          /\ markedAt' = [markedAt EXCEPT ![call[c].node][k] = end]
          /\ \/ /\ marked' = IF end > now THEN [marked EXCEPT ![k] = end] ELSE marked
                /\ Goto(c, IF cluster THEN "find" ELSE "dropRow")
                /\ NoFault
             \/ cluster /\ Fault /\ Ends(c) /\ UNCHANGED marked
    /\ UNCHANGED <<Env, token, store, ticket>>

\* Delete knows the session's tenant and user from its row.
Find(c) ==
    /\ call[c].pc = "find"
    /\ \/ Goto(c, IF row[call[c].token].held THEN "dropHot" ELSE "dropRow") /\ NoFault
       \/ Fault /\ Ends(c)
    /\ UNCHANGED <<Env, token, store, marked, markedAt, ticket>>

\* deleteHotState: the hot state, and the index without the token.
DropHot(c) ==
    /\ call[c].pc = "dropHot"
    /\ \/ /\ hot' = [hot EXCEPT ![call[c].token] = NoHot]
          /\ Goto(c, "dropRead") /\ NoFault
       \/ Fault /\ Ends(c) /\ UNCHANGED hot
    /\ UNCHANGED <<Env, token, index, row, marked, markedAt, ticket>>

DropRead(c) ==
    /\ call[c].pc = "dropRead"
    /\ \/ /\ Becomes(c, [call[c] EXCEPT !.pc = "dropWrite",
                                         !.idx = IndexTokens(tenant[call[c].token])])
          /\ NoFault
       \/ Fault /\ Ends(c)
    /\ UNCHANGED <<Env, token, store, marked, markedAt, ticket>>

\* Mutant: every caller goes on without the token.
AfterDrop_Forgets(c) == [call[c] EXCEPT !.pc = "dropRow", !.token = NoToken]

\* What follows depends on who dropped the hot state.
AfterDrop(c) ==
    CASE call[c].kind \in {"revoke", "switch"} -> [call[c] EXCEPT !.pc = "dropRow"]
      [] call[c].kind = "reset" -> [call[c] EXCEPT !.pc = "todo", !.token = NoToken]
      [] call[c].kind \in {"access", "refresh"} -> [call[c] EXCEPT !.pc = "no"]
      [] OTHER -> IdleCall

\* The index gets the TTL the process last set at the creation of a session.
DropWrite(c) ==
    LET rest == call[c].idx \ {call[c].token} IN
    /\ call[c].pc = "dropWrite"
    /\ \/ /\ \E ttl \in Timeouts :
                index' = [index EXCEPT ![tenant[call[c].token]] =
                            IF rest = {} THEN NoIndex ELSE [until |-> now + ttl, tokens |-> rest]]
          /\ Becomes(c, AfterDrop(c)) /\ NoFault
       \/ Fault /\ Ends(c) /\ UNCHANGED index
    /\ UNCHANGED <<Env, token, hot, row, marked, markedAt, ticket>>

\* The row is deleted, and the operation has succeeded.
DropRow(c) ==
    LET k == call[c].token IN
    /\ call[c].pc = "dropRow"
    /\ \/ /\ row' = [row EXCEPT ![k] = NoRow]
          /\ \/ call[c].kind = "revoke"
                /\ token' = [token EXCEPT ![k].ended = "revoked"] /\ Ends(c)
             \/ call[c].kind \in {"access", "refresh"} /\ Goto(c, "no") /\ UNCHANGED token
             \/ \* the caller of a switch goes on with a fresh token
                /\ call[c].kind = "switch"
                /\ \E j \in Tokens \ {k} :
                      /\ ~token[j].issued
                      /\ token' = [token EXCEPT
                           ![k].ended = IF @ = "no" THEN "switched" ELSE @,
                           ![j] = Signed(call[c].ttl)]
                      /\ Becomes(c, [call[c] EXCEPT !.pc = FirstStore, !.kind = "login",
                                                    !.token = j])
             \/ \* or with none
                /\ call[c].kind = "switch" /\ \A j \in Tokens : token[j].issued
                /\ token' = [token EXCEPT ![k].ended = IF @ = "no" THEN "switched" ELSE @]
                /\ Ends(c)
          /\ NoFault
       \/ Fault /\ Ends(c) /\ UNCHANGED <<row, token>>
    /\ UNCHANGED <<Env, hot, index, marked, markedAt, ticket>>

-----------------------------------------------------------------------------
(* Tickets: a pre-login token for IssueTenantToken, or a password-reset    *)
(* token for ConfirmPasswordReset.                                         *)

CreateTicket(t, kind) ==
    /\ ~ticket[t].made
    /\ ticket' = [ticket EXCEPT ![t].made = TRUE, ![t].kind = kind, ![t].until = now + TicketTTL]
    /\ Counted
    /\ UNCHANGED <<Settings, token, store, marked, markedAt, call, faults>>

\* Consume increments the ticket's counter, which every increment keeps alive,
Claim(c, n, t) ==
    LET old == IF now < ticket[t].countUntil THEN ticket[t].count ELSE 0 IN
    /\ call[c].pc = "idle" /\ n \in Running
    /\ ticket[t].made
    /\ ticket' = [ticket EXCEPT ![t].count = old + 1, ![t].countUntil = now + TicketTTL]
    /\ Becomes(c, [IdleCall EXCEPT !.pc = "claim", !.kind = ticket[t].kind, !.node = n,
                                   !.tkt = t, !.claim = old + 1, !.since = now])
    /\ Counted
    /\ UNCHANGED <<Settings, token, store, marked, markedAt, faults>>

\* Mutant: every claim goes on to read the ticket.
FirstClaim_Any(c) == call[c].claim > 0

FirstClaim(c) == call[c].claim = 1

\* reads the ticket if it was the first,
ReadTicket(c) ==
    /\ call[c].pc = "claim"
    /\ IF FirstClaim(c) /\ now < ticket[call[c].tkt].until
       THEN Goto(c, "consume") ELSE Ends(c)
    /\ UNCHANGED <<Env, token, store, marked, markedAt, ticket, faults>>

\* The sessions a password reset is to end: those of the platform.
Stored == {k \in OfPlatform : token[k].stored}

\* and deletes it; then the caller logs in to a tenant or resets the password.
Consume(c) ==
    LET t == call[c].tkt IN
    /\ call[c].pc = "consume"
    /\ \/ /\ ticket' = [ticket EXCEPT ![t].until = 0, ![t].honoured = @ + 1]
          /\ \/ /\ call[c].kind = "login"
                /\ \E k \in Tokens :
                      /\ Issue(k, timeout)
                      /\ Becomes(c, [call[c] EXCEPT !.pc = FirstStore, !.token = k,
                                                    !.ttl = timeout])
             \/ /\ call[c].kind = "login" /\ Ends(c) /\ UNCHANGED token   \* no member
             \/ /\ call[c].kind = "reset"
                /\ token' = [k \in Tokens |-> [token[k] EXCEPT !.ending = @ \/ k \in Stored]]
                /\ Becomes(c, [call[c] EXCEPT !.pc = IF cluster THEN "read" ELSE "dropRows",
                                              !.ttl = timeout, !.due = Stored])
          /\ NoFault
       \/ Fault /\ Ends(c) /\ UNCHANGED <<ticket, token>>
    /\ UNCHANGED <<Env, store, marked, markedAt>>

-----------------------------------------------------------------------------
(* The end of a password reset: DeleteByUserId of the platform's sessions. *)
(* Its errors are logged.                                                  *)

ReadIndex(c) ==
    /\ call[c].pc = "read"
    /\ \/ /\ Becomes(c, [call[c] EXCEPT !.pc = "todo", !.todo = IndexTokens(Platform)])
          /\ token' = [k \in Tokens |-> [token[k] EXCEPT
                          !.ending = @ \/ k \in IndexTokens(Platform)]]
          /\ NoFault
       \/ Fault /\ Ends(c) /\ UNCHANGED token
    /\ UNCHANGED <<Env, store, marked, markedAt, ticket>>

NextToken(c) ==
    /\ call[c].pc = "todo"
    /\ \/ \E k \in call[c].todo :
             Becomes(c, [call[c] EXCEPT !.pc = "dropHot", !.token = k, !.todo = @ \ {k}])
       \/ call[c].todo = {} /\ Goto(c, "dropRows")
    /\ UNCHANGED <<Env, token, store, marked, markedAt, ticket, faults>>

Reset(c, k) == [token[k] EXCEPT
    !.ending = @ \/ token[k].issued,
    !.ended = IF k \in call[c].due /\ @ = "no" THEN "reset" ELSE @]

\* The rows of the user's sessions in other tenants are left alone.
DropRows(c) ==
    /\ call[c].pc = "dropRows"
    /\ \/ /\ row' = [k \in Tokens |-> IF k \in OfPlatform THEN NoRow ELSE row[k]]
          /\ token' = [k \in Tokens |-> IF k \in OfPlatform THEN Reset(c, k) ELSE token[k]]
          /\ NoFault
       \/ Fault /\ UNCHANGED <<row, token>>
    /\ Ends(c)
    /\ UNCHANGED <<Env, hot, index, marked, markedAt, ticket>>

-----------------------------------------------------------------------------
(* The environment. *)

\* CleanupInactive
CleanupRow(k) ==
    /\ row[k].held /\ row[k].active + timeout < now
    /\ row' = [row EXCEPT ![k] = NoRow]
    /\ UNCHANGED <<Env, token, hot, index, marked, markedAt, ticket, call, faults>>

ChangeTimeout(t) ==
    /\ t # timeout /\ Fault
    /\ timeout' = t
    /\ UNCHANGED <<now, cluster, tenant, begun, token, store, marked, markedAt, ticket, call>>

\* The memory of a process is lost; a single node's is all of its cache.
Restart(n) ==
    /\ n \in Running /\ Fault
    /\ markedAt' = [markedAt EXCEPT ![n] = [k \in Tokens |-> 0]]
    /\ IF cluster THEN UNCHANGED <<marked, ticket>>
       ELSE /\ marked' = [k \in Tokens |-> 0]
            /\ ticket' = [t \in Tickets |->
                 [ticket[t] EXCEPT !.until = 0, !.countUntil = 0]]
    /\ call' = [c \in Calls |-> IF call[c].node = n THEN IdleCall ELSE call[c]]
    /\ UNCHANGED <<Env, token, store>>

\* By how much the recorded activity of a session may lag behind its use.
Slack == IF cluster THEN 0 ELSE RowWindow

Tick ==
    /\ now < MaxTime
    /\ \A c \in Calls : call[c].pc # "idle" => now < call[c].since + CallTime
    /\ now' = now + 1
    /\ token' = [k \in Tokens |-> [token[k] EXCEPT !.lapsed =
                   token[k].issued /\ (@ \/ token[k].used + timeout <= now' + Slack)]]
    /\ UNCHANGED <<cluster, timeout, tenant, begun, store, marked, markedAt, ticket, call, faults>>

Begin(c) ==
    \/ \E n \in Nodes, k \in Tokens :
          \/ Login(c, n, k) \/ Revoke(c, n, k)
          \/ \E kind \in {"access", "refresh"} : Parse(c, n, k, kind)
    \/ \E n \in Nodes, t \in Tickets : Claim(c, n, t)

Step(c) ==
    \/ SetHot(c) \/ AddRead(c) \/ AddWrite(c) \/ UndoHot(c) \/ SetRow(c)
    \/ GetHot(c) \/ RefreshHot(c) \/ GetRow(c) \/ TouchRow(c) \/ RefreshUser(c) \/ Return(c)
    \/ Switch(c) \/ Mark(c) \/ Find(c) \/ DropHot(c) \/ DropRead(c) \/ DropWrite(c)
    \/ DropRow(c) \/ ReadTicket(c) \/ Consume(c)
    \/ ReadIndex(c) \/ NextToken(c) \/ DropRows(c)

Next ==
    \/ \E c \in Calls : Begin(c) \/ Step(c)
    \/ \E t \in Tickets, kind \in {"login", "reset"} : CreateTicket(t, kind)
    \/ \E k \in Tokens : CleanupRow(k)
    \/ \E t \in Timeouts : ChangeTimeout(t)
    \/ \E n \in Nodes : Restart(n)
    \/ Tick

Spec == Init /\ [][Next]_vars

-----------------------------------------------------------------------------
(* Properties. *)

Accepted(c) == call[c].pc = "ok"

\* Once a logout or a forced logout has succeeded, no request that begins later
\* is accepted with a token of that session, however the session's state was
\* written by requests that were under way.  A session that also switched its
\* tenant is left out: the switch replaces the marker by one that may end sooner.
RevokedStaysOut ==
    \A c \in Calls : (Accepted(c) /\ call[c].dead = "revoked") => token[call[c].token].switch

\* What the specification user-auth says of a tenant switch: the old token is
\* refused on every node from then on.
SwitchIsFinal == \A c \in Calls : Accepted(c) => call[c].dead # "switched"

\* On a single node, the same holds of a tenant switch, and of a password reset
\* for the sessions it is written to end, those of the platform (tenant 0).
SingleNodeStaysOut == \A c \in Calls : (Accepted(c) /\ ~cluster) => call[c].dead = "no"

\* A pre-login or password-reset token is honoured once, whoever presents it
\* again and whichever process restarts.
TicketOnce == \A t \in Tickets : ticket[t].honoured <= 1

\* Without a failure, a session that nobody ends is not lost while it is used:
\* no request with its token is refused, as long as less than the timeout, on a
\* single node less than the timeout without the write window of the row, has
\* passed at any time since the last request began that was accepted.  (A request
\* that finds the session inactive drops it by its key, and with it what another
\* request may have written since it looked.)
ActiveSessionKept ==
    \A c \in Calls : (call[c].pc = "no" /\ faults = 0) =>
        LET s == token[call[c].token] IN
        s.ending \/ ~s.stored \/ s.lapsed

\* What session_coordination.go:205 says of DeleteByUserId: it removes all
\* sessions of the user in the tenant, in cluster mode too.
ResetEndsSessions == \A c \in Calls : Accepted(c) => call[c].dead # "reset"
=============================================================================
