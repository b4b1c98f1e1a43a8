-------------------------- MODULE AuthSessionsProofs --------------------------
(***************************************************************************)
(* Proofs about AuthSessions, for every set of nodes, tokens, requests and *)
(* tickets, any number of requests and any number of failures.             *)
(***************************************************************************)
EXTENDS AuthSessions, TLAPS

USE AuthAssumption

TicketState == [made : BOOLEAN, kind : {"login", "reset"}, until : Nat,
                count : Nat, countUntil : Nat, honoured : Nat]

Unplaced == {"idle", "claim", "read", "consume", "todo", "dropRows"}

\* A call on its way has its locals, and past these places it has a token.
CallOK(b) == b \in CallState /\ (b.pc \notin Unplaced => b.token \in Tokens)

TypeInv ==
    /\ now \in Nat /\ cluster \in Modes /\ timeout \in Timeouts
    /\ tenant \in [Tokens -> Tenants]
    /\ token \in [Tokens -> TokenState]
    /\ hot \in [Tokens -> [until : Nat, active : Nat]]
    /\ index \in [Tenants -> [until : Nat, tokens : SUBSET Tokens]]
    /\ row \in [Tokens -> [held : BOOLEAN, active : Nat]]
    /\ marked \in [Tokens -> Nat]
    /\ markedAt \in [Nodes -> [Tokens -> Nat]]
    /\ ticket \in [Tickets -> TicketState]
    /\ call \in [Calls -> CallState] /\ \A c \in Calls : CallOK(call[c])
    /\ begun \in 0..MaxBegun /\ faults \in 0..MaxFaults

LEMMA TypeInvImplies == TypeInv => TypeOK
<1> SUFFICES ASSUME TypeInv PROVE TypeOK
  OBVIOUS
<1>1. \A c \in Calls : call[c].pc \in {"hot", "row", "set", "ok", "mark", "dropRow"}
                          => call[c].token \in Tokens
  BY DEF TypeInv, CallOK, Unplaced
<1> QED BY <1>1 DEF TypeInv, TypeOK, TicketState

LEMMA IdleOK == CallOK(IdleCall)
BY DEF CallOK, CallState, IdleCall, Unplaced

\* Assigning one call keeps the calls typed.
LEMMA CallsTyped ==
    ASSUME TypeInv, NEW c \in Calls, NEW b, CallOK(b), Becomes(c, b)
    PROVE  call' \in [Calls -> CallState] /\ \A d \in Calls : CallOK(call'[d])
<1>1. b \in CallState
  BY DEF CallOK
<1>2. call' \in [Calls -> CallState]
  BY <1>1 DEF TypeInv, Becomes
<1>3. \A d \in Calls : call'[d] = (IF d = c THEN b ELSE call[d])
  BY DEF TypeInv, Becomes
<1> QED BY <1>2, <1>3 DEF TypeInv

LEMMA GotoOK ==
    ASSUME NEW b, CallOK(b), NEW pc,
           \/ pc \in {"claim", "consume", "read", "todo", "dropRows"}
           \/ b.token \in Tokens /\
              pc \in {"hot", "addRead", "addWrite", "undo", "row", "get", "set", "touch", "user",
                      "ok", "no", "mark", "find", "dropHot", "dropRead", "dropWrite", "dropRow"}
    PROVE  CallOK([b EXCEPT !.pc = pc])
BY DEF CallOK, CallState, Unplaced

LEMMA LargerTyped == \A x, y \in Nat : Larger(x, y) \in Nat /\ Larger(x, y) >= x /\ Larger(x, y) >= y
BY DEF Larger

LEMMA SignedTyped ==
    ASSUME TypeInv, NEW ttl \in Nat PROVE Signed(ttl) \in TokenState
<1>1. TokenTTL(ttl) \in Nat
  BY LargerTyped DEF TokenTTL
<1>2. now + AccessTTL \in Nat /\ now + TokenTTL(ttl) \in Nat
  BY <1>1 DEF TypeInv
<1> HIDE DEF TokenTTL
<1> QED BY <1>2 DEF Signed, NoTokenState, TokenState, TypeInv

LEMMA FaultsTyped == ASSUME TypeInv, Fault \/ NoFault PROVE faults' \in 0..MaxFaults
BY DEF TypeInv, Fault, NoFault

\* What the steps on the session stores and tokens keep typed.
StoresTyped ==
    /\ token \in [Tokens -> TokenState]
    /\ hot \in [Tokens -> [until : Nat, active : Nat]]
    /\ index \in [Tenants -> [until : Nat, tokens : SUBSET Tokens]]
    /\ row \in [Tokens -> [held : BOOLEAN, active : Nat]]
    /\ marked \in [Tokens -> Nat]
    /\ markedAt \in [Nodes -> [Tokens -> Nat]]
    /\ ticket \in [Tickets -> TicketState]

LEMMA IndexTyped ==
    ASSUME TypeInv
    PROVE  /\ \A t \in Tenants : IndexTokens(t) \in SUBSET Tokens
           /\ \A k \in Tokens : tenant[k] \in Tenants
BY DEF TypeInv, IndexTokens

\* A step of one call on the way.
LEMMA StepTyped ==
    ASSUME TypeInv, NEW c \in Calls, NEW b, CallOK(b), Becomes(c, b),
           StoresTyped', Fault \/ NoFault, UNCHANGED Env
    PROVE  TypeInv'
<1>1. call' \in [Calls -> CallState] /\ \A d \in Calls : CallOK(call'[d])
  BY CallsTyped
<1>2. faults' \in 0..MaxFaults
  BY FaultsTyped
<1> QED BY <1>1, <1>2 DEF TypeInv, StoresTyped, Env, Settings

\* A call that begins.
LEMMA BeginTyped ==
    ASSUME TypeInv, NEW c \in Calls, NEW b, CallOK(b), Becomes(c, b),
           StoresTyped', Counted, UNCHANGED Settings, UNCHANGED faults
    PROVE  TypeInv'
<1>1. call' \in [Calls -> CallState] /\ \A d \in Calls : CallOK(call'[d])
  BY CallsTyped
<1>2. begun' \in 0..MaxBegun
  BY DEF Counted, TypeInv
<1> QED BY <1>1, <1>2 DEF TypeInv, StoresTyped, Settings

LEMMA StoresAre == TypeInv => StoresTyped
BY DEF TypeInv, StoresTyped

\* A call that has just begun.
LEMMA FreshOK ==
    ASSUME NEW n \in Nodes, NEW k \in Tokens, NEW ttl \in Nat, NEW since \in Nat,
           NEW pc \in {"hot", "row", "get", "mark"},
           NEW kind \in {"login", "access", "refresh", "revoke"}
    PROVE  CallOK([IdleCall EXCEPT !.pc = pc, !.kind = kind, !.node = n, !.token = k,
                                   !.ttl = ttl, !.since = since])
BY DEF CallOK, CallState, IdleCall, Unplaced

LEMMA FreshDeadOK ==
    ASSUME NEW n \in Nodes, NEW k \in Tokens, NEW ttl \in Nat, NEW since \in Nat,
           NEW kind \in {"access", "refresh"},
           NEW dead \in {"no", "revoked", "switched", "reset"}
    PROVE  CallOK([IdleCall EXCEPT !.pc = "get", !.kind = kind, !.node = n, !.token = k,
                                   !.ttl = ttl, !.since = since, !.dead = dead])
BY DEF CallOK, CallState, IdleCall, Unplaced

LEMMA TimeoutNat == TypeInv => timeout \in Nat
BY DEF TypeInv

LEMMA CallIsOK ==
    ASSUME TypeInv, NEW c \in Calls
    PROVE  /\ CallOK(call[c]) /\ call[c] \in CallState
           /\ call[c].ttl \in Nat /\ call[c].since \in Nat /\ call[c].claim \in Nat
           /\ call[c].idx \in SUBSET Tokens /\ call[c].todo \in SUBSET Tokens
BY DEF TypeInv, CallState

\* What the steps assign to a token.
LEMMA TokenSteps ==
    ASSUME NEW s \in TokenState, NEW u \in Nat, NEW x \in Nat, NEW e \in BOOLEAN,
           NEW d \in {"no", "revoked", "switched", "reset"}
    PROVE  /\ [s EXCEPT !.stored = TRUE, !.used = u] \in TokenState
           /\ [s EXCEPT !.used = u] \in TokenState
           /\ [s EXCEPT !.used = u, !.access = x] \in TokenState
           /\ [s EXCEPT !.ending = e] \in TokenState
           /\ [s EXCEPT !.ending = TRUE, !.switch = TRUE] \in TokenState
           /\ [s EXCEPT !.ended = d] \in TokenState
           /\ [s EXCEPT !.ending = e, !.ended = d] \in TokenState
           /\ [s EXCEPT !.lapsed = e] \in TokenState
<1> USE DEF TokenState
<1>1. [s EXCEPT !.stored = TRUE, !.used = u] \in TokenState
  OBVIOUS
<1>2. [s EXCEPT !.used = u] \in TokenState
  OBVIOUS
<1>3. [s EXCEPT !.used = u, !.access = x] \in TokenState
  OBVIOUS
<1>4. [s EXCEPT !.ending = e] \in TokenState
  OBVIOUS
<1>5. [s EXCEPT !.ending = TRUE, !.switch = TRUE] \in TokenState
  OBVIOUS
<1>6. [s EXCEPT !.ended = d] \in TokenState
  OBVIOUS
<1>7. [s EXCEPT !.ending = e, !.ended = d] \in TokenState
  OBVIOUS
<1>8. [s EXCEPT !.lapsed = e] \in TokenState
  OBVIOUS
<1> QED BY <1>1, <1>2, <1>3, <1>4, <1>5, <1>6, <1>7, <1>8

LEMMA TokenTyped ==
    ASSUME StoresTyped, NEW k \in Tokens
    PROVE  /\ token[k] \in TokenState
           /\ \A s \in TokenState : [token EXCEPT ![k] = s] \in [Tokens -> TokenState]
           /\ token[k].used \in Nat /\ token[k].access \in Nat /\ token[k].refresh \in Nat
           /\ token[k].ending \in BOOLEAN /\ token[k].stored \in BOOLEAN
           /\ token[k].issued \in BOOLEAN /\ token[k].lapsed \in BOOLEAN
           /\ token[k].ended \in {"no", "revoked", "switched", "reset"}
BY DEF StoresTyped, TokenState

\* What the steps assign to a ticket.
LEMMA TicketSteps ==
    ASSUME NEW s \in TicketState, NEW x \in Nat, NEW y \in Nat, NEW kind \in {"login", "reset"}
    PROVE  /\ [s EXCEPT !.made = TRUE, !.kind = kind, !.until = x] \in TicketState
           /\ [s EXCEPT !.count = x, !.countUntil = y] \in TicketState
           /\ [s EXCEPT !.until = 0, !.countUntil = 0] \in TicketState
<1> USE DEF TicketState
<1>1. [s EXCEPT !.made = TRUE, !.kind = kind, !.until = x] \in TicketState
  OBVIOUS
<1>2. [s EXCEPT !.count = x, !.countUntil = y] \in TicketState
  OBVIOUS
<1>3. [s EXCEPT !.until = 0, !.countUntil = 0] \in TicketState
  OBVIOUS
<1> QED BY <1>1, <1>2, <1>3

LEMMA HonouredTyped ==
    ASSUME NEW f \in [Tickets -> TicketState], NEW t
    PROVE  [f EXCEPT ![t].until = 0, ![t].honoured = @ + 1] \in [Tickets -> TicketState]
<1> DEFINE g == [f EXCEPT ![t].until = 0]
<1>1. ASSUME NEW s \in TicketState
      PROVE  [s EXCEPT !.until = 0] \in TicketState /\ [s EXCEPT !.honoured = @ + 1] \in TicketState
  BY <1>1 DEF TicketState
<1>2. g \in [Tickets -> TicketState]
  BY <1>1
<1>3. [g EXCEPT ![t].honoured = @ + 1] \in [Tickets -> TicketState]
  <2> HIDE DEF g
  <2> QED BY <1>1, <1>2
<1> QED BY <1>3

\* What a ticket does to the locals of its call.
LEMMA ClaimOK ==
    ASSUME NEW n \in Nodes, NEW t \in Tickets, NEW kind \in {"login", "reset"},
           NEW x \in Nat, NEW since \in Nat
    PROVE  CallOK([IdleCall EXCEPT !.pc = "claim", !.kind = kind, !.node = n,
                                   !.tkt = t, !.claim = x, !.since = since])
BY DEF CallOK, CallState, IdleCall, Unplaced

LEMMA ResetOK ==
    ASSUME NEW b, CallOK(b), NEW pc \in {"read", "dropRows"}, NEW ttl \in Nat,
           NEW due \in SUBSET Tokens
    PROVE  CallOK([b EXCEPT !.pc = pc, !.ttl = ttl, !.due = due])
BY DEF CallOK, CallState, Unplaced

\* Session creation and the lookup of a session.
LEMMA SessionTyped ==
    ASSUME TypeInv, NEW c \in Calls,
           \/ SetHot(c) \/ AddRead(c) \/ AddWrite(c) \/ UndoHot(c) \/ SetRow(c)
           \/ GetHot(c) \/ RefreshHot(c) \/ GetRow(c) \/ TouchRow(c) \/ Return(c)
    PROVE  TypeInv'
<1> DEFINE b == call[c]
<1>0. /\ CallOK(b) /\ b \in CallState /\ b.ttl \in Nat /\ b.since \in Nat
      /\ now \in Nat /\ StoresTyped /\ CallOK(IdleCall)
  BY CallIsOK, StoresAre, IdleOK DEF TypeInv
<1>g. ASSUME NEW pc \in {"hot", "addRead", "addWrite", "undo", "row", "get", "set", "touch", "user",
                          "ok", "no", "mark", "find", "dropHot", "dropRead", "dropWrite", "dropRow"},
             b.token \in Tokens
      PROVE  CallOK([b EXCEPT !.pc = pc])
  BY <1>0, <1>g, GotoOK
<1>1. CASE SetHot(c)
  <2>1. b.token \in Tokens
    BY <1>0, <1>1 DEF SetHot, CallOK, Unplaced
  <2>2. StoresTyped'
    <3>1. hot' \in [Tokens -> [until : Nat, active : Nat]]
      <4>1. [until |-> now + b.ttl, active |-> now] \in [until : Nat, active : Nat]
        BY <1>0
      <4> QED BY <1>0, <1>1, <2>1, <4>1 DEF SetHot, StoresTyped
    <3> QED BY <1>0, <1>1, <3>1 DEF SetHot, StoresTyped
  <2> QED BY <1>0, <1>1, <1>g, <2>1, <2>2, StepTyped DEF SetHot, Goto, Ends
<1>2. CASE AddRead(c)
  <2>1. b.token \in Tokens
    BY <1>0, <1>2 DEF AddRead, CallOK, Unplaced
  <2>2. IndexTokens(tenant[b.token]) \in SUBSET Tokens
    BY <2>1, IndexTyped
  <2>3. CallOK([b EXCEPT !.pc = "addWrite", !.idx = IndexTokens(tenant[call[c].token])])
    BY <1>0, <2>1, <2>2 DEF CallOK, CallState
  <2>4. StoresTyped'
    BY <1>0, <1>2 DEF AddRead, StoresTyped, store
  <2> QED BY <1>2, <1>g, <2>1, <2>3, <2>4, StepTyped DEF AddRead, Goto
<1>3. CASE AddWrite(c)
  <2>1. b.token \in Tokens /\ b.idx \in SUBSET Tokens
    BY <1>0, <1>3, CallIsOK DEF AddWrite, CallOK, Unplaced
  <2>2. StoresTyped'
    <3>1. index' \in [Tenants -> [until : Nat, tokens : SUBSET Tokens]]
      <4>1. [until |-> now + b.ttl, tokens |-> b.idx \cup {b.token}]
              \in [until : Nat, tokens : SUBSET Tokens]
        BY <1>0, <2>1
      <4>2. \/ index' = index
            \/ index' = [index EXCEPT ![tenant[b.token]] =
                           [until |-> now + b.ttl, tokens |-> b.idx \cup {b.token}]]
        BY <1>3 DEF AddWrite
      <4> QED BY <1>0, <4>1, <4>2 DEF StoresTyped
    <3> QED BY <1>0, <1>3, <3>1 DEF AddWrite, StoresTyped
  <2>3. UNCHANGED Env /\ (Fault \/ NoFault) /\ \E pc \in {"row", "undo"} : Goto(c, pc)
    BY <1>3 DEF AddWrite
  <2> QED BY <1>g, <2>1, <2>2, <2>3, StepTyped DEF Goto
<1>4. CASE UndoHot(c)
  <2>2. StoresTyped'
    <3>1. hot' \in [Tokens -> [until : Nat, active : Nat]]
      <4>1. hot' = hot \/ hot' = [hot EXCEPT ![b.token] = NoHot]
        BY <1>4 DEF UndoHot
      <4>2. hot \in [Tokens -> [until : Nat, active : Nat]] /\ NoHot \in [until : Nat, active : Nat]
        BY <1>0 DEF StoresTyped, NoHot
      <4> QED BY <4>1, <4>2
    <3> QED BY <1>0, <1>4, <3>1 DEF UndoHot, StoresTyped
  <2> QED BY <1>0, <1>4, <2>2, StepTyped DEF UndoHot, Ends
<1>5. CASE SetRow(c)
  <2>1. b.token \in Tokens
    BY <1>0, <1>5 DEF SetRow, CallOK, Unplaced
  <2>2. StoresTyped'
    <3>1. row' \in [Tokens -> [held : BOOLEAN, active : Nat]]
      <4>1. [held |-> TRUE, active |-> now] \in [held : BOOLEAN, active : Nat]
        BY <1>0
      <4> QED BY <1>0, <1>5, <2>1, <4>1 DEF SetRow, StoresTyped
    <3>2. token' \in [Tokens -> TokenState]
      <4>1. [token[b.token] EXCEPT !.stored = TRUE, !.used = b.since] \in TokenState
        BY <1>0, <2>1, TokenTyped, TokenSteps
      <4>2. token' = [token EXCEPT ![b.token] = [token[b.token] EXCEPT !.stored = TRUE, !.used = b.since]]
            \/ token' = token
        BY <1>0, <1>5, <2>1 DEF SetRow, StoresTyped
      <4> HIDE DEF b
      <4> QED BY <1>0, <2>1, <4>1, <4>2 DEF StoresTyped
    <3> QED BY <1>0, <1>5, <3>1, <3>2 DEF SetRow, StoresTyped
  <2> QED BY <1>0, <1>5, <1>g, <2>1, <2>2, StepTyped DEF SetRow, Goto, Ends
<1>6. CASE GetHot(c)
  <2>1. b.token \in Tokens
    BY <1>0, <1>6 DEF GetHot, CallOK, Unplaced
  <2>2. StoresTyped'
    BY <1>0, <1>6 DEF GetHot, StoresTyped, store
  <2>3. UNCHANGED Env /\ (Fault \/ NoFault)
    BY <1>6 DEF GetHot
  <2>4. Ends(c) \/ \E pc \in {"no", "dropHot", "set"} : Goto(c, pc)
    BY <1>6 DEF GetHot
  <2> QED BY <1>0, <1>g, <2>1, <2>2, <2>3, <2>4, StepTyped DEF Goto, Ends
<1>7. CASE RefreshHot(c)
  <2>1. b.token \in Tokens
    BY <1>0, <1>7 DEF RefreshHot, CallOK, Unplaced
  <2>2. StoresTyped'
    <3>1. hot' \in [Tokens -> [until : Nat, active : Nat]]
      <4>1. Refreshed(c) \in [until : Nat, active : Nat]
        BY <1>0 DEF Refreshed
      <4> QED BY <1>0, <1>7, <2>1, <4>1 DEF RefreshHot, StoresTyped
    <3> QED BY <1>0, <1>7, <3>1 DEF RefreshHot, StoresTyped
  <2> QED BY <1>0, <1>7, <1>g, <2>1, <2>2, StepTyped DEF RefreshHot, Goto, Ends
<1>8. CASE GetRow(c)
  <2>1. b.token \in Tokens
    BY <1>0, <1>8 DEF GetRow, CallOK, Unplaced
  <2>2. StoresTyped'
    BY <1>0, <1>8 DEF GetRow, StoresTyped, store
  <2>3. UNCHANGED Env /\ (Fault \/ NoFault)
    BY <1>8 DEF GetRow
  <2>4. Ends(c) \/ \E pc \in {"no", "dropRow", "touch"} : Goto(c, pc)
    BY <1>8 DEF GetRow
  <2> QED BY <1>0, <1>g, <2>1, <2>2, <2>3, <2>4, StepTyped DEF Goto, Ends
<1>9. CASE TouchRow(c)
  <2>1. b.token \in Tokens
    BY <1>0, <1>9 DEF TouchRow, CallOK, Unplaced
  <2>2. StoresTyped'
    <3>1. row' \in [Tokens -> [held : BOOLEAN, active : Nat]]
      <4>1. Touched(b.token) \in [held : BOOLEAN, active : Nat]
        <5>1. [held |-> TRUE, active |-> now] \in [held : BOOLEAN, active : Nat]
          BY <1>0
        <5>2. row[b.token] \in [held : BOOLEAN, active : Nat]
          BY <1>0, <2>1 DEF StoresTyped
        <5> QED BY <5>1, <5>2 DEF Touched
      <4> QED BY <1>0, <1>9, <2>1, <4>1 DEF TouchRow, StoresTyped
    <3>2. token' \in [Tokens -> TokenState]
      <4>1. Larger(token[b.token].used, b.since) \in Nat
        BY <1>0, <2>1, LargerTyped, TokenTyped
      <4>2. [token[b.token] EXCEPT !.used = Larger(token[b.token].used, b.since)] \in TokenState
        BY <1>0, <2>1, <4>1, TokenTyped, TokenSteps
      <4>3. token' = [token EXCEPT ![b.token] =
                        [token[b.token] EXCEPT !.used = Larger(token[b.token].used, b.since)]]
            \/ token' = token
        BY <1>0, <1>9, <2>1 DEF TouchRow, StoresTyped
      <4> HIDE DEF b
      <4> QED BY <1>0, <2>1, <4>2, <4>3 DEF StoresTyped
    <3> QED BY <1>0, <1>9, <3>1, <3>2 DEF TouchRow, StoresTyped
  <2>3. UNCHANGED Env /\ (Fault \/ NoFault)
    BY <1>9 DEF TouchRow
  <2>4. Ends(c) \/ \E pc \in {"ok", "user"} : Goto(c, pc)
    BY <1>9 DEF TouchRow
  <2> QED BY <1>0, <1>g, <2>1, <2>2, <2>3, <2>4, StepTyped DEF Goto, Ends
<1>10. CASE Return(c)
  <2>1. StoresTyped'
    BY <1>0, <1>10 DEF Return, StoresTyped, store
  <2> QED BY <1>0, <1>10, <2>1, StepTyped DEF Return, Ends, NoFault
<1> QED BY <1>1, <1>2, <1>3, <1>4, <1>5, <1>6, <1>7, <1>8, <1>9, <1>10

\* Refresh, revocation and the switch of a tenant.
LEMMA RevokeTyped ==
    ASSUME TypeInv, NEW c \in Calls,
           \/ RefreshUser(c) \/ Switch(c) \/ Mark(c) \/ Find(c) \/ DropHot(c) \/ DropRead(c)
           \/ DropWrite(c) \/ DropRow(c)
    PROVE  TypeInv'
<1> DEFINE b == call[c]
<1>0. /\ CallOK(b) /\ b \in CallState /\ b.ttl \in Nat /\ b.since \in Nat
      /\ now \in Nat /\ StoresTyped /\ CallOK(IdleCall)
  BY CallIsOK, StoresAre, IdleOK DEF TypeInv
<1>g. ASSUME NEW pc \in {"hot", "addRead", "addWrite", "undo", "row", "get", "set", "touch", "user",
                          "ok", "no", "mark", "find", "dropHot", "dropRead", "dropWrite", "dropRow"},
             b.token \in Tokens
      PROVE  CallOK([b EXCEPT !.pc = pc])
  BY <1>0, <1>g, GotoOK
<1>k. ASSUME NEW kind \in {"revoke", "switch"}, b.token \in Tokens
      PROVE  CallOK([b EXCEPT !.pc = "mark", !.kind = kind])
  BY <1>0, <1>k DEF CallOK, CallState, Unplaced
<1>1. CASE RefreshUser(c)
  <2>1. b.token \in Tokens
    BY <1>0, <1>1 DEF RefreshUser, CallOK, Unplaced
  <2> DEFINE u == Larger(token[b.token].used, b.since)
             x == Larger(token[b.token].access, now + AccessTTL)
  <2>2. u \in Nat /\ x \in Nat
    <3>1. token[b.token].used \in Nat /\ token[b.token].access \in Nat
      BY <1>0, <2>1, TokenTyped
    <3>2. b.since \in Nat /\ now + AccessTTL \in Nat
      BY <1>0
    <3> HIDE DEF b
    <3> QED BY <3>1, <3>2, LargerTyped
  <2>3. \/ token' = [token EXCEPT ![b.token] = [token[b.token] EXCEPT !.used = u, !.access = x]]
        \/ token' = [token EXCEPT ![b.token] = [token[b.token] EXCEPT !.ending = TRUE]]
        \/ token' = token
    BY <1>0, <1>1, <2>1 DEF RefreshUser, StoresTyped
  <2>4. /\ [token[b.token] EXCEPT !.used = u, !.access = x] \in TokenState
        /\ [token[b.token] EXCEPT !.ending = TRUE] \in TokenState
    <3> HIDE DEF u, x, b
    <3> QED BY <1>0, <2>1, <2>2, TokenTyped, TokenSteps
  <2>5. token' \in [Tokens -> TokenState]
    <3> HIDE DEF u, x, b
    <3> QED BY <1>0, <2>1, <2>3, <2>4 DEF StoresTyped
  <2>6. StoresTyped'
    BY <1>0, <1>1, <2>5 DEF RefreshUser, StoresTyped, store
  <2>7. UNCHANGED Env /\ (Fault \/ NoFault)
    BY <1>1 DEF RefreshUser
  <2>8. \/ Becomes(c, [b EXCEPT !.pc = "ok"]) \/ Becomes(c, IdleCall)
        \/ Becomes(c, [b EXCEPT !.pc = "mark", !.kind = "revoke"])
    BY <1>1 DEF RefreshUser, Goto, Ends
  <2> HIDE DEF b
  <2> QED BY <1>0, <1>g, <1>k, <2>1, <2>6, <2>7, <2>8, StepTyped
<1>2. CASE Switch(c)
  <2>1. b.token \in Tokens
    BY <1>0, <1>2 DEF Switch, CallOK, Unplaced
  <2>2. token' = [token EXCEPT ![b.token] = [token[b.token] EXCEPT !.ending = TRUE, !.switch = TRUE]]
    BY <1>0, <1>2, <2>1 DEF Switch, StoresTyped
  <2>3. [token[b.token] EXCEPT !.ending = TRUE, !.switch = TRUE] \in TokenState
    BY <1>0, <2>1, TokenTyped, TokenSteps
  <2>4. StoresTyped'
    BY <1>0, <1>2, <2>1, <2>2, <2>3 DEF Switch, StoresTyped, store
  <2> QED BY <1>2, <1>k, <2>1, <2>4, StepTyped DEF Switch, NoFault
<1>3. CASE Mark(c)
  <2>1. b.token \in Tokens /\ b.node \in Nodes \cup {Nowhere}
    BY <1>0, <1>3 DEF Mark, CallOK, CallState, Unplaced
  <2>2. MarkerEnds(c) \subseteq Nat
    <3>1. token[b.token].access \in Nat
      BY <1>0, <2>1, TokenTyped
    <3>2. TokenTTL(b.ttl) \in Nat /\ b.since \in Nat
      BY <1>0, LargerTyped, CallIsOK DEF TokenTTL
    <3>3. (b.since + 1)..token[b.token].access \subseteq Nat /\ now + TokenTTL(b.ttl) \in Nat
      BY <1>0, <3>1, <3>2
    <3> QED BY <3>3 DEF MarkerEnds
  <2>e. PICK end \in MarkerEnds(c) :
          /\ markedAt' = [markedAt EXCEPT ![b.node][b.token] = end]
          /\ \/ marked' = marked
             \/ marked' = [marked EXCEPT ![b.token] = end]
    BY <1>3 DEF Mark
  <2>3. StoresTyped'
    <3>1. marked' \in [Tokens -> Nat]
      BY <1>0, <2>2, <2>e DEF StoresTyped
    <3>2. markedAt' \in [Nodes -> [Tokens -> Nat]]
      <4>1. markedAt' = [markedAt EXCEPT ![b.node][b.token] = end] /\ end \in Nat
        BY <2>2, <2>e
      <4>2. markedAt \in [Nodes -> [Tokens -> Nat]]
        BY <1>0 DEF StoresTyped
      <4> QED BY <2>1, <2>2, <4>1, <4>2
    <3> QED BY <1>0, <1>3, <3>1, <3>2 DEF Mark, StoresTyped, store
  <2>4. UNCHANGED Env /\ (Fault \/ NoFault)
    BY <1>3 DEF Mark
  <2>5. Ends(c) \/ \E pc \in {"find", "dropRow"} : Goto(c, pc)
    BY <1>3 DEF Mark
  <2> QED BY <1>0, <1>g, <2>1, <2>3, <2>4, <2>5, StepTyped DEF Goto, Ends
<1>4. CASE Find(c)
  <2>1. b.token \in Tokens
    BY <1>0, <1>4 DEF Find, CallOK, Unplaced
  <2>2. StoresTyped'
    BY <1>0, <1>4 DEF Find, StoresTyped, store
  <2>3. UNCHANGED Env /\ (Fault \/ NoFault)
    BY <1>4 DEF Find
  <2>4. Ends(c) \/ \E pc \in {"dropHot", "dropRow"} : Goto(c, pc)
    BY <1>4 DEF Find
  <2> QED BY <1>0, <1>g, <2>1, <2>2, <2>3, <2>4, StepTyped DEF Goto, Ends
<1>5. CASE DropHot(c)
  <2>1. b.token \in Tokens
    BY <1>0, <1>5 DEF DropHot, CallOK, Unplaced
  <2>2. StoresTyped'
    <3>1. hot' \in [Tokens -> [until : Nat, active : Nat]]
      BY <1>0, <1>5 DEF DropHot, StoresTyped, NoHot
    <3> QED BY <1>0, <1>5, <3>1 DEF DropHot, StoresTyped
  <2> QED BY <1>0, <1>5, <1>g, <2>1, <2>2, StepTyped DEF DropHot, Goto, Ends
<1>6. CASE DropRead(c)
  <2>1. b.token \in Tokens
    BY <1>0, <1>6 DEF DropRead, CallOK, Unplaced
  <2>2. IndexTokens(tenant[b.token]) \in SUBSET Tokens
    BY <2>1, IndexTyped
  <2>3. CallOK([b EXCEPT !.pc = "dropWrite", !.idx = IndexTokens(tenant[call[c].token])])
    BY <1>0, <2>1, <2>2 DEF CallOK, CallState
  <2>4. StoresTyped'
    BY <1>0, <1>6 DEF DropRead, StoresTyped, store
  <2> QED BY <1>0, <1>6, <2>3, <2>4, StepTyped DEF DropRead, Ends
<1>7. CASE DropWrite(c)
  <2>1. b.token \in Tokens /\ b.idx \in SUBSET Tokens
    BY <1>0, <1>7, CallIsOK DEF DropWrite, CallOK, Unplaced
  <2>2. StoresTyped'
    <3>1. index' \in [Tenants -> [until : Nat, tokens : SUBSET Tokens]]
      <4> DEFINE rest == b.idx \ {b.token}
                 new(ttl) == IF rest = {} THEN NoIndex ELSE [until |-> now + ttl, tokens |-> rest]
      <4>1. ASSUME NEW ttl \in Timeouts
            PROVE  new(ttl) \in [until : Nat, tokens : SUBSET Tokens]
        BY <1>0, <2>1 DEF NoIndex
      <4>2. \/ index' = index
            \/ \E ttl \in Timeouts : index' = [index EXCEPT ![tenant[b.token]] = new(ttl)]
        BY <1>7 DEF DropWrite
      <4> HIDE DEF new, b
      <4> QED BY <1>0, <4>1, <4>2 DEF StoresTyped
    <3> QED BY <1>0, <1>7, <3>1 DEF DropWrite, StoresTyped
  <2>3. CallOK(AfterDrop(c))
    <3>1. CallOK([b EXCEPT !.pc = "dropRow"]) /\ CallOK([b EXCEPT !.pc = "no"])
      BY <1>g, <2>1
    <3>2. CallOK([b EXCEPT !.pc = "todo", !.token = NoToken])
      BY <1>0 DEF CallOK, CallState, Unplaced
    <3> QED BY <1>0, <3>1, <3>2 DEF AfterDrop
  <2> QED BY <1>0, <1>7, <2>2, <2>3, StepTyped DEF DropWrite, Ends
<1>8. CASE DropRow(c)
  <2>1. b.token \in Tokens
    BY <1>0, <1>8 DEF DropRow, CallOK, Unplaced
  <2>2. row' \in [Tokens -> [held : BOOLEAN, active : Nat]]
    <3>1. NoRow \in [held : BOOLEAN, active : Nat]
      BY DEF NoRow
    <3> QED BY <1>0, <1>8, <3>1 DEF DropRow, StoresTyped
  <2>3. ASSUME NEW d \in {"no", "revoked", "switched", "reset"}
        PROVE  [token EXCEPT ![b.token] = [token[b.token] EXCEPT !.ended = d]]
                 \in [Tokens -> TokenState]
    BY <1>0, <2>1, TokenTyped, TokenSteps
  <2> DEFINE was == token[b.token].ended
             d == IF was = "no" THEN "switched" ELSE was
  <2>4. d \in {"no", "revoked", "switched", "reset"}
    BY <1>0, <2>1, TokenTyped
  <2>5. UNCHANGED Env /\ (Fault \/ NoFault)
    BY <1>8 DEF DropRow
  <2>6. UNCHANGED <<hot, index, marked, markedAt, ticket>>
    BY <1>8 DEF DropRow
  <2>7. CASE token' = token /\ (Goto(c, "no") \/ Ends(c))
    <3>1. StoresTyped'
      BY <1>0, <2>2, <2>6, <2>7 DEF StoresTyped
    <3> QED BY <1>0, <1>g, <2>1, <2>5, <2>7, <3>1, StepTyped DEF Goto, Ends
  <2>8. CASE token' = [token EXCEPT ![b.token].ended = "revoked"] /\ Ends(c)
    <3>1. token' = [token EXCEPT ![b.token] = [token[b.token] EXCEPT !.ended = "revoked"]]
      BY <1>0, <2>1, <2>8 DEF StoresTyped
    <3>2. StoresTyped'
      BY <1>0, <2>2, <2>3, <2>6, <3>1 DEF StoresTyped
    <3> QED BY <1>0, <2>5, <2>8, <3>2, StepTyped DEF Ends
  <2>9. CASE token' = [token EXCEPT ![b.token].ended = IF @ = "no" THEN "switched" ELSE @] /\ Ends(c)
    <3>1. token' = [token EXCEPT ![b.token] = [token[b.token] EXCEPT !.ended = d]]
      BY <1>0, <2>1, <2>9 DEF StoresTyped
    <3>2. token' \in [Tokens -> TokenState]
      BY <2>3, <2>4, <3>1
    <3>3. StoresTyped'
      BY <1>0, <2>2, <2>6, <3>2 DEF StoresTyped
    <3> QED BY <1>0, <2>5, <2>9, <3>3, StepTyped DEF Ends
  <2>10. ASSUME NEW j \in Tokens \ {b.token},
                token' = [token EXCEPT ![b.token].ended = IF @ = "no" THEN "switched" ELSE @,
                                       ![j] = Signed(b.ttl)],
                Becomes(c, [b EXCEPT !.pc = FirstStore, !.kind = "login", !.token = j])
         PROVE  TypeInv'
    <3>1. Signed(b.ttl) \in TokenState
      BY <1>0, SignedTyped
    <3>2. token' = [[token EXCEPT ![b.token] = [token[b.token] EXCEPT !.ended = d]]
                      EXCEPT ![j] = Signed(b.ttl)]
      BY <1>0, <2>1, <2>10 DEF StoresTyped
    <3>3. [token EXCEPT ![b.token] = [token[b.token] EXCEPT !.ended = d]] \in [Tokens -> TokenState]
      BY <2>3, <2>4
    <3>4. token' \in [Tokens -> TokenState]
      <4> HIDE DEF d, b
      <4> QED BY <3>1, <3>2, <3>3
    <3>5. StoresTyped'
      BY <1>0, <2>2, <2>6, <3>4 DEF StoresTyped
    <3>6. CallOK([b EXCEPT !.pc = FirstStore, !.kind = "login", !.token = j])
      <4>1. FirstStore \in {"hot", "row"}
        BY DEF FirstStore
      <4> HIDE DEF b
      <4> QED BY <1>0, <4>1 DEF CallOK, CallState, Unplaced
    <3> QED BY <2>5, <2>10, <3>5, <3>6, StepTyped
  <2> QED BY <1>8, <2>7, <2>8, <2>9, <2>10 DEF DropRow
<1> QED BY <1>1, <1>2, <1>3, <1>4, <1>5, <1>6, <1>7, <1>8

\* Tickets, and the end of a password reset.
LEMMA TicketTyped ==
    ASSUME TypeInv, NEW c \in Calls,
           ReadTicket(c) \/ Consume(c) \/ ReadIndex(c) \/ NextToken(c) \/ DropRows(c)
    PROVE  TypeInv'
<1> DEFINE b == call[c]
<1>0. /\ CallOK(b) /\ b \in CallState /\ b.ttl \in Nat /\ b.todo \in SUBSET Tokens
      /\ now \in Nat /\ timeout \in Nat /\ StoresTyped /\ CallOK(IdleCall)
  BY CallIsOK, StoresAre, IdleOK, TimeoutNat DEF TypeInv
<1>1. CASE ReadTicket(c)
  <2>1. CallOK([b EXCEPT !.pc = "consume"])
    BY <1>0, GotoOK
  <2>2. StoresTyped'
    BY <1>0, <1>1 DEF ReadTicket, StoresTyped, store
  <2> QED BY <1>0, <1>1, <2>1, <2>2, StepTyped DEF ReadTicket, Goto, Ends, NoFault
<1>2. CASE Consume(c)
  <2>1. ticket' \in [Tickets -> TicketState]
    <3>1. \/ ticket' = ticket
          \/ ticket' = [ticket EXCEPT ![b.tkt].until = 0, ![b.tkt].honoured = @ + 1]
      BY <1>2 DEF Consume
    <3>2. ticket \in [Tickets -> TicketState]
      BY <1>0 DEF StoresTyped
    <3>3. [ticket EXCEPT ![b.tkt].until = 0, ![b.tkt].honoured = @ + 1] \in [Tickets -> TicketState]
      BY <3>2, HonouredTyped
    <3> QED BY <3>1, <3>2, <3>3
  <2>2. UNCHANGED <<Env, store, marked, markedAt>> /\ (Fault \/ NoFault)
    BY <1>2 DEF Consume
  <2>3. CASE token' = token /\ Ends(c)
    <3>1. StoresTyped'
      BY <1>0, <2>1, <2>2, <2>3 DEF StoresTyped, store
    <3> QED BY <1>0, <2>2, <2>3, <3>1, StepTyped DEF Ends
  <2>4. ASSUME NEW k \in Tokens, Issue(k, timeout),
               Becomes(c, [b EXCEPT !.pc = FirstStore, !.token = k, !.ttl = timeout])
        PROVE  TypeInv'
    <3>1. token' \in [Tokens -> TokenState]
      BY <1>0, <2>4, SignedTyped, TokenTyped DEF Issue
    <3>2. StoresTyped'
      BY <1>0, <2>1, <2>2, <3>1 DEF StoresTyped, store
    <3>3. CallOK([b EXCEPT !.pc = FirstStore, !.token = k, !.ttl = timeout])
      <4>1. FirstStore \in {"hot", "row"}
        BY DEF FirstStore
      <4> HIDE DEF b
      <4> QED BY <1>0, <4>1 DEF CallOK, CallState, Unplaced
    <3> QED BY <2>2, <2>4, <3>2, <3>3, StepTyped
  <2> DEFINE due == Stored
             pc == IF cluster THEN "read" ELSE "dropRows"
  <2>5. CASE /\ token' = [k \in Tokens |-> [token[k] EXCEPT !.ending = @ \/ k \in Stored]]
             /\ Becomes(c, [b EXCEPT !.pc = pc, !.ttl = timeout, !.due = due])
    <3>1. \A k \in Tokens :
            [token[k] EXCEPT !.ending = token[k].ending \/ k \in Stored] \in TokenState
      <4> TAKE k \in Tokens
      <4>1. (token[k].ending \/ k \in Stored) \in BOOLEAN
        OBVIOUS
      <4> QED BY <1>0, <4>1, TokenTyped, TokenSteps
    <3>2. token' \in [Tokens -> TokenState]
      BY <2>5, <3>1
    <3>3. StoresTyped'
      BY <1>0, <2>1, <2>2, <3>2 DEF StoresTyped, store
    <3>4. CallOK([b EXCEPT !.pc = pc, !.ttl = timeout, !.due = due])
      <4>1. pc \in {"read", "dropRows"} /\ due \in SUBSET Tokens
        BY DEF Stored, OfPlatform
      <4> HIDE DEF b, pc, due
      <4> QED BY <1>0, <4>1, ResetOK
    <3> QED BY <2>2, <2>5, <3>3, <3>4, StepTyped
  <2> QED BY <1>2, <2>3, <2>4, <2>5 DEF Consume
<1>3. CASE ReadIndex(c)
  <2>1. IndexTokens(Platform) \in SUBSET Tokens
    BY IndexTyped
  <2>2. token' \in [Tokens -> TokenState]
    <3>1. \A k \in Tokens :
            [token[k] EXCEPT !.ending = token[k].ending \/ k \in IndexTokens(Platform)] \in TokenState
      <4> TAKE k \in Tokens
      <4>1. (token[k].ending \/ k \in IndexTokens(Platform)) \in BOOLEAN
        OBVIOUS
      <4> QED BY <1>0, <4>1, TokenTyped, TokenSteps
    <3> QED BY <1>0, <1>3, <3>1 DEF ReadIndex, StoresTyped
  <2>3. StoresTyped'
    BY <1>0, <1>3, <2>2 DEF ReadIndex, StoresTyped, store
  <2>4. CallOK([b EXCEPT !.pc = "todo", !.todo = IndexTokens(Platform)])
    BY <1>0, <2>1 DEF CallOK, CallState, Unplaced
  <2> QED BY <1>0, <1>3, <2>3, <2>4, StepTyped DEF ReadIndex, Ends
<1>4. CASE NextToken(c)
  <2>1. ASSUME NEW k \in b.todo
        PROVE  CallOK([b EXCEPT !.pc = "dropHot", !.token = k, !.todo = b.todo \ {k}])
    BY <1>0, <2>1 DEF CallOK, CallState
  <2>2. CallOK([b EXCEPT !.pc = "dropRows"])
    BY <1>0, GotoOK
  <2>3. StoresTyped'
    BY <1>0, <1>4 DEF NextToken, StoresTyped, store
  <2>4. UNCHANGED Env /\ NoFault
    BY <1>4 DEF NextToken, NoFault
  <2>5. \/ \E k \in b.todo : Becomes(c, [b EXCEPT !.pc = "dropHot", !.token = k, !.todo = b.todo \ {k}])
        \/ Becomes(c, [b EXCEPT !.pc = "dropRows"])
    BY <1>4 DEF NextToken, Goto
  <2> QED BY <2>1, <2>2, <2>3, <2>4, <2>5, StepTyped
<1>5. CASE DropRows(c)
  <2>1. token' \in [Tokens -> TokenState]
    <3> DEFINE e(k) == token[k].ending \/ token[k].issued
               d(k) == IF k \in b.due /\ token[k].ended = "no" THEN "reset" ELSE token[k].ended
    <3>1. \A k \in Tokens : [token[k] EXCEPT !.ending = e(k), !.ended = d(k)] \in TokenState
      <4> TAKE k \in Tokens
      <4>1. e(k) \in BOOLEAN /\ d(k) \in {"no", "revoked", "switched", "reset"}
        BY <1>0, TokenTyped
      <4> HIDE DEF e, d
      <4> QED BY <1>0, <4>1, TokenTyped, TokenSteps
    <3>2. \A k \in Tokens : Reset(c, k) \in TokenState
      <4>1. \A k \in Tokens : Reset(c, k) = [token[k] EXCEPT !.ending = e(k), !.ended = d(k)]
        BY DEF Reset
      <4> HIDE DEF e, d
      <4> QED BY <3>1, <4>1
    <3>3. \/ token' = [k \in Tokens |-> IF k \in OfPlatform THEN Reset(c, k) ELSE token[k]]
          \/ token' = token
      BY <1>5 DEF DropRows
    <3>4. token \in [Tokens -> TokenState]
      BY <1>0 DEF StoresTyped
    <3> QED BY <3>2, <3>3, <3>4
  <2>2. row' \in [Tokens -> [held : BOOLEAN, active : Nat]]
    <3>1. NoRow \in [held : BOOLEAN, active : Nat]
      BY DEF NoRow
    <3> QED BY <1>0, <1>5, <3>1 DEF DropRows, StoresTyped
  <2>3. StoresTyped'
    BY <1>0, <1>5, <2>1, <2>2 DEF DropRows, StoresTyped
  <2> QED BY <1>0, <1>5, <2>3, StepTyped DEF DropRows, Ends
<1> QED BY <1>1, <1>2, <1>3, <1>4, <1>5

\* The beginning of a request.
LEMMA BeginsTyped == ASSUME TypeInv, NEW c \in Calls, Begin(c) PROVE TypeInv'
<1>0. /\ now \in Nat /\ timeout \in Nat /\ StoresTyped
      /\ Running \subseteq Nodes
  BY StoresAre, TimeoutNat DEF TypeInv, Running
<1>1. ASSUME NEW n \in Nodes, NEW k \in Tokens, Login(c, n, k) PROVE TypeInv'
  <2>1. token' \in [Tokens -> TokenState]
    BY <1>0, <1>1, SignedTyped, TokenTyped DEF Login, Issue
  <2>2. StoresTyped'
    BY <1>0, <1>1, <2>1 DEF Login, StoresTyped, store
  <2>3. FirstStore \in {"hot", "row"}
    BY DEF FirstStore
  <2> QED BY <1>0, <1>1, <2>2, <2>3, FreshOK, BeginTyped DEF Login
<1>2. ASSUME NEW n \in Nodes, NEW k \in Tokens, Revoke(c, n, k) PROVE TypeInv'
  <2>1. token' = [token EXCEPT ![k] = [token[k] EXCEPT !.ending = TRUE]]
    BY <1>0, <1>2 DEF Revoke, StoresTyped
  <2>2. token' \in [Tokens -> TokenState]
    BY <1>0, <2>1, TokenTyped, TokenSteps
  <2>3. StoresTyped'
    BY <1>0, <1>2, <2>2 DEF Revoke, StoresTyped, store
  <2> QED BY <1>0, <1>2, <2>3, FreshOK, BeginTyped DEF Revoke
<1>3. ASSUME NEW n \in Nodes, NEW k \in Tokens, NEW kind \in {"access", "refresh"},
             Parse(c, n, k, kind)
      PROVE  TypeInv'
  <2>1. markedAt' \in [Nodes -> [Tokens -> Nat]]
    <3>1. marked[k] \in Nat /\ markedAt \in [Nodes -> [Tokens -> Nat]]
      BY <1>0 DEF StoresTyped
    <3>2. markedAt' = markedAt \/ markedAt' = [markedAt EXCEPT ![n][k] = marked[k]]
      BY <1>3 DEF Parse
    <3> QED BY <3>1, <3>2
  <2>2. StoresTyped'
    BY <1>0, <1>3, <2>1 DEF Parse, StoresTyped, store
  <2>3. token[k].ended \in {"no", "revoked", "switched", "reset"}
    BY <1>0, TokenTyped
  <2>4. CASE call' = call
    <3>1. begun' \in 0..MaxBegun
      BY <1>3 DEF Parse, Counted, TypeInv
    <3> QED BY <1>3, <2>2, <2>4, <3>1 DEF Parse, TypeInv, StoresTyped, Settings
  <2>5. CASE call' # call
    BY <1>0, <1>3, <2>2, <2>3, <2>5, FreshDeadOK, BeginTyped DEF Parse
  <2> QED BY <2>4, <2>5
<1>4. ASSUME NEW n \in Nodes, NEW t \in Tickets, Claim(c, n, t) PROVE TypeInv'
  <2> DEFINE old == IF now < ticket[t].countUntil THEN ticket[t].count ELSE 0
  <2>1. old \in Nat /\ ticket[t].kind \in {"login", "reset"}
    BY <1>0 DEF StoresTyped, TicketState
  <2>2. ticket' = [ticket EXCEPT ![t].count = old + 1, ![t].countUntil = now + TicketTTL]
        /\ Becomes(c, [IdleCall EXCEPT !.pc = "claim", !.kind = ticket[t].kind, !.node = n,
                                       !.tkt = t, !.claim = old + 1, !.since = now])
    BY <1>4 DEF Claim
  <2> HIDE DEF old
  <2>3. StoresTyped'
    <3>1. [ticket[t] EXCEPT !.count = old + 1, !.countUntil = now + TicketTTL]
            \in TicketState
      <4>1. old + 1 \in Nat /\ now + TicketTTL \in Nat /\ ticket[t] \in TicketState
        BY <1>0, <2>1 DEF StoresTyped
      <4> QED BY <4>1, TicketSteps
    <3>2. ticket' = [ticket EXCEPT ![t] = [ticket[t] EXCEPT !.count = old + 1,
                                                           !.countUntil = now + TicketTTL]]
      BY <1>0, <2>2 DEF StoresTyped
    <3>3. ticket' \in [Tickets -> TicketState]
      BY <1>0, <3>1, <3>2 DEF StoresTyped
    <3> QED BY <1>0, <1>4, <3>3 DEF Claim, StoresTyped, store
  <2>4. CallOK([IdleCall EXCEPT !.pc = "claim", !.kind = ticket[t].kind, !.node = n,
                                !.tkt = t, !.claim = old + 1, !.since = now])
    <3>1. old + 1 \in Nat
      BY <2>1
    <3> QED BY <1>0, <2>1, <3>1, ClaimOK
  <2> QED BY <1>4, <2>2, <2>3, <2>4, BeginTyped DEF Claim
<1> QED BY <1>1, <1>2, <1>3, <1>4 DEF Begin

LEMMA TypeInvariant == Spec => []TypeInv
<1>1. Init => TypeInv
  <2> SUFFICES ASSUME Init PROVE TypeInv
    OBVIOUS
  <2>1. /\ NoTokenState \in TokenState /\ NoHot \in [until : Nat, active : Nat]
        /\ NoIndex \in [until : Nat, tokens : SUBSET Tokens]
        /\ NoRow \in [held : BOOLEAN, active : Nat]
    BY DEF NoTokenState, TokenState, NoHot, NoIndex, NoRow
  <2>2. NoTicket \in TicketState
    BY DEF NoTicket, TicketState
  <2>3. IdleCall \in CallState
    BY IdleOK DEF CallOK
  <2>4. call \in [Calls -> CallState] /\ \A c \in Calls : CallOK(call[c])
    BY <2>3, IdleOK DEF Init
  <2>5. begun \in 0..MaxBegun /\ faults \in 0..MaxFaults
    BY DEF Init
  <2> QED BY <2>1, <2>2, <2>4, <2>5 DEF Init, TypeInv
<1>2. TypeInv /\ [Next]_vars => TypeInv'
  <2> SUFFICES ASSUME TypeInv, [Next]_vars PROVE TypeInv'
    OBVIOUS
  <2>0. StoresTyped /\ now \in Nat
    BY StoresAre DEF TypeInv
  <2>1. ASSUME NEW c \in Calls, Step(c) PROVE TypeInv'
    BY <2>1, SessionTyped, RevokeTyped, TicketTyped DEF Step
  <2>2. ASSUME NEW c \in Calls, Begin(c) PROVE TypeInv'
    BY <2>2, BeginsTyped
  <2>3. ASSUME NEW t \in Tickets, NEW kind \in {"login", "reset"}, CreateTicket(t, kind)
        PROVE  TypeInv'
    <3>1. ticket' \in [Tickets -> TicketState]
      <4>1. [ticket[t] EXCEPT !.made = TRUE, !.kind = kind, !.until = now + TicketTTL]
              \in TicketState
        <5>1. now + TicketTTL \in Nat /\ ticket[t] \in TicketState
          BY <2>0 DEF StoresTyped
        <5> QED BY <5>1, TicketSteps
      <4>2. ticket' = [ticket EXCEPT ![t] = [ticket[t] EXCEPT
                         !.made = TRUE, !.kind = kind, !.until = now + TicketTTL]]
        BY <2>0, <2>3 DEF CreateTicket, StoresTyped
      <4> QED BY <2>0, <4>1, <4>2 DEF StoresTyped
    <3>2. begun' \in 0..MaxBegun
      BY <2>3 DEF CreateTicket, Counted, TypeInv
    <3> QED BY <2>3, <3>1, <3>2 DEF CreateTicket, TypeInv, Settings, store
  <2>4. ASSUME NEW k \in Tokens, CleanupRow(k) PROVE TypeInv'
    <3>1. row' \in [Tokens -> [held : BOOLEAN, active : Nat]]
      BY <2>0, <2>4 DEF CleanupRow, StoresTyped, NoRow
    <3> QED BY <2>4, <3>1 DEF CleanupRow, TypeInv, Env, Settings
  <2>5. ASSUME NEW t \in Timeouts, ChangeTimeout(t) PROVE TypeInv'
    <3>1. faults' \in 0..MaxFaults
      BY <2>5, FaultsTyped DEF ChangeTimeout
    <3> QED BY <2>5, <3>1 DEF ChangeTimeout, TypeInv, store
  <2>6. ASSUME NEW n \in Nodes, Restart(n) PROVE TypeInv'
    <3>1. faults' \in 0..MaxFaults
      BY <2>6, FaultsTyped DEF Restart
    <3>2. marked' \in [Tokens -> Nat]
      <4>1. [k \in Tokens |-> 0] \in [Tokens -> Nat]
        OBVIOUS
      <4> QED BY <2>0, <2>6, <4>1 DEF Restart, StoresTyped
    <3>3. markedAt' \in [Nodes -> [Tokens -> Nat]]
      <4>1. [k \in Tokens |-> 0] \in [Tokens -> Nat]
        OBVIOUS
      <4> QED BY <2>0, <2>6, <4>1 DEF Restart, StoresTyped
    <3>4. ticket' \in [Tickets -> TicketState]
      <4>1. \A t \in Tickets : [ticket[t] EXCEPT !.until = 0, !.countUntil = 0] \in TicketState
        BY <2>0, TicketSteps DEF StoresTyped
      <4>2. [t \in Tickets |-> [ticket[t] EXCEPT !.until = 0, !.countUntil = 0]]
              \in [Tickets -> TicketState]
        BY <4>1
      <4> QED BY <2>0, <2>6, <4>2 DEF Restart, StoresTyped
    <3>5. call' \in [Calls -> CallState] /\ \A c \in Calls : CallOK(call'[c])
      BY <2>6, IdleOK DEF Restart, TypeInv, CallOK
    <3> QED BY <2>6, <3>1, <3>2, <3>3, <3>4, <3>5 DEF Restart, TypeInv, Env, Settings, store
  <2>7. CASE Tick
    <3> DEFINE e(k) == token[k].issued /\ (token[k].lapsed \/ token[k].used + timeout <= now' + Slack)
    <3>1. \A k \in Tokens : [token[k] EXCEPT !.lapsed = e(k)] \in TokenState
      <4> TAKE k \in Tokens
      <4>1. e(k) \in BOOLEAN
        BY <2>0, TokenTyped
      <4> HIDE DEF e
      <4> QED BY <2>0, <4>1, TokenTyped, TokenSteps
    <3>2. token' = [k \in Tokens |-> [token[k] EXCEPT !.lapsed = e(k)]]
      BY <2>7 DEF Tick
    <3>3. token' \in [Tokens -> TokenState]
      <4> HIDE DEF e
      <4> QED BY <3>1, <3>2
    <3>4. now' \in Nat
      BY <2>0, <2>7 DEF Tick
    <3> QED BY <2>7, <3>3, <3>4 DEF Tick, TypeInv, store
  <2>8. CASE UNCHANGED vars
    BY <2>8 DEF vars, TypeInv, store
  <2> QED BY <2>1, <2>2, <2>3, <2>4, <2>5, <2>6, <2>7, <2>8 DEF Next
<1> QED BY <1>1, <1>2, PTL DEF Spec

\* The variables always have their types, and a call that works on a token has one.
THEOREM TypeCorrect == Spec => []TypeOK
BY TypeInvariant, TypeInvImplies, PTL

-----------------------------------------------------------------------------
(* Tickets are honoured once. *)

Claiming(c, t) == call[c].pc \in {"claim", "consume"} /\ call[c].tkt = t

\* A call that has read the ticket, or will if it is not too late.
Pending(c, t) ==
    /\ call[c].tkt = t
    /\ \/ call[c].pc = "consume"
       \/ call[c].pc = "claim" /\ call[c].claim = 1 /\ now < ticket[t].until

\* The counter outlives the ticket, so that the first claim is the only first one
\* that can still read it.
TicketSafe(t) ==
    /\ ticket[t].count = 0 => ticket[t].honoured = 0 /\ \A c \in Calls : ~Claiming(c, t)
    /\ ~ticket[t].made => ticket[t].count = 0
    /\ ticket[t].until <= now + TicketTTL
    /\ ticket[t].count # 0 => ticket[t].until <= ticket[t].countUntil
    /\ \A c, d \in Calls : Pending(c, t) /\ Pending(d, t) => c = d
    /\ \A c \in Calls : Pending(c, t) => ticket[t].honoured = 0
    /\ ticket[t].honoured <= 1
    /\ ticket[t].honoured # 0 => ticket[t].until = 0

TicketInv == \A t \in Tickets : TicketSafe(t)

\* Steps that do not touch the tickets nor bring a call to one.
LEMMA TicketQuiet ==
    ASSUME TypeInv, TicketInv, ticket' = ticket, now' = now,
           \A c \in Calls : \/ call'[c].pc \notin {"claim", "consume"}
                            \/ call'[c] = call[c]
    PROVE  TicketInv'
<1> SUFFICES ASSUME NEW t \in Tickets PROVE TicketSafe(t)'
  BY DEF TicketInv
<1>1. \A c \in Calls : (Claiming(c, t)' => Claiming(c, t)) /\ (Pending(c, t)' => Pending(c, t))
  BY DEF Claiming, Pending
<1> QED BY <1>1 DEF TicketInv, TicketSafe

\* Steps of one call that lead to no claim.
LEMMA TicketOther ==
    ASSUME TypeInv, TicketInv, NEW c \in Calls, NEW b, Becomes(c, b),
           b.pc \notin {"claim", "consume"}, ticket' = ticket, now' = now
    PROVE  TicketInv'
<1>1. call \in [Calls -> CallState]
  BY DEF TypeInv
<1>2. \A d \in Calls : call'[d] = (IF d = c THEN b ELSE call[d])
  BY <1>1 DEF Becomes
<1> QED BY <1>2, TicketQuiet

LEMMA PcOf ==
    ASSUME TypeInv, NEW c \in Calls, NEW pc
    PROVE  [call[c] EXCEPT !.pc = pc].pc = pc
BY DEF TypeInv, CallState

LEMMA TicketSteps1 ==
    ASSUME TypeInv, TicketInv, NEW c \in Calls,
           \/ SetHot(c) \/ AddRead(c) \/ AddWrite(c) \/ UndoHot(c) \/ SetRow(c)
           \/ GetHot(c) \/ RefreshHot(c) \/ GetRow(c) \/ TouchRow(c) \/ RefreshUser(c) \/ Return(c)
           \/ Switch(c) \/ Mark(c) \/ Find(c) \/ DropHot(c) \/ DropRead(c) \/ DropWrite(c)
           \/ DropRow(c) \/ ReadIndex(c) \/ NextToken(c) \/ DropRows(c)
    PROVE  TicketInv'
<1>0. IdleCall.pc = "idle" /\ call[c] \in CallState
  BY CallIsOK DEF IdleCall
<1>1. ticket' = ticket /\ now' = now
  BY DEF SetHot, AddRead, AddWrite, UndoHot, SetRow, GetHot, RefreshHot, GetRow, TouchRow,
         RefreshUser, Return, Switch, Mark, Find, DropHot, DropRead, DropWrite, DropRow,
         ReadIndex, NextToken, DropRows, Env, Settings
<1>2. ASSUME NEW pc \in {"addRead", "undo", "row", "dropHot", "no", "set", "touch", "dropRow", "ok",
                         "user", "find", "dropRead", "dropRows"},
             Goto(c, pc)
      PROVE  TicketInv'
  BY <1>1, <1>2, PcOf, TicketOther DEF Goto
<1>3. CASE Ends(c)
  BY <1>0, <1>1, <1>3, TicketOther DEF Ends
<1>4. CASE SetHot(c) \/ UndoHot(c) \/ SetRow(c) \/ GetHot(c) \/ RefreshHot(c)
  BY <1>2, <1>3, <1>4 DEF SetHot, UndoHot, SetRow, GetHot, RefreshHot
<1>5. CASE GetRow(c) \/ TouchRow(c) \/ Return(c) \/ Mark(c) \/ Find(c) \/ DropHot(c) \/ DropRows(c)
  BY <1>2, <1>3, <1>5 DEF GetRow, TouchRow, Return, Mark, Find, DropHot, DropRows
<1>6. CASE AddRead(c) \/ AddWrite(c)
  <2>1. [call[c] EXCEPT !.pc = "addWrite", !.idx = IndexTokens(tenant[call[c].token])].pc = "addWrite"
    BY <1>0 DEF CallState
  <2> QED BY <1>1, <1>2, <1>6, <2>1, TicketOther DEF AddRead, AddWrite
<1>7. CASE RefreshUser(c) \/ Switch(c)
  <2>1. \A kind : [call[c] EXCEPT !.pc = "mark", !.kind = kind].pc = "mark"
    BY <1>0 DEF CallState
  <2> QED BY <1>1, <1>2, <1>3, <1>7, <2>1, TicketOther DEF RefreshUser, Switch
<1>8. CASE DropRead(c) \/ ReadIndex(c)
  <2>1. /\ [call[c] EXCEPT !.pc = "dropWrite", !.idx = IndexTokens(tenant[call[c].token])].pc = "dropWrite"
        /\ [call[c] EXCEPT !.pc = "todo", !.todo = IndexTokens(Platform)].pc = "todo"
    BY <1>0 DEF CallState
  <2> QED BY <1>1, <1>3, <1>8, <2>1, TicketOther DEF DropRead, ReadIndex
<1>9. CASE DropWrite(c)
  <2>1. AfterDrop(c).pc \in {"dropRow", "todo", "no", "idle"}
    BY <1>0 DEF AfterDrop, CallState
  <2> QED BY <1>1, <1>3, <1>9, <2>1, TicketOther DEF DropWrite
<1>10. CASE DropRow(c)
  <2>1. ASSUME NEW j PROVE [call[c] EXCEPT !.pc = FirstStore, !.kind = "login", !.token = j].pc \in {"hot", "row"}
    BY <1>0 DEF FirstStore, CallState
  <2> QED BY <1>1, <1>2, <1>3, <1>10, <2>1, TicketOther DEF DropRow
<1>11. CASE NextToken(c)
  <2>1. ASSUME NEW k PROVE [call[c] EXCEPT !.pc = "dropHot", !.token = k, !.todo = @ \ {k}].pc = "dropHot"
    BY <1>0 DEF CallState
  <2> QED BY <1>1, <1>2, <1>11, <2>1, TicketOther DEF NextToken
<1> QED BY <1>4, <1>5, <1>6, <1>7, <1>8, <1>9, <1>10, <1>11

LEMMA TicketNumbers ==
    ASSUME TypeInv, NEW t \in Tickets
    PROVE  /\ ticket[t].until \in Nat /\ ticket[t].count \in Nat
           /\ ticket[t].countUntil \in Nat /\ ticket[t].honoured \in Nat
           /\ ticket[t].made \in BOOLEAN /\ now \in Nat
BY DEF TypeInv, TicketState

LEMMA ReadKeeps == ASSUME TypeInv, TicketInv, NEW c \in Calls, ReadTicket(c) PROVE TicketInv'
<1>0. /\ call \in [Calls -> CallState] /\ ticket' = ticket /\ now' = now /\ IdleCall.pc = "idle"
      /\ call[c].pc = "claim"
  BY DEF TypeInv, ReadTicket, Env, Settings, IdleCall
<1>1. CASE Ends(c)
  BY <1>0, <1>1, TicketOther DEF Ends
<1>2. CASE FirstClaim(c) /\ now < ticket[call[c].tkt].until /\ Goto(c, "consume")
  <2>1. \A d \in Calls : d # c => call'[d] = call[d]
    BY <1>0, <1>2 DEF Goto, Becomes
  <2>2. call'[c].pc = "consume" /\ call'[c].tkt = call[c].tkt
    BY <1>0, <1>2 DEF Goto, Becomes, CallState
  <2> SUFFICES ASSUME NEW t \in Tickets PROVE TicketSafe(t)'
    BY DEF TicketInv
  <2>3. \A d \in Calls : Claiming(d, t)' => Claiming(d, t)
    BY <1>0, <2>1, <2>2 DEF Claiming
  <2>4. \A d \in Calls : Pending(d, t)' => Pending(d, t)
    BY <1>0, <1>2, <2>1, <2>2 DEF Pending, FirstClaim
  <2> QED BY <1>0, <2>3, <2>4 DEF TicketInv, TicketSafe
<1> QED BY <1>1, <1>2 DEF ReadTicket

LEMMA ConsumeKeeps == ASSUME TypeInv, TicketInv, NEW c \in Calls, Consume(c) PROVE TicketInv'
<1>0. /\ call \in [Calls -> CallState] /\ now' = now /\ IdleCall.pc = "idle"
      /\ call[c].pc = "consume" /\ ticket \in [Tickets -> TicketState]
  BY DEF TypeInv, Consume, Env, Settings, IdleCall
<1>1. \A d \in Calls : d # c => call'[d] = call[d]
  BY <1>0 DEF Consume, Ends, Becomes
<1>2. call'[c].pc \notin {"claim", "consume"}
  <2>1. ASSUME NEW k
        PROVE  [call[c] EXCEPT !.pc = FirstStore, !.token = k, !.ttl = timeout].pc \in {"hot", "row"}
    BY <1>0 DEF FirstStore, CallState
  <2>2. ASSUME NEW due
        PROVE  [call[c] EXCEPT !.pc = IF cluster THEN "read" ELSE "dropRows",
                               !.ttl = timeout, !.due = due].pc \in {"read", "dropRows"}
    BY <1>0 DEF CallState
  <2>3. \/ Becomes(c, IdleCall)
        \/ \E k : Becomes(c, [call[c] EXCEPT !.pc = FirstStore, !.token = k, !.ttl = timeout])
        \/ \E due : Becomes(c, [call[c] EXCEPT !.pc = IF cluster THEN "read" ELSE "dropRows",
                                               !.ttl = timeout, !.due = due])
    BY DEF Consume, Ends
  <2>4. ASSUME NEW b, Becomes(c, b) PROVE call'[c] = b
    BY <1>0, <2>4 DEF Becomes
  <2> QED BY <1>0, <2>1, <2>2, <2>3, <2>4
<1>3. CASE ticket' = ticket
  BY <1>0, <1>1, <1>2, <1>3, TicketQuiet
<1>4. CASE ticket' = [ticket EXCEPT ![call[c].tkt].until = 0, ![call[c].tkt].honoured = @ + 1]
  <2> SUFFICES ASSUME NEW t \in Tickets PROVE TicketSafe(t)'
    BY DEF TicketInv
  <2>1. CASE t # call[c].tkt
    <3>1. ticket'[t] = ticket[t]
      BY <1>0, <1>4, <2>1
    <3>2. \A d \in Calls : (Claiming(d, t)' => Claiming(d, t)) /\ (Pending(d, t)' => Pending(d, t))
      BY <1>0, <1>1, <1>2, <3>1 DEF Claiming, Pending
    <3> QED BY <1>0, <3>1, <3>2 DEF TicketInv, TicketSafe
  <2>2. CASE t = call[c].tkt
    <3>1. /\ ticket'[t].until = 0 /\ ticket'[t].honoured = ticket[t].honoured + 1
          /\ ticket'[t].count = ticket[t].count /\ ticket'[t].made = ticket[t].made
          /\ ticket'[t].countUntil = ticket[t].countUntil
      BY <1>0, <1>4, <2>2 DEF TicketState
    <3>2. Pending(c, t) /\ Claiming(c, t)
      BY <1>0, <2>2 DEF Pending, Claiming
    <3>3. \A d \in Calls : ~Pending(d, t)'
      <4> TAKE d \in Calls
      <4>1. CASE d = c
        BY <1>2, <4>1 DEF Pending
      <4>2. CASE d # c
        <5>1. ~Pending(d, t)
          BY <3>2, <4>2 DEF TicketInv, TicketSafe
        <5>2. call'[d] = call[d] /\ ~(now < 0) /\ now' = now
          BY <1>0, <1>1, <4>2, TicketNumbers
        <5> QED BY <3>1, <5>1, <5>2 DEF Pending
      <4> QED BY <4>1, <4>2
    <3>4. ticket[t].honoured = 0 /\ ticket[t].count # 0
      BY <3>2 DEF TicketInv, TicketSafe
    <3> QED BY <1>0, <3>1, <3>3, <3>4, TicketNumbers DEF TicketInv, TicketSafe
  <2> QED BY <2>1, <2>2
<1> QED BY <1>3, <1>4 DEF Consume

LEMMA ClaimKeeps ==
    ASSUME TypeInv, TicketInv, NEW c \in Calls, NEW n \in Nodes, NEW tk \in Tickets, Claim(c, n, tk)
    PROVE  TicketInv'
<1> DEFINE old == IF now < ticket[tk].countUntil THEN ticket[tk].count ELSE 0
<1>0. /\ call \in [Calls -> CallState] /\ now' = now /\ call[c].pc = "idle"
      /\ ticket \in [Tickets -> TicketState] /\ ticket[tk].made
  BY DEF TypeInv, Claim, Settings
<1>1. \A d \in Calls : d # c => call'[d] = call[d]
  BY <1>0 DEF Claim, Becomes
<1>2. call'[c].tkt = tk /\ call'[c].pc = "claim" /\ call'[c].claim = old + 1
  BY <1>0 DEF Claim, Becomes, IdleCall
<1>3. ticket' = [ticket EXCEPT ![tk].count = old + 1, ![tk].countUntil = now + TicketTTL]
  BY DEF Claim
<1> HIDE DEF old
<1> SUFFICES ASSUME NEW t \in Tickets PROVE TicketSafe(t)'
  BY DEF TicketInv
<1>4. TicketSafe(t)
  BY DEF TicketInv
<1>5. CASE t # tk
  <2>1. ticket'[t] = ticket[t]
    BY <1>0, <1>3, <1>5
  <2>2. \A d \in Calls : (Claiming(d, t)' => Claiming(d, t)) /\ (Pending(d, t)' => Pending(d, t))
    BY <1>0, <1>1, <1>2, <1>5, <2>1 DEF Claiming, Pending
  <2> QED BY <1>0, <1>4, <2>1, <2>2 DEF TicketSafe
<1>6. CASE t = tk
  <2>1. /\ ticket'[t].until = ticket[t].until /\ ticket'[t].honoured = ticket[t].honoured
        /\ ticket'[t].count = old + 1 /\ ticket'[t].made = ticket[t].made
        /\ ticket'[t].countUntil = now + TicketTTL
    BY <1>0, <1>3, <1>6 DEF TicketState
  <2>2. \A d \in Calls : d # c => (Pending(d, t)' <=> Pending(d, t))
    BY <1>0, <1>1, <2>1 DEF Pending
  <2>3. old \in Nat
    BY <1>6, TicketNumbers DEF old
  <2>4. Pending(c, t)' => ticket[t].count = 0
    <3>1. Pending(c, t)' => old = 0 /\ now < ticket[t].until
      BY <1>0, <1>2, <1>6, <2>1, <2>3 DEF Pending
    <3> QED BY <1>4, <1>6, <3>1, TicketNumbers DEF TicketSafe, old
  <2>5. ticket[t].count = 0 => ticket[t].honoured = 0 /\ \A d \in Calls : ~Pending(d, t)
    BY <1>4 DEF TicketSafe, Pending, Claiming
  <2>6. \A d, e \in Calls : Pending(d, t)' /\ Pending(e, t)' => d = e
    BY <1>4, <2>2, <2>4, <2>5 DEF TicketSafe
  <2>7. \A d \in Calls : Pending(d, t)' => ticket[t].honoured = 0
    BY <1>4, <2>2, <2>4, <2>5 DEF TicketSafe
  <2>8. old + 1 # 0
    BY <2>3
  <2> QED BY <1>0, <1>4, <1>6, <2>1, <2>6, <2>7, <2>8 DEF TicketSafe
<1> QED BY <1>5, <1>6

LEMMA TicketInvariant == Spec => []TicketInv
<1>1. Init => TicketInv
  <2> SUFFICES ASSUME Init, NEW t \in Tickets PROVE TicketSafe(t)
    BY DEF TicketInv
  <2>1. \A c \in Calls : call[c].pc = "idle"
    BY DEF Init, IdleCall
  <2>2. /\ ticket[t].count = 0 /\ ticket[t].honoured = 0 /\ ticket[t].until = 0 /\ now = 0
    BY DEF Init, NoTicket
  <2> QED BY <2>1, <2>2 DEF TicketSafe, Claiming, Pending
<1>2. TypeInv /\ TicketInv /\ [Next]_vars => TicketInv'
  <2> SUFFICES ASSUME TypeInv, TicketInv, [Next]_vars PROVE TicketInv'
    OBVIOUS
  <2>0. /\ call \in [Calls -> CallState] /\ ticket \in [Tickets -> TicketState]
        /\ IdleCall.pc = "idle" /\ now \in Nat
    BY DEF TypeInv, IdleCall
  <2>1. ASSUME NEW c \in Calls, Step(c) PROVE TicketInv'
    BY <2>1, TicketSteps1, ReadKeeps, ConsumeKeeps DEF Step
  <2>2. ASSUME NEW c \in Calls, NEW n \in Nodes, NEW k \in Tokens,
               \/ Login(c, n, k) \/ Revoke(c, n, k)
               \/ \E kind \in {"access", "refresh"} : Parse(c, n, k, kind)
        PROVE  TicketInv'
    <3>1. ticket' = ticket /\ now' = now
      BY <2>2 DEF Login, Revoke, Parse, Settings
    <3>2. CASE call' = call
      BY <3>1, <3>2, TicketQuiet
    <3>3. CASE Login(c, n, k)
      <4>1. [IdleCall EXCEPT !.pc = FirstStore, !.kind = "login", !.node = n,
                             !.token = k, !.ttl = timeout, !.since = now].pc \in {"hot", "row"}
        BY DEF IdleCall, FirstStore
      <4> QED BY <3>1, <3>3, <4>1, TicketOther DEF Login
    <3>4. CASE Revoke(c, n, k)
      <4>1. [IdleCall EXCEPT !.pc = "mark", !.kind = "revoke", !.node = n,
                             !.token = k, !.ttl = timeout, !.since = now].pc = "mark"
        BY DEF IdleCall
      <4> QED BY <3>1, <3>4, <4>1, TicketOther DEF Revoke
    <3>5. ASSUME NEW kind \in {"access", "refresh"}, Parse(c, n, k, kind), call' # call
          PROVE  TicketInv'
      <4>1. [IdleCall EXCEPT !.pc = "get", !.kind = kind, !.node = n, !.token = k,
                             !.ttl = timeout, !.since = now, !.dead = token[k].ended].pc = "get"
        BY DEF IdleCall
      <4> QED BY <3>1, <3>5, <4>1, TicketOther DEF Parse
    <3> QED BY <2>2, <3>2, <3>3, <3>4, <3>5
  <2>3. ASSUME NEW c \in Calls, NEW n \in Nodes, NEW t \in Tickets, Claim(c, n, t) PROVE TicketInv'
    BY <2>3, ClaimKeeps
  <2>4. ASSUME NEW tk \in Tickets, NEW kind \in {"login", "reset"}, CreateTicket(tk, kind)
        PROVE  TicketInv'
    <3> SUFFICES ASSUME NEW t \in Tickets PROVE TicketSafe(t)'
      BY DEF TicketInv
    <3>1. call' = call /\ now' = now /\ ~ticket[tk].made
      BY <2>4 DEF CreateTicket, Settings
    <3>2. CASE t # tk
      <4>1. ticket'[t] = ticket[t]
        BY <2>0, <2>4, <3>2 DEF CreateTicket
      <4> QED BY <3>1, <4>1 DEF TicketInv, TicketSafe, Claiming, Pending
    <3>3. CASE t = tk
      <4>1. /\ ticket'[t].made /\ ticket'[t].until = now + TicketTTL
            /\ ticket'[t].count = ticket[t].count /\ ticket'[t].honoured = ticket[t].honoured
        BY <2>0, <2>4, <3>3 DEF CreateTicket, TicketState
      <4>2. ticket[t].count = 0 /\ ticket[t].honoured = 0 /\ \A c \in Calls : ~Claiming(c, t)
        BY <3>1, <3>3 DEF TicketInv, TicketSafe
      <4>3. \A c \in Calls : ~Claiming(c, t)' /\ ~Pending(c, t)'
        BY <3>1, <4>2 DEF Claiming, Pending
      <4> QED BY <2>0, <3>1, <4>1, <4>2, <4>3 DEF TicketSafe
    <3> QED BY <3>2, <3>3
  <2>5. CASE (\E k \in Tokens : CleanupRow(k)) \/ (\E t \in Timeouts : ChangeTimeout(t))
    <3>1. ticket' = ticket /\ now' = now /\ call' = call
      BY <2>5 DEF CleanupRow, ChangeTimeout, Env, Settings
    <3> QED BY <3>1, TicketQuiet
  <2>6. ASSUME NEW n \in Nodes, Restart(n) PROVE TicketInv'
    <3>1. now' = now /\ \A c \in Calls : call'[c] = IdleCall \/ call'[c] = call[c]
      BY <2>6 DEF Restart, Env, Settings
    <3>2. CASE cluster
      <4>1. ticket' = ticket
        BY <2>6, <3>2 DEF Restart
      <4> QED BY <2>0, <3>1, <4>1, TicketQuiet
    <3>3. CASE ~cluster
      <4> SUFFICES ASSUME NEW t \in Tickets PROVE TicketSafe(t)'
        BY DEF TicketInv
      <4>1. /\ ticket'[t].until = 0 /\ ticket'[t].countUntil = 0
            /\ ticket'[t].count = ticket[t].count /\ ticket'[t].made = ticket[t].made
            /\ ticket'[t].honoured = ticket[t].honoured
        <5>1. ticket'[t] = [ticket[t] EXCEPT !.until = 0, !.countUntil = 0]
          BY <2>6, <3>3 DEF Restart
        <5>2. ticket[t] \in TicketState
          BY <2>0
        <5> QED BY <5>1, <5>2 DEF TicketState
      <4>2. \A c \in Calls : (Claiming(c, t)' => Claiming(c, t)) /\ (Pending(c, t)' => Pending(c, t))
        BY <2>0, <3>1, <4>1 DEF Claiming, Pending
      <4> QED BY <2>0, <3>1, <4>1, <4>2 DEF TicketInv, TicketSafe
    <3> QED BY <3>2, <3>3
  <2>7. CASE Tick
    <3> SUFFICES ASSUME NEW t \in Tickets PROVE TicketSafe(t)'
      BY DEF TicketInv
    <3>1. ticket' = ticket /\ call' = call /\ now' = now + 1
      BY <2>7 DEF Tick
    <3>2. ticket[t].until \in Nat
      BY TicketNumbers
    <3>3. \A c \in Calls : (Claiming(c, t)' => Claiming(c, t)) /\ (Pending(c, t)' => Pending(c, t))
      BY <2>0, <3>1, <3>2 DEF Claiming, Pending
    <3> QED BY <2>0, <3>1, <3>2, <3>3 DEF TicketInv, TicketSafe
  <2>8. CASE UNCHANGED vars
    BY <2>8, TicketQuiet DEF vars
  <2> QED BY <2>1, <2>2, <2>3, <2>4, <2>5, <2>6, <2>7, <2>8 DEF Next, Begin
<1> QED BY <1>1, <1>2, TypeInvariant, PTL DEF Spec

\* A pre-login or password-reset token is honoured once, whoever presents it again
\* and whatever fails or restarts: every later claim finds the counter of the first,
\* or the token gone with it.
THEOREM TicketOnceThm == Spec => []TicketOnce
<1>1. TicketInv => TicketOnce
  BY DEF TicketInv, TicketSafe, TicketOnce
<1> QED BY <1>1, TicketInvariant, PTL

-----------------------------------------------------------------------------
(* A revoked session stays out. *)

\* A refresh token lives at least as long as a session may idle, and as an access
\* token that a request signs late.
TimesFit == AccessTTL + CallTime <= RefreshTTL /\ \A t \in Timeouts : t <= RefreshTTL

\* What a call on its way, with locals b, may rely on.
CallSafe(b) ==
    /\ b.pc # "idle" => b.since <= now /\ now <= b.since + CallTime
    /\ b.ttl <= RefreshTTL
    /\ b.pc \in {"hot", "addRead", "addWrite", "undo", "row"} => b.kind = "login"
    /\ b.pc \in {"get", "set", "touch", "user", "ok", "no"} => b.kind \in {"access", "refresh"}
    /\ b.pc = "user" => b.kind = "refresh"
    /\ b.pc \in {"mark", "find"} => b.kind \in {"revoke", "switch"}
    /\ b.pc \in {"read", "todo", "dropRows"} => b.kind = "reset"
    /\ b.kind = "login" /\ b.token \in Tokens => token[b.token].issued
    /\ b.kind \in {"access", "refresh", "revoke", "switch"} =>
         b.token \in Tokens /\ Delivered(b.token)
    /\ b.kind = "switch" => token[b.token].switch
    /\ b.kind \in {"access", "refresh"} /\ b.dead = "revoked" =>
         /\ token[b.token].ended = "revoked"
         /\ token[b.token].switch \/ (~cluster /\ b.pc \in {"get", "no"})
    /\ b.kind = "refresh" /\ b.pc \in {"get", "set", "touch", "user"} =>
         \/ marked[b.token] = 0 \/ token[b.token].switch
         \/ marked[b.token] >= b.since + CallTime + AccessTTL
    /\ cluster /\ b.kind = "revoke"
         /\ b.pc \in {"find", "dropHot", "dropRead", "dropWrite", "dropRow"} => marked[b.token] # 0

\* The marker of a session outlives its tokens; on a single node its row is gone.
TokenSafe(k) ==
    /\ marked[k] # 0 => token[k].issued
    /\ token[k].ended = "revoked" =>
         /\ Delivered(k)
         /\ cluster => marked[k] # 0
         /\ ~cluster => ~row[k].held
    /\ token[k].issued => /\ token[k].access <= now + AccessTTL
                          /\ token[k].refresh <= now + RefreshTTL
    /\ \/ marked[k] = 0
       \/ token[k].switch
       \/ (marked[k] >= token[k].access /\ marked[k] >= token[k].refresh)

RevokeInv == (\A c \in Calls : CallSafe(call[c])) /\ \A k \in Tokens : TokenSafe(k)

\* A step keeps what matters of a token.
KeepsToken(k) ==
    /\ token'[k].issued = token[k].issued /\ token'[k].access = token[k].access
    /\ token'[k].refresh = token[k].refresh /\ token'[k].switch = token[k].switch
    /\ (token'[k].ended = "revoked") <=> (token[k].ended = "revoked")

LEMMA CallNumbers ==
    ASSUME TypeInv, NEW c \in Calls
    PROVE  /\ call \in [Calls -> CallState] /\ call[c] \in CallState
           /\ call[c].since \in Nat /\ call[c].ttl \in Nat /\ now \in Nat
           /\ call[c].token \in Tokens \cup {NoToken}
BY DEF TypeInv, CallState

LEMMA IdleSafe == CallSafe(IdleCall) /\ CallSafe(IdleCall)'
BY DEF CallSafe, IdleCall

\* Without a new login, what has been delivered stays so.
LEMMA DeliveredStays ==
    ASSUME NEW k \in Tokens, Delivered(k), token'[k].issued,
           \A d \in Calls : call'[d].kind = "login" /\ call'[d].token = k =>
                            call[d].kind = "login" /\ call[d].token = k
    PROVE  Delivered(k)'
BY DEF Delivered

\* A step that issues and marks nothing.
LEMMA RevokeQuiet ==
    ASSUME TypeInv, RevokeInv, NEW c \in Calls, NEW b, Becomes(c, b), CallSafe(b),
           b.kind = "login" /\ b.token \in Tokens =>
             call[c].kind = "login" /\ call[c].token = b.token,
           \A k \in Tokens : KeepsToken(k),
           \A k \in Tokens : row'[k].held => row[k].held \/ token[k].ended # "revoked",
           UNCHANGED <<now, cluster, marked>>
    PROVE  RevokeInv'
<1>1. \A d \in Calls : call'[d] = (IF d = c THEN b ELSE call[d])
  BY CallNumbers DEF Becomes
<1>2. ASSUME NEW k \in Tokens, Delivered(k) PROVE Delivered(k)'
  <2>1. token'[k].issued
    BY <1>2 DEF Delivered, KeepsToken
  <2> QED BY <1>1, <1>2, <2>1, DeliveredStays
<1>3. ASSUME NEW x, CallSafe(x) PROVE CallSafe(x)'
  <2>1. CASE x.token \in Tokens
    BY <1>2, <1>3, <2>1 DEF CallSafe, KeepsToken
  <2>2. CASE x.token \notin Tokens
    BY <1>3, <2>2 DEF CallSafe
  <2> QED BY <2>1, <2>2
<1>4. \A d \in Calls : CallSafe(call[d])'
  <2> TAKE d \in Calls
  <2>1. CallSafe(call'[d])
    BY <1>1 DEF RevokeInv
  <2> QED BY <1>3, <2>1 DEF CallSafe, Delivered
<1>5. ASSUME NEW k \in Tokens PROVE TokenSafe(k)'
  BY <1>2 DEF RevokeInv, TokenSafe, KeepsToken
<1> QED BY <1>4, <1>5 DEF RevokeInv

\* A step that only moves a call on.
LEMMA RevokeGoto ==
    ASSUME TypeInv, RevokeInv, NEW c \in Calls, NEW pc, Goto(c, pc),
           CallSafe([call[c] EXCEPT !.pc = pc]),
           \A k \in Tokens : KeepsToken(k),
           \A k \in Tokens : row'[k].held => row[k].held \/ token[k].ended # "revoked",
           UNCHANGED <<now, cluster, marked>>
    PROVE  RevokeInv'
<1>1. /\ [call[c] EXCEPT !.pc = pc].kind = call[c].kind
      /\ [call[c] EXCEPT !.pc = pc].token = call[c].token
  BY CallNumbers DEF CallState
<1> QED BY <1>1, RevokeQuiet DEF Goto

LEMMA RevokeEnds ==
    ASSUME TypeInv, RevokeInv, NEW c \in Calls, Ends(c),
           \A k \in Tokens : KeepsToken(k),
           \A k \in Tokens : row'[k].held => row[k].held \/ token[k].ended # "revoked",
           UNCHANGED <<now, cluster, marked>>
    PROVE  RevokeInv'
<1>1. IdleCall.token \notin Tokens
  BY DEF IdleCall
<1> QED BY <1>1, IdleSafe, RevokeQuiet DEF Ends

\* What a move needs: the other locals stay.
LEMMA GotoSafe ==
    ASSUME TypeInv, RevokeInv, NEW c \in Calls, NEW pc, call[c].pc # "idle",
           pc \in {"hot", "addRead", "addWrite", "undo", "row"} => call[c].kind = "login",
           pc \in {"get", "set", "touch", "user", "ok", "no"} => call[c].kind \in {"access", "refresh"},
           pc = "user" => call[c].kind = "refresh",
           pc \in {"mark", "find"} => call[c].kind \in {"revoke", "switch"},
           pc \in {"read", "todo", "dropRows"} => call[c].kind = "reset",
           call[c].kind \in {"access", "refresh"} /\ call[c].dead = "revoked"
             /\ ~token[call[c].token].switch => pc = "no" /\ ~cluster,
           pc \in {"get", "set", "touch", "user"} => call[c].pc \in {"get", "set", "touch", "user"},
           cluster /\ pc \in {"find", "dropHot", "dropRead", "dropWrite", "dropRow"} =>
             \/ call[c].kind # "revoke"
             \/ call[c].pc \in {"find", "dropHot", "dropRead", "dropWrite", "dropRow"}
    PROVE  CallSafe([call[c] EXCEPT !.pc = pc])
<1> DEFINE b == [call[c] EXCEPT !.pc = pc]
<1>1. /\ b.pc = pc /\ b.kind = call[c].kind /\ b.token = call[c].token /\ b.dead = call[c].dead
      /\ b.since = call[c].since /\ b.ttl = call[c].ttl
  BY CallNumbers DEF CallState
<1>2. CallSafe(call[c])
  BY DEF RevokeInv
<1> HIDE DEF b
<1>3. CallSafe(b)
  BY <1>1, <1>2 DEF CallSafe
<1> QED BY <1>3 DEF b

\* Session creation, and the lookup of a session.
LEMMA RevokeSession ==
    ASSUME TypeInv, RevokeInv, NEW c \in Calls,
           \/ SetHot(c) \/ AddRead(c) \/ AddWrite(c) \/ UndoHot(c) \/ SetRow(c)
           \/ GetHot(c) \/ RefreshHot(c) \/ GetRow(c) \/ TouchRow(c) \/ Return(c)
    PROVE  RevokeInv'
<1>0. /\ call[c] \in CallState /\ CallSafe(call[c]) /\ UNCHANGED <<now, cluster, marked>>
      /\ (call[c].token \in Tokens => TokenSafe(call[c].token)) /\ StoresTyped
  BY CallNumbers, StoresAre DEF RevokeInv, SetHot, AddRead, AddWrite, UndoHot, SetRow, GetHot, RefreshHot,
     GetRow, TouchRow, Return, Env, Settings
<1>1. CASE token' = token /\ row' = row
  <2>0. (\A k \in Tokens : KeepsToken(k))
        /\ \A k \in Tokens : row'[k].held => row[k].held \/ token[k].ended # "revoked"
    BY <1>1 DEF KeepsToken
  <2>1. CASE Ends(c)
    BY <1>0, <2>0, <2>1, RevokeEnds
  <2>2. CASE SetHot(c) /\ Goto(c, "addRead")
    BY <1>0, <2>0, <2>2, GotoSafe, RevokeGoto DEF SetHot, CallSafe
  <2>3. CASE AddRead(c)
    <3>1. CASE Goto(c, "undo")
      BY <1>0, <2>0, <2>3, <3>1, GotoSafe, RevokeGoto DEF AddRead, CallSafe
    <3>2. CASE Becomes(c, [call[c] EXCEPT !.pc = "addWrite", !.idx = IndexTokens(tenant[call[c].token])])
      <4> DEFINE b == [call[c] EXCEPT !.pc = "addWrite", !.idx = IndexTokens(tenant[call[c].token])]
      <4>1. /\ b.pc = "addWrite" /\ b.kind = call[c].kind /\ b.token = call[c].token
            /\ b.since = call[c].since /\ b.ttl = call[c].ttl /\ b.dead = call[c].dead
        BY <1>0 DEF CallState
      <4> HIDE DEF b
      <4>2. CallSafe(b)
        BY <1>0, <2>3, <4>1 DEF CallSafe, AddRead
      <4> QED BY <1>0, <2>0, <3>2, <4>1, <4>2, RevokeQuiet DEF b
    <3> QED BY <2>3, <3>1, <3>2 DEF AddRead
  <2>4. CASE AddWrite(c) /\ \E pc \in {"row", "undo"} : Goto(c, pc)
    BY <1>0, <2>0, <2>4, GotoSafe, RevokeGoto DEF AddWrite, CallSafe
  <2>5. CASE SetRow(c) /\ Goto(c, "dropHot")
    BY <1>0, <2>0, <2>5, GotoSafe, RevokeGoto DEF SetRow, CallSafe
  <2>6. CASE GetHot(c) /\ \E pc \in {"no", "dropHot", "set"} : Goto(c, pc)
    BY <1>0, <2>0, <2>6, GotoSafe, RevokeGoto DEF GetHot, CallSafe
  <2>7. CASE RefreshHot(c) /\ Goto(c, "touch")
    BY <1>0, <2>0, <2>7, GotoSafe, RevokeGoto DEF RefreshHot, CallSafe
  <2>8. CASE GetRow(c) /\ Goto(c, "no")
    BY <1>0, <2>0, <2>8, GotoSafe, RevokeGoto DEF GetRow, CallSafe
  <2>9. CASE GetRow(c) /\ row[call[c].token].held /\ \E pc \in {"dropRow", "touch"} : Goto(c, pc)
    <3>1. call[c].kind \in {"access", "refresh"} /\ call[c].dead = "revoked"
            => token[call[c].token].switch
      BY <1>0, <2>9 DEF GetRow, CallSafe, TokenSafe
    <3> QED BY <1>0, <2>0, <2>9, <3>1, GotoSafe, RevokeGoto DEF GetRow, CallSafe
  <2>10. CASE TouchRow(c) /\ \E pc \in {"ok", "user"} : Goto(c, pc) /\ (pc = "user" => call[c].kind # "access")
    BY <1>0, <2>0, <2>10, GotoSafe, RevokeGoto DEF TouchRow, CallSafe
  <2> QED
    BY <1>0, <2>1, <2>2, <2>3, <2>4, <2>5, <2>6, <2>7, <2>8, <2>9, <2>10
       DEF SetHot, AddWrite, UndoHot, SetRow, GetHot, RefreshHot, GetRow, TouchRow, Return
<1>2. CASE SetRow(c) /\ ~(token' = token /\ row' = row)
  <2>1. /\ Ends(c) /\ call[c].token \in Tokens /\ ~Delivered(call[c].token)
        /\ token' = [token EXCEPT ![call[c].token].stored = TRUE, ![call[c].token].used = call[c].since]
        /\ row' = [row EXCEPT ![call[c].token] = [held |-> TRUE, active |-> now]]
    <3>1. call[c].token \in Tokens
      BY <1>0, <1>2, CallIsOK DEF SetRow, CallOK, Unplaced
    <3>2. call[c].kind = "login"
      BY <1>0, <1>2 DEF SetRow, CallSafe
    <3>3. ~Delivered(call[c].token)
      BY <3>2 DEF Delivered
    <3> QED BY <1>2, <3>1, <3>3 DEF SetRow
  <2>2. \A k \in Tokens : KeepsToken(k)
    BY <1>0, <2>1 DEF KeepsToken, StoresTyped, TokenState
  <2>3. \A k \in Tokens : row'[k].held => row[k].held \/ token[k].ended # "revoked"
    BY <1>0, <2>1 DEF TokenSafe, StoresTyped
  <2> QED BY <1>0, <2>1, <2>2, <2>3, RevokeEnds
<1>3. CASE TouchRow(c) /\ ~(token' = token /\ row' = row)
  <2>1. call[c].token \in Tokens
    BY <1>0, <1>3, CallIsOK DEF TouchRow, CallOK, Unplaced
  <2>2. \A k \in Tokens : KeepsToken(k)
    <3>1. \/ token' = token
          \/ token' = [token EXCEPT ![call[c].token].used = Larger(@, call[c].since)]
      BY <1>3 DEF TouchRow
    <3>2. token \in [Tokens -> TokenState]
      BY <1>0 DEF StoresTyped
    <3> QED BY <2>1, <3>1, <3>2 DEF KeepsToken, TokenState
  <2>3. \A k \in Tokens : row'[k].held => row[k].held \/ token[k].ended # "revoked"
    BY <1>0, <1>3, <2>1 DEF TouchRow, Touched, StoresTyped
  <2>4. CASE Goto(c, "ok")
    BY <1>0, <1>3, <2>2, <2>3, <2>4, GotoSafe, RevokeGoto DEF TouchRow, CallSafe
  <2>5. CASE Goto(c, "user") /\ call[c].kind # "access"
    BY <1>0, <1>3, <2>2, <2>3, <2>5, GotoSafe, RevokeGoto DEF TouchRow, CallSafe
  <2> QED BY <1>3, <2>4, <2>5 DEF TouchRow
<1>4. SetRow(c) \/ TouchRow(c) \/ (token' = token /\ row' = row)
  BY DEF SetHot, AddRead, AddWrite, UndoHot, GetHot, RefreshHot, GetRow, Return, store
<1> QED BY <1>1, <1>2, <1>3, <1>4

\* What a step that issues nothing leaves.
LEMMA RevokeOthers ==
    ASSUME TypeInv, RevokeInv, NEW c \in Calls, NEW b, Becomes(c, b),
           b.kind = "login" /\ b.token \in Tokens =>
             call[c].kind = "login" /\ call[c].token = b.token,
           \A k \in Tokens : token'[k].issued = token[k].issued
    PROVE  /\ call'[c] = b /\ \A d \in Calls : d # c => call'[d] = call[d]
           /\ \A k \in Tokens : Delivered(k) => Delivered(k)'
<1>1. \A d \in Calls : call'[d] = (IF d = c THEN b ELSE call[d])
  BY CallNumbers DEF Becomes
<1>2. ASSUME NEW k \in Tokens, Delivered(k) PROVE Delivered(k)'
  <2>1. token'[k].issued
    BY <1>2 DEF Delivered
  <2> QED BY <1>1, <1>2, <2>1, DeliveredStays
<1> QED BY <1>1, <1>2

\* A refresh signs an access token in time, or revokes the session.
LEMMA RevokeRefresh ==
    ASSUME TimesFit, TypeInv, RevokeInv, NEW c \in Calls, RefreshUser(c) PROVE RevokeInv'
<1> DEFINE k == call[c].token
<1>0. /\ call[c] \in CallState /\ CallSafe(call[c]) /\ UNCHANGED <<now, cluster, marked, row>>
      /\ StoresTyped /\ k \in Tokens /\ call[c].kind = "refresh" /\ call[c].pc = "user"
      /\ token[k] \in TokenState
  BY CallNumbers, StoresAre DEF RevokeInv, RefreshUser, CallSafe, Env, Settings, store, StoresTyped
<1>1. CASE token' = token /\ Ends(c)
  BY <1>0, <1>1, RevokeEnds DEF KeepsToken
<1>2. CASE /\ token' = [token EXCEPT ![k].ending = TRUE]
           /\ Becomes(c, [call[c] EXCEPT !.pc = "mark", !.kind = "revoke"])
  <2> DEFINE b == [call[c] EXCEPT !.pc = "mark", !.kind = "revoke"]
  <2>1. /\ b.pc = "mark" /\ b.kind = "revoke" /\ b.token = k
        /\ b.since = call[c].since /\ b.ttl = call[c].ttl
    BY <1>0 DEF CallState
  <2> HIDE DEF b
  <2>2. CallSafe(b)
    BY <1>0, <2>1 DEF CallSafe
  <2>3. \A j \in Tokens : KeepsToken(j)
    BY <1>0, <1>2 DEF KeepsToken, StoresTyped, TokenState
  <2> QED BY <1>0, <1>2, <2>1, <2>2, <2>3, RevokeQuiet DEF b
<1>3. CASE /\ token' = [token EXCEPT ![k].used = Larger(@, call[c].since),
                                     ![k].access = Larger(@, now + AccessTTL)]
           /\ Goto(c, "ok")
  <2> DEFINE b == [call[c] EXCEPT !.pc = "ok"]
  <2>1. /\ b.pc = "ok" /\ b.kind = "refresh" /\ b.token = k /\ b.dead = call[c].dead
        /\ b.since = call[c].since /\ b.ttl = call[c].ttl
    BY <1>0 DEF CallState
  <2>2. \A j \in Tokens : /\ token'[j].issued = token[j].issued /\ token'[j].switch = token[j].switch
                          /\ token'[j].refresh = token[j].refresh /\ token'[j].ended = token[j].ended
                          /\ token'[j].access = IF j = k THEN Larger(token[j].access, now + AccessTTL)
                                                ELSE token[j].access
    <3> HIDE DEF k
    <3> QED BY <1>0, <1>3 DEF StoresTyped, TokenState
  <2> HIDE DEF b
  <2>3. /\ call'[c] = b /\ \A d \in Calls : d # c => call'[d] = call[d]
        /\ \A j \in Tokens : Delivered(j) => Delivered(j)'
    BY <1>3, <2>1, <2>2, RevokeOthers DEF Goto, b
  <2>4. ASSUME NEW x, CallSafe(x) PROVE CallSafe(x)'
    <3>1. CASE x.token \in Tokens
      BY <1>0, <2>2, <2>3, <2>4, <3>1 DEF CallSafe
    <3>2. CASE x.token \notin Tokens
      BY <1>0, <2>4, <3>2 DEF CallSafe
    <3> QED BY <3>1, <3>2
  <2>5. CallSafe(b)
    BY <1>0, <2>1 DEF CallSafe
  <2>6. \A d \in Calls : CallSafe(call[d])'
    <3> TAKE d \in Calls
    <3>1. CallSafe(call'[d])
      BY <2>3, <2>5 DEF RevokeInv
    <3> QED BY <2>4, <3>1 DEF CallSafe, Delivered
  <2>7. ASSUME NEW j \in Tokens PROVE TokenSafe(j)'
    <3>1. CASE j # k
      BY <1>0, <2>2, <2>3, <3>1 DEF RevokeInv, TokenSafe
    <3>2. CASE j = k
      <4>1. /\ token[k].access \in Nat /\ now \in Nat /\ call[c].since \in Nat /\ marked[k] \in Nat
        BY <1>0, CallNumbers, TokenTyped DEF StoresTyped
      <4>2. TokenSafe(k)
        BY <1>0 DEF RevokeInv
      <4>3. token'[k].access <= now + AccessTTL
        <5>1. token[k].issued => token[k].access <= now + AccessTTL
          BY <4>2 DEF TokenSafe
        <5>2. token[k].issued
          BY <1>0 DEF CallSafe, Delivered
        <5> QED BY <1>0, <2>2, <4>1, <5>1, <5>2 DEF Larger
      <4>4. marked[k] = 0 \/ token[k].switch \/ marked[k] >= token'[k].access
        <5>1. marked[k] = 0 \/ token[k].switch \/ marked[k] >= call[c].since + CallTime + AccessTTL
          BY <1>0 DEF CallSafe
        <5>2. now <= call[c].since + CallTime
          BY <1>0 DEF CallSafe
        <5>3. marked[k] = 0 \/ token[k].switch \/ marked[k] >= token[k].access
          BY <4>2 DEF TokenSafe
        <5> QED BY <1>0, <2>2, <4>1, <5>1, <5>2, <5>3 DEF Larger
      <4> QED BY <1>0, <2>2, <2>3, <3>2, <4>2, <4>3, <4>4 DEF TokenSafe
    <3> QED BY <3>1, <3>2
  <2> QED BY <2>6, <2>7 DEF RevokeInv
<1> QED BY <1>0, <1>1, <1>2, <1>3 DEF RefreshUser

LEMMA RevokeSwitch == ASSUME TypeInv, RevokeInv, NEW c \in Calls, Switch(c) PROVE RevokeInv'
<1> DEFINE k == call[c].token
           b == [call[c] EXCEPT !.pc = "mark", !.kind = "switch"]
<1>0. /\ call[c] \in CallState /\ CallSafe(call[c]) /\ UNCHANGED <<now, cluster, marked, row>>
      /\ StoresTyped /\ k \in Tokens /\ call[c].pc = "ok" /\ Delivered(k)
  BY CallNumbers, StoresAre DEF RevokeInv, Switch, CallSafe, Env, Settings, store
<1>1. /\ b.pc = "mark" /\ b.kind = "switch" /\ b.token = k
      /\ b.since = call[c].since /\ b.ttl = call[c].ttl
  BY <1>0 DEF CallState
<1>2. \A j \in Tokens : /\ token'[j].issued = token[j].issued
                        /\ (j # k => token'[j].switch = token[j].switch) /\ token'[k].switch
                        /\ token'[j].refresh = token[j].refresh /\ token'[j].ended = token[j].ended
                        /\ token'[j].access = token[j].access
  <2>1. token' = [token EXCEPT ![k].ending = TRUE, ![k].switch = TRUE]
    BY DEF Switch
  <2> HIDE DEF k, b
  <2>2. token[k] \in TokenState /\ token \in [Tokens -> TokenState]
    BY <1>0 DEF StoresTyped
  <2>3. token'[k] = [token[k] EXCEPT !.ending = TRUE, !.switch = TRUE]
    BY <1>0, <2>1, <2>2
  <2>4. \A j \in Tokens : j # k => token'[j] = token[j]
    BY <1>0, <2>1, <2>2
  <2>5. /\ token'[k].issued = token[k].issued /\ token'[k].switch
        /\ token'[k].refresh = token[k].refresh /\ token'[k].ended = token[k].ended
        /\ token'[k].access = token[k].access
    BY <2>2, <2>3 DEF TokenState
  <2> QED BY <2>4, <2>5
<1> HIDE DEF b
<1>3. /\ call'[c] = b /\ \A d \in Calls : d # c => call'[d] = call[d]
      /\ \A j \in Tokens : Delivered(j) => Delivered(j)'
  BY <1>1, <1>2, RevokeOthers DEF Switch, b
<1>4. ASSUME NEW x, CallSafe(x) PROVE CallSafe(x)'
  <2>1. CASE x.token \in Tokens
    BY <1>0, <1>2, <1>3, <1>4, <2>1 DEF CallSafe
  <2>2. CASE x.token \notin Tokens
    BY <1>0, <1>4, <2>2 DEF CallSafe
  <2> QED BY <2>1, <2>2
<1>5. \A d \in Calls : CallSafe(call[d])'
  <2> TAKE d \in Calls
  <2>1. CASE d # c
    <3>1. CallSafe(call'[d])
      BY <1>3, <2>1 DEF RevokeInv
    <3> QED BY <1>4, <3>1 DEF CallSafe, Delivered
  <2>2. CASE d = c
    BY <1>0, <1>1, <1>2, <1>3, <2>2 DEF CallSafe
  <2> QED BY <2>1, <2>2
<1>6. ASSUME NEW j \in Tokens PROVE TokenSafe(j)'
  BY <1>0, <1>2, <1>3 DEF RevokeInv, TokenSafe
<1> QED BY <1>5, <1>6 DEF RevokeInv

\* The marker of a revocation outlives whatever the session has been given.
LEMMA RevokeMark ==
    ASSUME TimesFit, TypeInv, RevokeInv, NEW c \in Calls, Mark(c) PROVE RevokeInv'
<1> DEFINE k == call[c].token
<1>0. /\ call[c] \in CallState /\ CallSafe(call[c]) /\ UNCHANGED <<now, cluster, row, token>>
      /\ StoresTyped /\ k \in Tokens /\ call[c].pc = "mark" /\ call[c].kind \in {"revoke", "switch"}
      /\ Delivered(k) /\ now \in Nat
  BY CallNumbers, StoresAre DEF RevokeInv, Mark, CallSafe, Env, Settings, store
<1>e. PICK end \in MarkerEnds(c) :
        \/ /\ Goto(c, IF cluster THEN "find" ELSE "dropRow")
           /\ marked' = IF end > now THEN [marked EXCEPT ![k] = end] ELSE marked
        \/ marked' = marked /\ Ends(c)
  BY DEF Mark
<1>1. CASE marked' = marked /\ Ends(c)
  BY <1>0, <1>1, RevokeEnds DEF KeepsToken
<1>2. CASE \E pc \in {"find", "dropRow"} :
             /\ Goto(c, pc) /\ (cluster <=> pc = "find")
             /\ marked' = IF end > now THEN [marked EXCEPT ![k] = end] ELSE marked
  <2>1. PICK pc \in {"find", "dropRow"} :
             /\ Goto(c, pc) /\ (cluster <=> pc = "find")
             /\ marked' = IF end > now THEN [marked EXCEPT ![k] = end] ELSE marked
    BY <1>2
  <2> DEFINE b == [call[c] EXCEPT !.pc = pc]
  <2>2. /\ b.pc = pc /\ b.kind = call[c].kind /\ b.token = k
        /\ b.since = call[c].since /\ b.ttl = call[c].ttl
    BY <1>0 DEF CallState
  <2> HIDE DEF b
  <2>3. /\ call'[c] = b /\ \A d \in Calls : d # c => call'[d] = call[d]
        /\ \A j \in Tokens : Delivered(j) => Delivered(j)'
    BY <1>0, <2>1, <2>2, RevokeOthers DEF Goto, b
  <2>4. /\ \A j \in Tokens : j # k => marked'[j] = marked[j]
        /\ marked'[k] = IF end > now THEN end ELSE marked[k]
    BY <1>0, <2>1 DEF StoresTyped
  <2>5. call[c].kind = "revoke" => marked'[k] = now + RefreshTTL /\ RefreshTTL > 0
    <3>1. PICK t \in Timeouts : t <= RefreshTTL
      BY DEF TimesFit
    <3>2. RefreshTTL > 0
      BY <3>1
    <3>3. TokenTTL(call[c].ttl) = RefreshTTL
      <4>1. call[c].ttl \in Nat /\ call[c].ttl <= RefreshTTL
        BY <1>0, CallNumbers DEF CallSafe
      <4> QED BY <4>1 DEF TokenTTL, Larger, TimesFit
    <3>4. call[c].kind = "revoke" => end = now + RefreshTTL
      BY <1>e, <3>3 DEF MarkerEnds
    <3> QED BY <1>0, <2>4, <3>2, <3>4
  <2>6. call[c].kind = "switch" => token[k].switch
    BY <1>0 DEF CallSafe
  <2>7. marked[k] # 0 => marked'[k] # 0
    BY <1>0, <2>4
  <2>8. ASSUME NEW d \in Calls PROVE CallSafe(call[d])'
    <3>1. CASE d # c
      <4>1. CallSafe(call[d])
        BY DEF RevokeInv
      <4>2. call'[d] = call[d] /\ call[d].since \in Nat
        BY <2>3, <3>1, CallNumbers
      <4>3. CASE call[d].token = k
        <5>1. \/ call[d].pc = "idle" \/ token[k].switch
              \/ marked'[k] >= call[d].since + CallTime + AccessTTL
          BY <1>0, <2>5, <2>6, <4>1, <4>2 DEF CallSafe, TimesFit
        <5> QED BY <1>0, <2>3, <2>7, <4>1, <4>2, <4>3, <5>1 DEF CallSafe
      <4>4. CASE call[d].token \in Tokens \ {k}
        BY <1>0, <2>3, <2>4, <4>1, <4>2, <4>4 DEF CallSafe
      <4>5. CASE call[d].token \notin Tokens
        BY <1>0, <4>1, <4>2, <4>5 DEF CallSafe
      <4> QED BY <4>3, <4>4, <4>5
    <3>2. CASE d = c
      BY <1>0, <2>1, <2>2, <2>3, <2>5, <3>2 DEF CallSafe
    <3> QED BY <3>1, <3>2
  <2>9. ASSUME NEW j \in Tokens PROVE TokenSafe(j)'
    <3>1. CASE j # k
      BY <1>0, <2>3, <2>4, <3>1 DEF RevokeInv, TokenSafe
    <3>2. CASE j = k
      <4>1. TokenSafe(k) /\ token[k].issued
        BY <1>0 DEF RevokeInv, Delivered
      <4>2. /\ token[k].access \in Nat /\ token[k].refresh \in Nat
        BY <1>0, TokenTyped
      <4>3. token[k].switch \/ (marked'[k] >= token[k].access /\ marked'[k] >= token[k].refresh)
        BY <1>0, <2>5, <2>6, <4>1, <4>2 DEF TokenSafe, TimesFit
      <4> QED BY <1>0, <2>3, <2>7, <3>2, <4>1, <4>3 DEF TokenSafe
    <3> QED BY <3>1, <3>2
  <2> QED BY <2>8, <2>9 DEF RevokeInv
<1> QED BY <1>1, <1>2, <1>e

\* Calls rely on nothing that a later state takes back.
LEMMA CallStays ==
    ASSUME NEW x, CallSafe(x), UNCHANGED <<now, cluster, marked>>,
           \A k \in Tokens : Delivered(k) => Delivered(k)',
           \A k \in Tokens : /\ token[k].issued => token'[k].issued
                             /\ token[k].switch => token'[k].switch
                             /\ token[k].ended = "revoked" => token'[k].ended = "revoked"
    PROVE  CallSafe(x)'
<1>1. CASE x.token \in Tokens
  BY <1>1 DEF CallSafe
<1>2. CASE x.token \notin Tokens
  BY <1>2 DEF CallSafe
<1> QED BY <1>1, <1>2

\* A step that signs a token pair for one call.
LEMMA RevokeIssue ==
    ASSUME TimesFit, TypeInv, RevokeInv, NEW c \in Calls, NEW b, Becomes(c, b),
           NEW k \in Tokens, ~token[k].issued, token'[k] = Signed(b.ttl),
           b.ttl \in Nat, b.ttl <= RefreshTTL, b.kind = "login", b.token = k,
           b.pc \in {"hot", "row"}, b.since <= now, now <= b.since + CallTime,
           \A j \in Tokens \ {k} : KeepsToken(j),
           \A j \in Tokens : row'[j].held => row[j].held,
           UNCHANGED <<now, cluster, marked>>
    PROVE  RevokeInv'
<1>1. \A d \in Calls : call'[d] = (IF d = c THEN b ELSE call[d])
  BY CallNumbers DEF Becomes
<1>2. /\ token'[k].issued /\ ~token'[k].switch /\ token'[k].ended = "no"
      /\ token'[k].access = now + AccessTTL /\ token'[k].refresh = now + RefreshTTL
  <2>1. TokenTTL(b.ttl) = RefreshTTL
    BY DEF TokenTTL, Larger, TimesFit
  <2> QED BY <2>1 DEF Signed, NoTokenState
<1>3. ASSUME NEW j \in Tokens, Delivered(j) PROVE Delivered(j)'
  <2>1. j # k /\ token[j].issued
    BY <1>3 DEF Delivered
  <2> QED BY <1>1, <1>3, <2>1 DEF Delivered, KeepsToken
<1>4. token[k].ended # "revoked" /\ marked[k] = 0
  BY DEF RevokeInv, TokenSafe, Delivered
<1>5. ASSUME NEW x, CallSafe(x) PROVE CallSafe(x)'
  <2>1. CASE x.token = k
    <3>1. ~Delivered(k)
      BY DEF Delivered
    <3> QED BY <1>2, <1>5, <2>1, <3>1 DEF CallSafe
  <2>2. CASE x.token \in Tokens \ {k}
    BY <1>3, <1>5, <2>2 DEF CallSafe, KeepsToken
  <2>3. CASE x.token \notin Tokens
    BY <1>5, <2>3 DEF CallSafe
  <2> QED BY <2>1, <2>2, <2>3
<1>6. \A d \in Calls : CallSafe(call[d])'
  <2> TAKE d \in Calls
  <2>1. CASE d # c
    <3>1. CallSafe(call'[d])
      BY <1>1, <2>1 DEF RevokeInv
    <3> QED BY <1>5, <3>1 DEF CallSafe, Delivered
  <2>2. CASE d = c
    BY <1>1, <1>2, <2>2 DEF CallSafe
  <2> QED BY <2>1, <2>2
<1>7. ASSUME NEW j \in Tokens PROVE TokenSafe(j)'
  <2>1. CASE j = k
    <3>1. now + AccessTTL \in Nat /\ now + RefreshTTL \in Nat
      BY CallNumbers
    <3> QED BY <1>2, <1>4, <2>1, <3>1 DEF TokenSafe
  <2>2. CASE j # k
    BY <1>3, <2>2 DEF RevokeInv, TokenSafe, KeepsToken
  <2> QED BY <2>1, <2>2
<1> QED BY <1>6, <1>7 DEF RevokeInv

\* A step of no call that issues and marks nothing.
LEMMA RevokeStill ==
    ASSUME RevokeInv, \A k \in Tokens : KeepsToken(k),
           \A k \in Tokens : row'[k].held => row[k].held,
           UNCHANGED <<now, cluster, marked, call>>
    PROVE  RevokeInv'
<1>1. \A k \in Tokens : Delivered(k) => Delivered(k)'
  BY DEF Delivered, KeepsToken
<1>2. ASSUME NEW x, CallSafe(x) PROVE CallSafe(x)'
  BY <1>1, <1>2, CallStays DEF KeepsToken
<1>3. \A d \in Calls : CallSafe(call[d])'
  <2> TAKE d \in Calls
  <2>1. CallSafe(call'[d])
    BY DEF RevokeInv
  <2> QED BY <1>2, <2>1 DEF CallSafe, Delivered
<1>4. ASSUME NEW k \in Tokens PROVE TokenSafe(k)'
  BY <1>1 DEF RevokeInv, TokenSafe, KeepsToken
<1> QED BY <1>3, <1>4 DEF RevokeInv

\* The hot state and the index are dropped.
LEMMA RevokeDrop ==
    ASSUME TypeInv, RevokeInv, NEW c \in Calls,
           Find(c) \/ DropHot(c) \/ DropRead(c) \/ DropWrite(c)
    PROVE  RevokeInv'
<1>0. /\ call[c] \in CallState /\ CallSafe(call[c]) /\ UNCHANGED <<now, cluster, marked, token, row>>
      /\ \A k \in Tokens : row'[k].held => row[k].held \/ token[k].ended # "revoked"
  BY CallNumbers DEF RevokeInv, Find, DropHot, DropRead, DropWrite, Env, Settings, store
<1>1. \A k \in Tokens : KeepsToken(k)
  BY <1>0 DEF KeepsToken
<1>2. CASE Ends(c)
  BY <1>0, <1>1, <1>2, RevokeEnds
<1>3. CASE Find(c) /\ \E pc \in {"dropHot", "dropRow"} : Goto(c, pc)
  BY <1>0, <1>1, <1>3, GotoSafe, RevokeGoto DEF Find, CallSafe
<1>4. CASE DropHot(c) /\ Goto(c, "dropRead")
  BY <1>0, <1>1, <1>4, GotoSafe, RevokeGoto DEF DropHot, CallSafe
<1>5. CASE DropRead(c) /\ Becomes(c, [call[c] EXCEPT !.pc = "dropWrite", !.idx = IndexTokens(tenant[call[c].token])])
  <2> DEFINE b == [call[c] EXCEPT !.pc = "dropWrite", !.idx = IndexTokens(tenant[call[c].token])]
  <2>1. /\ b.pc = "dropWrite" /\ b.kind = call[c].kind /\ b.token = call[c].token
        /\ b.since = call[c].since /\ b.ttl = call[c].ttl /\ b.dead = call[c].dead
    BY <1>0 DEF CallState
  <2> HIDE DEF b
  <2>2. CallSafe(b)
    BY <1>0, <1>5, <2>1 DEF CallSafe, DropRead
  <2> QED BY <1>0, <1>1, <1>5, <2>1, <2>2, RevokeQuiet DEF b
<1>6. CASE DropWrite(c) /\ Becomes(c, AfterDrop(c))
  <2>0. call[c].pc = "dropWrite"
    BY <1>6 DEF DropWrite
  <2>1. CASE call[c].kind \in {"revoke", "switch"}
    <3>1. Goto(c, "dropRow")
      BY <1>6, <2>1 DEF AfterDrop, Goto
    <3> QED BY <1>0, <1>1, <2>0, <2>1, <3>1, GotoSafe, RevokeGoto
  <2>2. CASE call[c].kind \in {"access", "refresh"}
    <3>1. Goto(c, "no")
      BY <1>6, <2>2 DEF AfterDrop, Goto
    <3> QED BY <1>0, <1>1, <2>0, <2>2, <3>1, GotoSafe, RevokeGoto DEF CallSafe
  <2>3. CASE call[c].kind = "reset"
    <3> DEFINE b == [call[c] EXCEPT !.pc = "todo", !.token = NoToken]
    <3>1. /\ b.pc = "todo" /\ b.kind = "reset" /\ b.token = NoToken
          /\ b.since = call[c].since /\ b.ttl = call[c].ttl
      BY <1>0, <2>3 DEF CallState
    <3>2. Becomes(c, b)
      BY <1>6, <2>3 DEF AfterDrop
    <3> HIDE DEF b
    <3>3. CallSafe(b)
      BY <1>0, <2>0, <3>1 DEF CallSafe
    <3> QED BY <1>0, <1>1, <3>1, <3>2, <3>3, RevokeQuiet
  <2>4. CASE call[c].kind = "login"
    BY <1>0, <1>1, <1>6, <2>4, RevokeEnds DEF AfterDrop, Ends
  <2> QED BY <1>0, <2>1, <2>2, <2>3, <2>4 DEF CallState
<1> QED BY <1>2, <1>3, <1>4, <1>5, <1>6 DEF Find, DropHot, DropRead, DropWrite

\* The row is deleted, and the operation has succeeded.
LEMMA RevokeRow ==
    ASSUME TimesFit, TypeInv, RevokeInv, NEW c \in Calls, DropRow(c) PROVE RevokeInv'
<1> DEFINE k == call[c].token
<1>0. /\ call[c] \in CallState /\ CallSafe(call[c]) /\ UNCHANGED <<now, cluster, marked>>
      /\ StoresTyped /\ k \in Tokens /\ call[c].pc = "dropRow"
  BY CallNumbers, StoresAre, CallIsOK DEF RevokeInv, DropRow, Env, Settings, CallOK, Unplaced
<1>1. \A j \in Tokens : row'[j].held => row[j].held
  <2>1. row' = row \/ row' = [row EXCEPT ![k] = NoRow]
    BY DEF DropRow
  <2>2. row \in [Tokens -> [held : BOOLEAN, active : Nat]]
    BY <1>0 DEF StoresTyped
  <2> HIDE DEF k
  <2> QED BY <2>1, <2>2 DEF NoRow
<1>2. CASE token' = token
  <2>1. \A j \in Tokens : KeepsToken(j)
    BY <1>2 DEF KeepsToken
  <2>2. CASE Ends(c)
    BY <1>0, <1>1, <2>1, <2>2, RevokeEnds
  <2>3. CASE call[c].kind \in {"access", "refresh"} /\ Goto(c, "no")
    BY <1>0, <1>1, <2>1, <2>3, GotoSafe, RevokeGoto DEF CallSafe
  <2>4. CASE call[c].kind = "revoke" /\ Ends(c)
    BY <2>2, <2>4
  <2>5. CASE /\ call[c].kind = "switch"
             /\ \E j \in Tokens \ {k} :
                   /\ ~token[j].issued
                   /\ token' = [token EXCEPT
                        ![k].ended = IF @ = "no" THEN "switched" ELSE @, ![j] = Signed(call[c].ttl)]
    <3>1. PICK j \in Tokens \ {k} : ~token[j].issued /\ token'[j] = Signed(call[c].ttl)
      <4> HIDE DEF k
      <4> QED BY <1>0, <2>5 DEF StoresTyped
    <3> QED BY <1>2, <3>1 DEF Signed, NoTokenState
  <2> QED BY <2>2, <2>3, <2>5 DEF DropRow
<1>3. CASE /\ call[c].kind = "revoke" /\ Ends(c)
           /\ token' = [token EXCEPT ![k].ended = "revoked"] /\ row' = [row EXCEPT ![k] = NoRow]
  <2>1. Delivered(k) /\ (cluster => marked[k] # 0)
    BY <1>0, <1>3 DEF CallSafe
  <2>2. /\ \A j \in Tokens : /\ token'[j].issued = token[j].issued
                             /\ token'[j].switch = token[j].switch
                             /\ token'[j].access = token[j].access
                             /\ token'[j].refresh = token[j].refresh
                             /\ (j # k => token'[j].ended = token[j].ended)
        /\ token'[k].ended = "revoked" /\ ~row'[k].held
    <3> HIDE DEF k
    <3> QED BY <1>0, <1>3 DEF StoresTyped, TokenState, NoRow
  <2>3. IdleCall.token \notin Tokens /\ IdleCall.kind = "login"
    BY DEF IdleCall
  <2>4. /\ call'[c] = IdleCall /\ \A d \in Calls : d # c => call'[d] = call[d]
        /\ \A j \in Tokens : Delivered(j) => Delivered(j)'
    BY <1>3, <2>2, <2>3, RevokeOthers DEF Ends
  <2>5. \A d \in Calls : CallSafe(call[d])'
    <3> TAKE d \in Calls
    <3>1. CallSafe(call'[d])
      BY <2>4, IdleSafe DEF RevokeInv
    <3>2. \A j \in Tokens : /\ token[j].issued => token'[j].issued
                            /\ token[j].switch => token'[j].switch
                            /\ token[j].ended = "revoked" => token'[j].ended = "revoked"
      BY <2>2
    <3>3. ASSUME NEW x, CallSafe(x) PROVE CallSafe(x)'
      BY <1>0, <2>4, <3>2, <3>3, CallStays
    <3> QED BY <3>1, <3>3 DEF CallSafe, Delivered
  <2>6. ASSUME NEW j \in Tokens PROVE TokenSafe(j)'
    BY <1>0, <1>1, <2>1, <2>2, <2>4 DEF RevokeInv, TokenSafe
  <2> QED BY <2>5, <2>6 DEF RevokeInv
<1>4. ASSUME NEW j \in Tokens \ {k}, ~token[j].issued, call[c].kind = "switch",
             token' = [token EXCEPT ![k].ended = IF @ = "no" THEN "switched" ELSE @,
                                    ![j] = Signed(call[c].ttl)],
             Becomes(c, [call[c] EXCEPT !.pc = FirstStore, !.kind = "login", !.token = j])
      PROVE  RevokeInv'
  <2> DEFINE b == [call[c] EXCEPT !.pc = FirstStore, !.kind = "login", !.token = j]
  <2>1. /\ b.pc \in {"hot", "row"} /\ b.kind = "login" /\ b.token = j
        /\ b.since = call[c].since /\ b.ttl = call[c].ttl
    BY <1>0 DEF CallState, FirstStore
  <2>2. Becomes(c, b)
    BY <1>4
  <2>3. token'[j] = Signed(call[c].ttl) /\ \A i \in Tokens \ {j} : KeepsToken(i)
    <3> HIDE DEF k, b
    <3>0. token \in [Tokens -> TokenState] /\ token[k] \in TokenState /\ j # k
      BY <1>0, <1>4 DEF StoresTyped
    <3>1. /\ token'[j] = Signed(call[c].ttl)
          /\ token'[k] = [token[k] EXCEPT !.ended = IF @ = "no" THEN "switched" ELSE @]
          /\ \A i \in Tokens \ {j, k} : token'[i] = token[i]
      BY <1>0, <1>4, <3>0
    <3>2. KeepsToken(k)
      BY <3>0, <3>1 DEF TokenState, KeepsToken
    <3>3. \A i \in Tokens \ {j, k} : KeepsToken(i)
      BY <3>1 DEF KeepsToken
    <3> QED BY <3>1, <3>2, <3>3
  <2>4. /\ call[c].ttl \in Nat /\ call[c].ttl <= RefreshTTL
        /\ call[c].since <= now /\ now <= call[c].since + CallTime
    BY <1>0, CallNumbers DEF CallSafe
  <2> HIDE DEF b
  <2> QED BY <1>0, <1>1, <1>4, <2>1, <2>2, <2>3, <2>4, RevokeIssue
<1>5. CASE Ends(c) /\ token' = [token EXCEPT ![k].ended = IF @ = "no" THEN "switched" ELSE @]
  <2>1. \A j \in Tokens : KeepsToken(j)
    <3> HIDE DEF k
    <3> QED BY <1>0, <1>5 DEF StoresTyped, TokenState, KeepsToken
  <2> QED BY <1>0, <1>1, <1>5, <2>1, RevokeEnds
<1> QED BY <1>2, <1>3, <1>4, <1>5 DEF DropRow

\* A mark of history on a token keeps what matters of it.
LEMMA EndingKept ==
    ASSUME TypeInv, NEW k \in Tokens, NEW e, token'[k] = [token[k] EXCEPT !.ending = e]
    PROVE  KeepsToken(k)
<1>1. token[k] \in TokenState
  BY StoresAre DEF StoresTyped
<1> QED BY <1>1 DEF TokenState, KeepsToken

LEMMA EndedKept ==
    ASSUME TypeInv, NEW k \in Tokens, NEW e, NEW due,
           token'[k] = [token[k] EXCEPT
             !.ending = e, !.ended = IF k \in due /\ @ = "no" THEN "reset" ELSE @]
    PROVE  KeepsToken(k)
<1>1. token[k] \in TokenState
  BY StoresAre DEF StoresTyped
<1> QED BY <1>1 DEF TokenState, KeepsToken

\* Tickets, and the end of a password reset.
LEMMA RevokeTickets ==
    ASSUME TimesFit, TypeInv, RevokeInv, NEW c \in Calls,
           ReadTicket(c) \/ Consume(c) \/ ReadIndex(c) \/ NextToken(c) \/ DropRows(c)
    PROVE  RevokeInv'
<1>0. /\ call[c] \in CallState /\ CallSafe(call[c]) /\ UNCHANGED <<now, cluster, marked>>
      /\ StoresTyped /\ timeout \in Nat /\ timeout <= RefreshTTL
      /\ call[c].pc \in {"claim", "consume", "read", "todo", "dropRows"}
      /\ \A k \in Tokens : row'[k].held => row[k].held
  <2>1. UNCHANGED <<now, cluster, marked>> /\ call[c].pc \in {"claim", "consume", "read", "todo", "dropRows"}
    BY DEF ReadTicket, Consume, ReadIndex, NextToken, DropRows, Env, Settings
  <2>2. row' = row \/ row' = [k \in Tokens |-> IF k \in OfPlatform THEN NoRow ELSE row[k]]
    BY DEF ReadTicket, Consume, ReadIndex, NextToken, DropRows, store
  <2>3. \A k \in Tokens : row'[k].held => row[k].held
    BY <2>2 DEF NoRow
  <2>4. timeout \in Nat /\ timeout <= RefreshTTL
    BY TimeoutNat DEF TimesFit, TypeInv
  <2>5. call[c] \in CallState /\ CallSafe(call[c]) /\ StoresTyped
    BY CallNumbers, StoresAre DEF RevokeInv
  <2> QED BY <2>1, <2>3, <2>4, <2>5
<1>1. CASE \A k \in Tokens : KeepsToken(k)
  <2>1. CASE Ends(c)
    BY <1>0, <1>1, <2>1, RevokeEnds
  <2>2. CASE ReadTicket(c) /\ Goto(c, "consume")
    <3>1. CallSafe([call[c] EXCEPT !.pc = "consume"])
      <4> DEFINE b == [call[c] EXCEPT !.pc = "consume"]
      <4>1. /\ b.pc = "consume" /\ b.kind = call[c].kind /\ b.token = call[c].token
            /\ b.since = call[c].since /\ b.ttl = call[c].ttl /\ b.dead = call[c].dead
        BY <1>0 DEF CallState
      <4> HIDE DEF b
      <4>2. CallSafe(b)
        BY <1>0, <2>2, <4>1 DEF CallSafe, ReadTicket
      <4> QED BY <4>2 DEF b
    <3> QED BY <1>0, <1>1, <2>2, <3>1, RevokeGoto
  <2>3. ASSUME NEW due, NEW pc \in {"read", "dropRows"}, call[c].kind = "reset",
               Becomes(c, [call[c] EXCEPT !.pc = pc, !.ttl = timeout, !.due = due])
        PROVE  RevokeInv'
    <3> DEFINE b == [call[c] EXCEPT !.pc = pc, !.ttl = timeout, !.due = due]
    <3>1. /\ b.pc = pc /\ b.kind = "reset" /\ b.token = call[c].token
          /\ b.since = call[c].since /\ b.ttl = timeout
      BY <1>0, <2>3 DEF CallState
    <3> HIDE DEF b
    <3>2. CallSafe(b)
      BY <1>0, <3>1 DEF CallSafe
    <3> QED BY <1>0, <1>1, <2>3, <3>1, <3>2, RevokeQuiet DEF b
  <2>4. CASE ReadIndex(c) /\ Becomes(c, [call[c] EXCEPT !.pc = "todo", !.todo = IndexTokens(Platform)])
    <3> DEFINE b == [call[c] EXCEPT !.pc = "todo", !.todo = IndexTokens(Platform)]
    <3>0. call[c].pc = "read"
      BY <2>4 DEF ReadIndex
    <3>1. /\ b.pc = "todo" /\ b.kind = "reset" /\ b.token = call[c].token
          /\ b.since = call[c].since /\ b.ttl = call[c].ttl
      BY <1>0, <3>0 DEF CallState, CallSafe
    <3> HIDE DEF b
    <3>2. CallSafe(b)
      BY <1>0, <3>0, <3>1 DEF CallSafe
    <3> QED BY <1>0, <1>1, <2>4, <3>1, <3>2, RevokeQuiet DEF b
  <2>5. CASE NextToken(c) /\ Goto(c, "dropRows")
    BY <1>0, <1>1, <2>5, GotoSafe, RevokeGoto DEF NextToken, CallSafe
  <2>6. ASSUME NextToken(c), NEW k \in call[c].todo,
               Becomes(c, [call[c] EXCEPT !.pc = "dropHot", !.token = k, !.todo = @ \ {k}])
        PROVE  RevokeInv'
    <3> DEFINE b == [call[c] EXCEPT !.pc = "dropHot", !.token = k, !.todo = @ \ {k}]
    <3>0. call[c].pc = "todo"
      BY <2>6 DEF NextToken
    <3>1. /\ b.pc = "dropHot" /\ b.kind = "reset" /\ b.token = k
          /\ b.since = call[c].since /\ b.ttl = call[c].ttl
      BY <1>0, <3>0 DEF CallState, CallSafe
    <3> HIDE DEF b
    <3>2. CallSafe(b)
      BY <1>0, <3>0, <3>1 DEF CallSafe
    <3> QED BY <1>0, <1>1, <2>6, <3>1, <3>2, RevokeQuiet DEF b
  <2>7. CASE Consume(c) /\ call[c].kind = "login"
    <3>1. CASE \E k \in Tokens : Issue(k, timeout)
      <4>1. PICK k \in Tokens : Issue(k, timeout)
        BY <3>1
      <4> QED BY <1>0, <1>1, <4>1 DEF Issue, StoresTyped, Signed, NoTokenState, KeepsToken
    <3> QED BY <2>1, <2>7, <3>1 DEF Consume
  <2> QED BY <2>1, <2>2, <2>3, <2>4, <2>5, <2>6, <2>7
             DEF ReadTicket, Consume, ReadIndex, NextToken, DropRows
<1>2. CASE ~Consume(c) \/ call[c].kind = "reset" \/ token' = token
  <2>1. ASSUME NEW k \in Tokens PROVE KeepsToken(k)
    <3>1. CASE token' = token
      BY <3>1 DEF KeepsToken
    <3>2. CASE token' = [j \in Tokens |-> [token[j] EXCEPT !.ending = @ \/ j \in Stored]]
      <4>1. token'[k] = [token[k] EXCEPT !.ending = @ \/ k \in Stored]
        BY <3>2
      <4> QED BY <4>1, EndingKept
    <3>3. CASE token' = [j \in Tokens |-> [token[j] EXCEPT !.ending = @ \/ j \in IndexTokens(Platform)]]
      <4>1. token'[k] = [token[k] EXCEPT !.ending = @ \/ k \in IndexTokens(Platform)]
        BY <3>3
      <4> QED BY <4>1, EndingKept
    <3>4. CASE DropRows(c) /\ token' # token
      <4>1. token'[k] = token[k] \/ token'[k] = Reset(c, k)
        BY <3>4 DEF DropRows
      <4>2. CASE token'[k] = token[k]
        BY <4>2 DEF KeepsToken
      <4>3. CASE token'[k] = Reset(c, k)
        BY <4>3, EndedKept DEF Reset
      <4> QED BY <4>1, <4>2, <4>3
    <3> QED BY <1>2, <3>1, <3>2, <3>3, <3>4 DEF ReadTicket, Consume, ReadIndex, NextToken, DropRows
  <2> QED BY <1>1, <2>1
<1>3. ASSUME Consume(c), NEW k \in Tokens, Issue(k, timeout), call[c].kind = "login",
             Becomes(c, [call[c] EXCEPT !.pc = FirstStore, !.token = k, !.ttl = timeout])
      PROVE  RevokeInv'
  <2> DEFINE b == [call[c] EXCEPT !.pc = FirstStore, !.token = k, !.ttl = timeout]
  <2>1. /\ b.pc \in {"hot", "row"} /\ b.kind = "login" /\ b.token = k
        /\ b.since = call[c].since /\ b.ttl = timeout
    BY <1>0, <1>3 DEF CallState, FirstStore
  <2>2. ~token[k].issued /\ token'[k] = Signed(timeout) /\ \A i \in Tokens \ {k} : KeepsToken(i)
    BY <1>0, <1>3 DEF StoresTyped, KeepsToken, Issue
  <2>3. /\ call[c].since <= now /\ now <= call[c].since + CallTime
    BY <1>0 DEF CallSafe
  <2> HIDE DEF b
  <2> QED BY <1>0, <1>3, <2>1, <2>2, <2>3, RevokeIssue DEF b
<1> QED BY <1>2, <1>3 DEF Consume

\* A request begins: a token whose session was revoked gets no further than its marker.
LEMMA RevokeBegin ==
    ASSUME TimesFit, TypeInv, RevokeInv, NEW c \in Calls, Begin(c) PROVE RevokeInv'
<1>0. /\ now \in Nat /\ timeout \in Nat /\ timeout <= RefreshTTL /\ CallTime \in Nat
      /\ StoresTyped /\ now <= now + CallTime
  BY StoresAre, TimeoutNat DEF TimesFit, TypeInv
<1>1. ASSUME NEW n \in Nodes, NEW k \in Tokens, Login(c, n, k) PROVE RevokeInv'
  <2> DEFINE b == [IdleCall EXCEPT !.pc = FirstStore, !.kind = "login", !.node = n,
                                   !.token = k, !.ttl = timeout, !.since = now]
  <2>1. /\ b.pc \in {"hot", "row"} /\ b.kind = "login" /\ b.token = k
        /\ b.since = now /\ b.ttl = timeout
    BY DEF IdleCall, FirstStore
  <2>2. /\ ~token[k].issued /\ token'[k] = Signed(timeout) /\ \A i \in Tokens \ {k} : KeepsToken(i)
        /\ UNCHANGED <<now, cluster, marked, row>> /\ Becomes(c, b)
    BY <1>0, <1>1 DEF StoresTyped, KeepsToken, Issue, Login, Settings, store
  <2> HIDE DEF b
  <2> QED BY <1>0, <2>1, <2>2, RevokeIssue
<1>2. ASSUME NEW n \in Nodes, NEW k \in Tokens, Revoke(c, n, k) PROVE RevokeInv'
  <2> DEFINE b == [IdleCall EXCEPT !.pc = "mark", !.kind = "revoke", !.node = n,
                                   !.token = k, !.ttl = timeout, !.since = now]
  <2>1. /\ b.pc = "mark" /\ b.kind = "revoke" /\ b.token = k
        /\ b.since = now /\ b.ttl = timeout
    BY DEF IdleCall
  <2>2. Delivered(k) /\ UNCHANGED <<now, cluster, marked, row>> /\ Becomes(c, b)
    BY <1>2 DEF Revoke, Settings, store
  <2>3. \A j \in Tokens : KeepsToken(j)
    BY <1>0, <1>2 DEF Revoke, KeepsToken, StoresTyped, TokenState
  <2> HIDE DEF b
  <2>4. CallSafe(b)
    BY <1>0, <2>1, <2>2 DEF CallSafe
  <2> QED BY <2>1, <2>2, <2>3, <2>4, RevokeQuiet
<1>3. ASSUME NEW n \in Nodes, NEW k \in Tokens, NEW kind \in {"access", "refresh"}, Parse(c, n, k, kind)
      PROVE  RevokeInv'
  <2> DEFINE b == [IdleCall EXCEPT !.pc = "get", !.kind = kind, !.node = n, !.token = k,
                                   !.ttl = timeout, !.since = now, !.dead = token[k].ended]
  <2>1. /\ b.pc = "get" /\ b.kind = kind /\ b.token = k /\ b.dead = token[k].ended
        /\ b.since = now /\ b.ttl = timeout
    BY DEF IdleCall
  <2>2. /\ Delivered(k) /\ now < Expiry(k, kind)
        /\ UNCHANGED <<now, cluster, marked, row, token>>
        /\ call' = call \/ (Becomes(c, b) /\ ~(now < marked[k]))
    BY <1>3 DEF Parse, Settings, store
  <2>3. \A j \in Tokens : KeepsToken(j)
    BY <2>2 DEF KeepsToken
  <2> HIDE DEF b
  <2>4. CASE call' = call
    BY <2>2, <2>3, <2>4, RevokeStill
  <2>5. CASE Becomes(c, b) /\ ~(now < marked[k])
    <3>1. /\ TokenSafe(k) /\ token[k].access \in Nat /\ token[k].refresh \in Nat /\ marked[k] \in Nat
      BY <1>0, TokenTyped DEF RevokeInv, StoresTyped
    <3>2. marked[k] = 0 \/ token[k].switch
      BY <1>0, <2>2, <2>5, <3>1 DEF TokenSafe, Expiry
    <3>3. token[k].ended = "revoked" => token[k].switch \/ ~cluster
      BY <3>1, <3>2 DEF TokenSafe
    <3>4. CallSafe(b)
      BY <1>0, <2>1, <2>2, <3>2, <3>3 DEF CallSafe
    <3> QED BY <2>1, <2>2, <2>3, <2>5, <3>4, RevokeQuiet
  <2> QED BY <2>2, <2>4, <2>5
<1>4. ASSUME NEW n \in Nodes, NEW t \in Tickets, Claim(c, n, t) PROVE RevokeInv'
  <2> DEFINE b == [IdleCall EXCEPT !.pc = "claim", !.kind = ticket[t].kind, !.node = n, !.tkt = t,
                     !.claim = (IF now < ticket[t].countUntil THEN ticket[t].count ELSE 0) + 1,
                     !.since = now]
  <2>1. /\ b.pc = "claim" /\ b.kind = ticket[t].kind /\ b.token = NoToken
        /\ b.since = now /\ b.ttl = 0
    BY DEF IdleCall
  <2>2. UNCHANGED <<now, cluster, marked, row, token>> /\ Becomes(c, b)
    BY <1>4 DEF Claim, Settings, store
  <2>3. \A j \in Tokens : KeepsToken(j)
    BY <2>2 DEF KeepsToken
  <2>4. ticket[t].kind \in {"login", "reset"}
    BY <1>0 DEF StoresTyped, TicketState
  <2> HIDE DEF b
  <2>5. CallSafe(b)
    BY <1>0, <2>1, <2>4 DEF CallSafe
  <2> QED BY <2>1, <2>2, <2>3, <2>5, RevokeQuiet
<1> QED BY <1>1, <1>2, <1>3, <1>4 DEF Begin

\* A single node that restarts forgets every marker, but not the rows.
LEMMA RevokeRestart ==
    ASSUME TypeInv, RevokeInv, NEW n \in Nodes, Restart(n) PROVE RevokeInv'
<1>0. /\ UNCHANGED <<now, cluster, token, row>>
      /\ \A c \in Calls : call'[c] = IdleCall \/ call'[c] = call[c]
      /\ IF cluster THEN marked' = marked ELSE \A k \in Tokens : marked'[k] = 0
  BY DEF Restart, Env, Settings, store
<1>1. IdleCall.token \notin Tokens
  BY DEF IdleCall
<1>2. \A k \in Tokens : Delivered(k) => Delivered(k)'
  BY <1>0, <1>1 DEF Delivered
<1>3. ASSUME NEW x, CallSafe(x) PROVE CallSafe(x)'
  <2>1. CASE x.token \in Tokens
    BY <1>0, <1>2, <1>3, <2>1 DEF CallSafe
  <2>2. CASE x.token \notin Tokens
    BY <1>0, <1>3, <2>2 DEF CallSafe
  <2> QED BY <2>1, <2>2
<1>4. \A d \in Calls : CallSafe(call[d])'
  <2> TAKE d \in Calls
  <2>1. CallSafe(call'[d])
    BY <1>0, IdleSafe DEF RevokeInv
  <2> QED BY <1>3, <2>1 DEF CallSafe, Delivered
<1>5. ASSUME NEW k \in Tokens PROVE TokenSafe(k)'
  <2>1. TokenSafe(k) /\ (marked'[k] = marked[k] \/ (~cluster /\ marked'[k] = 0))
    BY <1>0 DEF RevokeInv
  <2> QED BY <1>0, <1>2, <2>1 DEF TokenSafe
<1> QED BY <1>4, <1>5 DEF RevokeInv

LEMMA RevokeTick == ASSUME TypeInv, RevokeInv, Tick PROVE RevokeInv'
<1>0. /\ now \in Nat /\ now' = now + 1 /\ UNCHANGED <<cluster, row, marked, call>> /\ StoresTyped
      /\ \A c \in Calls : call[c].pc # "idle" => now < call[c].since + CallTime
  BY StoresAre DEF Tick, TypeInv, store
<1>1. \A k \in Tokens : KeepsToken(k)
  <2> TAKE k \in Tokens
  <2>1. token[k] \in TokenState /\ \E e : token'[k] = [token[k] EXCEPT !.lapsed = e]
    <3> DEFINE e == token[k].issued /\ (token[k].lapsed \/ token[k].used + timeout <= now' + Slack)
    <3>1. token'[k] = [token[k] EXCEPT !.lapsed = e]
      BY DEF Tick
    <3>2. token[k] \in TokenState
      BY <1>0 DEF StoresTyped
    <3> HIDE DEF e
    <3> QED BY <3>1, <3>2
  <2> QED BY <2>1 DEF TokenState, KeepsToken
<1>2. \A k \in Tokens : Delivered(k) => Delivered(k)'
  BY <1>0, <1>1 DEF Delivered, KeepsToken
<1>3. ASSUME NEW d \in Calls PROVE CallSafe(call[d])'
  <2>1. CallSafe(call[d]) /\ call'[d] = call[d] /\ call[d].since \in Nat
    BY <1>0, CallNumbers DEF RevokeInv
  <2>2. CASE call[d].token \in Tokens
    BY <1>0, <1>1, <1>2, <2>1, <2>2 DEF CallSafe, KeepsToken
  <2>3. CASE call[d].token \notin Tokens
    BY <1>0, <2>1, <2>3 DEF CallSafe
  <2> QED BY <2>2, <2>3
<1>4. ASSUME NEW k \in Tokens PROVE TokenSafe(k)'
  <2>1. token[k].access \in Nat /\ token[k].refresh \in Nat /\ TokenSafe(k)
    BY <1>0, TokenTyped DEF RevokeInv, StoresTyped
  <2> QED BY <1>0, <1>1, <1>2, <2>1 DEF TokenSafe, KeepsToken
<1> QED BY <1>3, <1>4 DEF RevokeInv

LEMMA RevokeInvariant == ASSUME TimesFit PROVE Spec => []RevokeInv
<1>1. Init => RevokeInv
  <2> SUFFICES ASSUME Init PROVE RevokeInv
    OBVIOUS
  <2>1. \A c \in Calls : CallSafe(call[c])
    BY IdleSafe DEF Init
  <2>2. ASSUME NEW k \in Tokens PROVE TokenSafe(k)
    BY DEF Init, NoTokenState, TokenSafe
  <2> QED BY <2>1, <2>2 DEF RevokeInv
<1>2. TypeInv /\ RevokeInv /\ [Next]_vars => RevokeInv'
  <2> SUFFICES ASSUME TypeInv, RevokeInv, [Next]_vars PROVE RevokeInv'
    OBVIOUS
  <2>1. ASSUME NEW c \in Calls, Begin(c) PROVE RevokeInv'
    BY <2>1, RevokeBegin
  <2>2. ASSUME NEW c \in Calls, Step(c) PROVE RevokeInv'
    BY <2>2, RevokeSession, RevokeRefresh, RevokeSwitch, RevokeMark, RevokeDrop, RevokeRow,
       RevokeTickets DEF Step
  <2>3. CASE \/ \E t \in Tickets, kind \in {"login", "reset"} : CreateTicket(t, kind)
             \/ \E k \in Tokens : CleanupRow(k)
             \/ \E t \in Timeouts : ChangeTimeout(t)
             \/ UNCHANGED vars
    <3>1. UNCHANGED <<now, cluster, marked, call, token>>
      BY <2>3 DEF CreateTicket, CleanupRow, ChangeTimeout, Env, Settings, vars
    <3>2. \A k \in Tokens : row'[k].held => row[k].held
      <4>1. row' = row \/ \E k \in Tokens : row' = [row EXCEPT ![k] = NoRow]
        BY <2>3 DEF CreateTicket, CleanupRow, ChangeTimeout, Env, store, vars
      <4>2. row \in [Tokens -> [held : BOOLEAN, active : Nat]] /\ ~NoRow.held
        BY StoresAre DEF StoresTyped, NoRow
      <4> QED BY <4>1, <4>2
    <3>3. \A k \in Tokens : KeepsToken(k)
      BY <3>1 DEF KeepsToken
    <3> QED BY <3>1, <3>2, <3>3, RevokeStill
  <2>4. ASSUME NEW n \in Nodes, Restart(n) PROVE RevokeInv'
    BY <2>4, RevokeRestart
  <2>5. CASE Tick
    BY <2>5, RevokeTick
  <2> QED BY <2>1, <2>2, <2>3, <2>4, <2>5 DEF Next
<1> QED BY <1>1, <1>2, TypeInvariant, PTL DEF Spec

\* Once a logout or a forced logout has succeeded, no later request is accepted with
\* a token of that session, whichever node it reaches and whatever fails or restarts,
\* when a refresh token outlives the session and the access tokens it can sign.
THEOREM RevokedStaysOutThm == ASSUME TimesFit PROVE Spec => []RevokedStaysOut
<1>1. TypeInv /\ RevokeInv => RevokedStaysOut
  <2> SUFFICES ASSUME TypeInv, RevokeInv, NEW c \in Calls, Accepted(c), call[c].dead = "revoked"
               PROVE  token[call[c].token].switch
    BY DEF RevokedStaysOut
  <2>1. CallSafe(call[c]) /\ call[c].pc = "ok"
    BY DEF RevokeInv, Accepted
  <2> QED BY <2>1 DEF CallSafe
<1> QED BY <1>1, TypeInvariant, RevokeInvariant, PTL

-----------------------------------------------------------------------------
(* What every request may rely on, without a word about time; on a single  *)
(* node, an ended session stays out.                                       *)

\* The kind of a request goes with where it is, its token has been issued to it
\* or delivered to its client, and what it is about to drop is ending.  On a single
\* node a request that began after the end of its session finds no row.
CallShape(b) ==
    /\ b.pc \in {"hot", "addRead", "addWrite", "undo", "row"} => b.kind = "login"
    /\ b.pc \in {"get", "set", "touch", "user", "ok", "no"} => b.kind \in {"access", "refresh"}
    /\ b.pc \in {"mark", "find"} => b.kind \in {"revoke", "switch"}
    /\ b.pc \in {"read", "todo", "dropRows"} => b.kind = "reset"
    /\ b.kind = "login" /\ b.token \in Tokens => token[b.token].issued
    /\ b.kind \in {"access", "refresh", "revoke", "switch"} =>
         b.token \in Tokens /\ Delivered(b.token)
    /\ b.kind \in {"revoke", "switch", "reset"} /\ b.token \in Tokens => token[b.token].ending
    /\ \A k \in Tokens : k \in b.todo => token[k].ending
    /\ \A k \in Tokens : k \in b.due => token[k].stored
    /\ \A k \in Tokens : k \in b.idx => token[k].issued
    /\ ~cluster /\ b.kind \in {"access", "refresh"} /\ b.dead # "no" =>
         token[b.token].ended # "no" /\ b.pc \in {"get", "no"}

\* One request at most is creating the session of a token.
OneLogin ==
    \A c, d \in Calls :
        call[c].kind = "login" /\ call[d].kind = "login" /\ call[c].token \in Tokens
          /\ call[c].token = call[d].token => c = d

TokenShape(k) ==
    /\ token[k].ending \/ (\E t \in Tenants : k \in index[t].tokens) => token[k].issued
    /\ token[k].stored \/ token[k].ended # "no" => Delivered(k)
    /\ ~cluster /\ token[k].ended # "no" => ~row[k].held

SessionInv ==
    (\A c \in Calls : CallShape(call[c])) /\ OneLogin /\ \A k \in Tokens : TokenShape(k)

\* The history of a token only grows.
Grows(k) ==
    /\ token[k].issued => token'[k].issued
    /\ token[k].stored => token'[k].stored
    /\ token[k].ending => token'[k].ending
    /\ token[k].ended # "no" => token'[k].ended # "no"

\* A step that issues no token leaves this much of it.
SameToken(k) ==
    /\ token'[k].issued = token[k].issued
    /\ token'[k].stored = token[k].stored
    /\ token'[k].ended = token[k].ended
    /\ token[k].ending => token'[k].ending
    /\ token'[k].ending => token[k].ending \/ token[k].issued

LEMMA IdleShape == CallShape(IdleCall) /\ CallShape(IdleCall)'
BY DEF CallShape, IdleCall

\* Calls rely on nothing that a later state takes back.
LEMMA ShapeStays ==
    ASSUME NEW x, CallShape(x), cluster' = cluster,
           \A k \in Tokens : Delivered(k) => Delivered(k)',
           \A k \in Tokens : Grows(k)
    PROVE  CallShape(x)'
<1>1. CASE x.token \in Tokens
  BY <1>1 DEF CallShape, Grows
<1>2. CASE x.token \notin Tokens
  BY <1>2 DEF CallShape, Grows
<1> QED BY <1>1, <1>2

\* A step of one call that issues no token.
LEMMA ShapeStep ==
    ASSUME TypeInv, SessionInv, NEW c \in Calls, NEW b, Becomes(c, b), CallShape(b)',
           b.kind = "login" /\ b.token \in Tokens =>
             call[c].kind = "login" /\ call[c].token = b.token,
           \A k \in Tokens : Grows(k) /\ token'[k].issued = token[k].issued,
           \A k \in Tokens : token'[k].stored /\ ~token[k].stored => Delivered(k)',
           \A k \in Tokens : token'[k].ended # "no" /\ token[k].ended = "no" =>
             Delivered(k) /\ ~row'[k].held,
           \A k \in Tokens : row'[k].held => row[k].held \/ token'[k].ended = "no",
           \A k \in Tokens : token'[k].ending \/ (\E t \in Tenants : k \in index'[t].tokens) => token[k].issued,
           cluster' = cluster
    PROVE  SessionInv'
<1>1. \A d \in Calls : call'[d] = (IF d = c THEN b ELSE call[d])
  BY CallNumbers DEF Becomes
<1>2. ASSUME NEW k \in Tokens, Delivered(k) PROVE Delivered(k)'
  <2>1. token'[k].issued
    BY <1>2 DEF Delivered
  <2> QED BY <1>1, <1>2, <2>1, DeliveredStays
<1>3. \A d \in Calls : CallShape(call[d])'
  <2> TAKE d \in Calls
  <2>1. CASE d = c
    BY <1>1, <2>1 DEF CallShape, Delivered
  <2>2. CASE d # c
    <3>1. call'[d] = call[d] /\ CallShape(call'[d])
      BY <1>1, <2>2 DEF SessionInv
    <3>2. PICK x : x = call[d]
      OBVIOUS
    <3>3. CallShape(x)'
      BY <1>2, <3>1, <3>2, ShapeStays
    <3> QED BY <3>1, <3>2, <3>3 DEF CallShape, Delivered
  <2> QED BY <2>1, <2>2
<1>4. OneLogin'
  BY <1>1 DEF OneLogin, SessionInv
<1>5. ASSUME NEW k \in Tokens PROVE TokenShape(k)'
  BY <1>2 DEF SessionInv, TokenShape
<1> QED BY <1>3, <1>4, <1>5 DEF SessionInv

\* A step of one call that ends nothing and creates nothing.
LEMMA ShapeQuiet ==
    ASSUME TypeInv, SessionInv, NEW c \in Calls, NEW b, Becomes(c, b), CallShape(b),
           b.kind = "login" /\ b.token \in Tokens =>
             call[c].kind = "login" /\ call[c].token = b.token,
           \A k \in Tokens : SameToken(k),
           \A k \in Tokens : row'[k].held => row[k].held \/ token[k].ended = "no",
           \A k \in Tokens : (\E t \in Tenants : k \in index'[t].tokens) => token[k].issued,
           cluster' = cluster
    PROVE  SessionInv'
<1>1. \A d \in Calls : call'[d] = (IF d = c THEN b ELSE call[d])
  BY CallNumbers DEF Becomes
<1>2. \A k \in Tokens : Grows(k)
  BY DEF Grows, SameToken
<1>3. ASSUME NEW k \in Tokens, Delivered(k) PROVE Delivered(k)'
  <2>1. token'[k].issued
    BY <1>3 DEF Delivered, SameToken
  <2> QED BY <1>1, <1>3, <2>1, DeliveredStays
<1>4. CallShape(b)'
  BY <1>2, <1>3, ShapeStays
<1> QED BY <1>2, <1>4, ShapeStep DEF SameToken, SessionInv, TokenShape

LEMMA ShapeEnds ==
    ASSUME TypeInv, SessionInv, NEW c \in Calls, Ends(c),
           \A k \in Tokens : SameToken(k),
           \A k \in Tokens : row'[k].held => row[k].held \/ token[k].ended = "no",
           \A k \in Tokens : (\E t \in Tenants : k \in index'[t].tokens) => token[k].issued,
           cluster' = cluster
    PROVE  SessionInv'
<1>1. IdleCall.token \notin Tokens
  BY DEF IdleCall
<1> QED BY <1>1, IdleShape, ShapeQuiet DEF Ends

\* A call that only moves on.
LEMMA ShapeGoto ==
    ASSUME TypeInv, SessionInv, NEW c \in Calls, NEW pc, Goto(c, pc),
           pc \in {"hot", "addRead", "addWrite", "undo", "row"} => call[c].kind = "login",
           pc \in {"get", "set", "touch", "user", "ok", "no"} => call[c].kind \in {"access", "refresh"},
           pc \in {"mark", "find"} => call[c].kind \in {"revoke", "switch"},
           pc \in {"read", "todo", "dropRows"} => call[c].kind = "reset",
           ~cluster /\ call[c].kind \in {"access", "refresh"} /\ call[c].dead # "no" => pc = "no",
           \A k \in Tokens : SameToken(k),
           \A k \in Tokens : row'[k].held => row[k].held \/ token[k].ended = "no",
           \A k \in Tokens : (\E t \in Tenants : k \in index'[t].tokens) => token[k].issued,
           cluster' = cluster
    PROVE  SessionInv'
<1> DEFINE b == [call[c] EXCEPT !.pc = pc]
<1>1. /\ b.pc = pc /\ b.kind = call[c].kind /\ b.token = call[c].token /\ b.dead = call[c].dead
      /\ b.todo = call[c].todo /\ b.due = call[c].due /\ b.idx = call[c].idx
  BY CallNumbers DEF CallState
<1>2. CallShape(call[c]) /\ Becomes(c, b)
  BY DEF SessionInv, Goto
<1> HIDE DEF b
<1>3. CallShape(b)
  BY <1>1, <1>2 DEF CallShape
<1> QED BY <1>1, <1>2, <1>3, ShapeQuiet

\* Session creation, and the lookup of a session.
LEMMA ShapeSession ==
    ASSUME TypeInv, SessionInv, NEW c \in Calls,
           \/ SetHot(c) \/ AddRead(c) \/ AddWrite(c) \/ UndoHot(c) \/ GetHot(c)
           \/ RefreshHot(c) \/ GetRow(c) \/ Return(c)
    PROVE  SessionInv'
<1>0. /\ call[c] \in CallState /\ CallShape(call[c]) /\ cluster' = cluster
      /\ (call[c].token \in Tokens => TokenShape(call[c].token))
  BY CallNumbers DEF SessionInv, SetHot, AddRead, AddWrite, UndoHot, GetHot, RefreshHot,
     GetRow, Return, Env, Settings
<1>i. \A k \in Tokens : (\E t \in Tenants : k \in index[t].tokens) => token[k].issued
  BY DEF SessionInv, TokenShape
<1>1. /\ \A k \in Tokens : SameToken(k)
      /\ \A k \in Tokens : row'[k].held => row[k].held \/ token[k].ended = "no"
      /\ \A k \in Tokens : (\E t \in Tenants : k \in index'[t].tokens) => token[k].issued
  <2>1. token' = token /\ row' = row
    BY DEF SetHot, AddRead, AddWrite, UndoHot, GetHot, RefreshHot, GetRow, Return, store
  <2>2. CASE index' = index
    BY <1>i, <2>1, <2>2 DEF SameToken
  <2>3. CASE /\ AddWrite(c)
             /\ index' = [index EXCEPT ![tenant[call[c].token]] =
                  [until |-> now + call[c].ttl, tokens |-> call[c].idx \cup {call[c].token}]]
    <3>1. call[c].kind = "login" /\ call[c].token \in Tokens
      BY <1>0, <2>3, CallIsOK DEF AddWrite, CallShape, CallOK, Unplaced
    <3>2. \A t \in Tenants : \/ index'[t] = index[t]
                              \/ index'[t].tokens = call[c].idx \cup {call[c].token}
      BY <2>3 DEF TypeInv
    <3> QED BY <1>0, <1>i, <2>1, <3>1, <3>2 DEF SameToken, CallShape
  <2> QED BY <2>2, <2>3 DEF SetHot, AddRead, AddWrite, UndoHot, GetHot, RefreshHot, GetRow, Return, store
<1>2. CASE Ends(c)
  BY <1>0, <1>1, <1>2, ShapeEnds
<1>3. CASE SetHot(c) /\ Goto(c, "addRead")
  BY <1>0, <1>1, <1>3, ShapeGoto DEF SetHot, CallShape
<1>4. CASE AddRead(c) /\ Goto(c, "undo")
  BY <1>0, <1>1, <1>4, ShapeGoto DEF AddRead, CallShape
<1>5. CASE AddRead(c) /\ Becomes(c, [call[c] EXCEPT !.pc = "addWrite", !.idx = IndexTokens(tenant[call[c].token])])
  <2> DEFINE b == [call[c] EXCEPT !.pc = "addWrite", !.idx = IndexTokens(tenant[call[c].token])]
  <2>1. /\ b.pc = "addWrite" /\ b.kind = call[c].kind /\ b.token = call[c].token
        /\ b.todo = call[c].todo /\ b.due = call[c].due /\ b.dead = call[c].dead
        /\ b.idx = IndexTokens(tenant[call[c].token])
    BY <1>0 DEF CallState
  <2> HIDE DEF b
  <2>2. CallShape(b)
    <3>1. call[c].token \in Tokens
      BY <1>5, CallIsOK DEF AddRead, CallOK, Unplaced
    <3>2. \A k \in Tokens : k \in IndexTokens(tenant[call[c].token]) => token[k].issued
      BY <1>i, <3>1, IndexTyped DEF IndexTokens
    <3>3. call[c].pc = "addRead"
      BY <1>5 DEF AddRead
    <3> QED BY <1>0, <2>1, <3>1, <3>2, <3>3 DEF CallShape
  <2>3. Becomes(c, b)
    BY <1>5 DEF b
  <2> QED BY <1>0, <1>1, <2>1, <2>2, <2>3, ShapeQuiet
<1>6. CASE AddWrite(c) /\ \E pc \in {"row", "undo"} : Goto(c, pc)
  BY <1>0, <1>1, <1>6, ShapeGoto DEF AddWrite, CallShape
<1>7. CASE GetHot(c) /\ \E pc \in {"no", "dropHot", "set"} : Goto(c, pc)
  BY <1>0, <1>1, <1>7, ShapeGoto DEF GetHot, CallShape
<1>8. CASE RefreshHot(c) /\ Goto(c, "touch")
  BY <1>0, <1>1, <1>8, ShapeGoto DEF RefreshHot, CallShape
<1>9. CASE GetRow(c) /\ Goto(c, "no")
  BY <1>0, <1>1, <1>9, ShapeGoto DEF GetRow, CallShape
<1>10. CASE GetRow(c) /\ row[call[c].token].held /\ \E pc \in {"dropRow", "touch"} : Goto(c, pc)
  <2>1. ~cluster /\ call[c].kind \in {"access", "refresh"} => call[c].dead = "no"
    BY <1>0, <1>10 DEF GetRow, CallShape, TokenShape
  <2> QED BY <1>0, <1>1, <1>10, <2>1, ShapeGoto DEF GetRow, CallShape
<1> QED
  BY <1>2, <1>3, <1>4, <1>5, <1>6, <1>7, <1>8, <1>9, <1>10
     DEF SetHot, AddRead, AddWrite, UndoHot, GetHot, RefreshHot, GetRow, Return

\* The row is created: the login that does it is the only one of its token.
LEMMA ShapeSetRow == ASSUME TypeInv, SessionInv, NEW c \in Calls, SetRow(c) PROVE SessionInv'
<1>k. PICK k : k = call[c].token
  OBVIOUS
<1>0. /\ call[c] \in CallState /\ CallShape(call[c]) /\ cluster' = cluster /\ index' = index
      /\ \A j \in Tokens : token[j].ending \/ (\E t \in Tenants : j \in index[t].tokens) => token[j].issued
      /\ StoresTyped /\ k \in Tokens /\ call[c].kind = "login" /\ TokenShape(k)
  <2>1. k \in Tokens
    BY <1>k, CallIsOK DEF SetRow, CallOK, Unplaced
  <2> QED BY <1>k, <2>1, CallNumbers, StoresAre DEF SessionInv, SetRow, CallShape, Env, Settings, TokenShape
<1>1. ~Delivered(k)
  BY <1>k, <1>0 DEF Delivered
<1>2. CASE token' = token /\ row' = row
  BY <1>0, <1>2, ShapeEnds, ShapeGoto DEF SameToken, SetRow
<1>3. CASE /\ row' = [row EXCEPT ![k] = [held |-> TRUE, active |-> now]]
           /\ token' = [token EXCEPT ![k].stored = TRUE, ![k].used = call[c].since]
           /\ Ends(c)
  <2>1. \A j \in Tokens : /\ Grows(j) /\ token'[j].issued = token[j].issued
                          /\ token'[j].ended = token[j].ended
                          /\ j # k => token'[j].stored = token[j].stored
                          /\ token'[j].ending = token[j].ending
    <3>1. /\ token'[k] = [token[k] EXCEPT !.stored = TRUE, !.used = call[c].since]
          /\ \A j \in Tokens \ {k} : token'[j] = token[j]
      BY <1>0, <1>3 DEF StoresTyped
    <3>2. token[k] \in TokenState
      BY <1>0 DEF StoresTyped
    <3>3. /\ token'[k].issued = token[k].issued /\ token'[k].ended = token[k].ended
          /\ token'[k].ending = token[k].ending /\ token'[k].stored
      BY <3>1, <3>2 DEF TokenState
    <3> QED BY <3>1, <3>3 DEF Grows
  <2>2. Delivered(k)'
    <3>1. \A d \in Calls : call'[d] = (IF d = c THEN IdleCall ELSE call[d])
      BY <1>3, CallNumbers DEF Ends, Becomes
    <3>2. \A d \in Calls : call'[d].kind = "login" => call'[d].token # k
      BY <1>k, <1>0, <3>1 DEF SessionInv, OneLogin, IdleCall
    <3>3. token'[k].issued
      BY <1>k, <1>0, <2>1 DEF CallShape
    <3> QED BY <3>2, <3>3 DEF Delivered
  <2>3. \A j \in Tokens : row'[j].held => row[j].held \/ token'[j].ended = "no"
    <3>1. token[k].ended = "no"
      BY <1>0, <1>1 DEF TokenShape
    <3>2. \A j \in Tokens \ {k} : row'[j] = row[j]
      BY <1>0, <1>3 DEF StoresTyped
    <3> QED BY <2>1, <3>1, <3>2
  <2>4. IdleCall.token \notin Tokens
    BY DEF IdleCall
  <2> QED BY <1>0, <1>3, <2>1, <2>2, <2>3, <2>4, IdleShape, ShapeStep DEF Ends
<1> QED BY <1>k, <1>2, <1>3 DEF SetRow

LEMMA ShapeTouch == ASSUME TypeInv, SessionInv, NEW c \in Calls, TouchRow(c) PROVE SessionInv'
<1> DEFINE k == call[c].token
<1>0. /\ call[c] \in CallState /\ CallShape(call[c]) /\ cluster' = cluster /\ index' = index
      /\ \A j \in Tokens : token[j].ending \/ (\E t \in Tenants : j \in index[t].tokens) => token[j].issued
      /\ StoresTyped /\ k \in Tokens /\ call[c].kind \in {"access", "refresh"}
      /\ ~cluster => call[c].dead = "no"
  BY CallNumbers, StoresAre DEF SessionInv, TouchRow, CallShape, Env, Settings, TokenShape
<1>1. \A j \in Tokens : SameToken(j)
  <2>1. CASE token' = token
    BY <2>1 DEF SameToken
  <2>2. CASE token' = [token EXCEPT ![k].used = Larger(@, call[c].since)]
    <3> HIDE DEF k
    <3> QED BY <1>0, <2>2 DEF SameToken, StoresTyped, TokenState
  <2> QED BY <2>1, <2>2 DEF TouchRow
<1>2. \A j \in Tokens : row'[j].held => row[j].held \/ token[j].ended = "no"
  <2>1. row' = row \/ row' = [row EXCEPT ![k] = Touched(k)]
    BY DEF TouchRow
  <2> HIDE DEF k
  <2> QED BY <1>0, <2>1 DEF Touched, StoresTyped
<1>3. CASE Goto(c, "ok")
  BY <1>0, <1>1, <1>2, <1>3, ShapeGoto
<1>4. CASE Goto(c, "user")
  BY <1>0, <1>1, <1>2, <1>4, ShapeGoto
<1> QED BY <1>0, <1>1, <1>2, <1>3, <1>4, ShapeEnds DEF TouchRow

\* A call begins to end the session of a token.
LEMMA ShapeEnding ==
    ASSUME TypeInv, SessionInv, NEW c \in Calls, NEW b, Becomes(c, b), NEW k \in Tokens,
           Delivered(k), b.token = k, b.kind \in {"revoke", "switch"}, b.pc = "mark",
           \A j \in Tokens : /\ j \in b.todo => token[j].ending
                             /\ j \in b.due => token[j].stored
                             /\ j \in b.idx => token[j].issued,
           \/ token' = [token EXCEPT ![k].ending = TRUE]
           \/ token' = [token EXCEPT ![k].ending = TRUE, ![k].switch = TRUE],
           UNCHANGED <<cluster, row, index>>
    PROVE  SessionInv'
<1>1. \A j \in Tokens : /\ token'[j].issued = token[j].issued /\ token'[j].stored = token[j].stored
                        /\ token'[j].ended = token[j].ended
                        /\ (token'[j].ending <=> j = k \/ token[j].ending)
  <2>1. /\ \A j \in Tokens \ {k} : token'[j] = token[j]
        /\ \/ token'[k] = [token[k] EXCEPT !.ending = TRUE]
           \/ token'[k] = [token[k] EXCEPT !.ending = TRUE, !.switch = TRUE]
    BY DEF TypeInv
  <2>2. token[k] \in TokenState
    BY DEF TypeInv
  <2>3. /\ token'[k].issued = token[k].issued /\ token'[k].stored = token[k].stored
        /\ token'[k].ended = token[k].ended /\ token'[k].ending
    BY <2>1, <2>2 DEF TokenState
  <2> QED BY <2>1, <2>3
<1>2. \A j \in Tokens : Grows(j) /\ token'[j].issued = token[j].issued
  BY <1>1 DEF Grows
<1>3. token[k].issued
  BY DEF Delivered
<1>4. \A d \in Calls : call'[d] = (IF d = c THEN b ELSE call[d])
  BY CallNumbers DEF Becomes
<1>5. Delivered(k)'
  BY <1>2, <1>3, <1>4, DeliveredStays
<1>6. CallShape(b)'
  BY <1>1, <1>5 DEF CallShape
<1>7. \A j \in Tokens : token'[j].ending \/ (\E t \in Tenants : j \in index'[t].tokens) => token[j].issued
  BY <1>1, <1>3 DEF SessionInv, TokenShape
<1> QED BY <1>1, <1>2, <1>6, <1>7, ShapeStep

\* A refresh goes on, or begins to revoke the session.
LEMMA ShapeRefresh == ASSUME TypeInv, SessionInv, NEW c \in Calls, RefreshUser(c) PROVE SessionInv'
<1> DEFINE k == call[c].token
<1>0. /\ call[c] \in CallState /\ CallShape(call[c]) /\ cluster' = cluster /\ index' = index
      /\ \A j \in Tokens :
            token[j].ending \/ (\E t \in Tenants : j \in index[t].tokens) => token[j].issued
      /\ row' = row
      /\ StoresTyped /\ k \in Tokens /\ call[c].kind \in {"access", "refresh"}
      /\ ~cluster => call[c].dead = "no"
  BY CallNumbers, StoresAre DEF SessionInv, RefreshUser, CallShape, Env, Settings, store, TokenShape
<1>1. CASE token' = token /\ Ends(c)
  BY <1>0, <1>1, ShapeEnds DEF SameToken
<1>2. CASE /\ token' = [token EXCEPT ![k].used = Larger(@, call[c].since),
                                     ![k].access = Larger(@, now + AccessTTL)]
           /\ Goto(c, "ok")
  <2>1. \A j \in Tokens : SameToken(j)
    <3> HIDE DEF k
    <3>1. /\ \A j \in Tokens \ {k} : token'[j] = token[j]
          /\ token'[k] = [token[k] EXCEPT !.used = Larger(token[k].used, call[c].since),
                                          !.access = Larger(token[k].access, now + AccessTTL)]
      BY <1>0, <1>2 DEF StoresTyped
    <3>2. token[k] \in TokenState
      BY <1>0 DEF StoresTyped
    <3>3. /\ token'[k].issued = token[k].issued /\ token'[k].stored = token[k].stored
          /\ token'[k].ended = token[k].ended /\ token'[k].ending = token[k].ending
      BY <3>1, <3>2 DEF TokenState
    <3> QED BY <3>1, <3>3 DEF SameToken
  <2> QED BY <1>0, <1>2, <2>1, ShapeGoto
<1>3. CASE /\ token' = [token EXCEPT ![k].ending = TRUE]
           /\ Becomes(c, [call[c] EXCEPT !.pc = "mark", !.kind = "revoke"])
  <2> DEFINE b == [call[c] EXCEPT !.pc = "mark", !.kind = "revoke"]
  <2>1. /\ b.pc = "mark" /\ b.kind = "revoke" /\ b.token = k
        /\ b.todo = call[c].todo /\ b.due = call[c].due /\ b.idx = call[c].idx
    BY <1>0 DEF CallState
  <2> HIDE DEF b
  <2>2. Delivered(k) /\ Becomes(c, b)
    BY <1>0, <1>3 DEF CallShape, b
  <2>3. \A j \in Tokens : /\ j \in b.todo => token[j].ending
                          /\ j \in b.due => token[j].stored
                          /\ j \in b.idx => token[j].issued
    BY <1>0, <2>1 DEF CallShape
  <2> HIDE DEF k
  <2> QED BY <1>0, <1>3, <2>1, <2>2, <2>3, ShapeEnding
<1> QED BY <1>1, <1>2, <1>3 DEF RefreshUser

LEMMA ShapeSwitch == ASSUME TypeInv, SessionInv, NEW c \in Calls, Switch(c) PROVE SessionInv'
<1> DEFINE k == call[c].token
           b == [call[c] EXCEPT !.pc = "mark", !.kind = "switch"]
<1>0. /\ call[c] \in CallState /\ CallShape(call[c]) /\ UNCHANGED <<cluster, row, index>>
      /\ k \in Tokens /\ Delivered(k)
      /\ token' = [token EXCEPT ![k].ending = TRUE, ![k].switch = TRUE]
  BY CallNumbers DEF SessionInv, Switch, CallShape, Env, Settings, store
<1>1. /\ b.pc = "mark" /\ b.kind = "switch" /\ b.token = k
      /\ b.todo = call[c].todo /\ b.due = call[c].due /\ b.idx = call[c].idx
  BY <1>0 DEF CallState
<1> HIDE DEF b
<1>2. Becomes(c, b)
  BY DEF Switch, b
<1>3. \A j \in Tokens : /\ j \in b.todo => token[j].ending
                        /\ j \in b.due => token[j].stored
                        /\ j \in b.idx => token[j].issued
  BY <1>0, <1>1 DEF CallShape
<1> HIDE DEF k
<1> QED BY <1>0, <1>1, <1>2, <1>3, ShapeEnding

\* The revocation marker, and what is dropped after it.
LEMMA ShapeDrop ==
    ASSUME TypeInv, SessionInv, NEW c \in Calls,
           Mark(c) \/ Find(c) \/ DropHot(c) \/ DropRead(c) \/ DropWrite(c)
    PROVE  SessionInv'
<1>0. /\ call[c] \in CallState /\ CallShape(call[c]) /\ UNCHANGED <<cluster, token, row>>
      /\ \A k \in Tokens : row'[k].held => row[k].held \/ token[k].ended = "no"
      /\ \A k \in Tokens : (\E t \in Tenants : k \in index[t].tokens) => token[k].issued
  BY CallNumbers DEF SessionInv, TokenShape, Mark, Find, DropHot, DropRead, DropWrite, Env, Settings, store
<1>1. \A k \in Tokens : SameToken(k)
  BY <1>0 DEF SameToken
<1>2. \A k \in Tokens : (\E t \in Tenants : k \in index'[t].tokens) => token[k].issued
  <2>1. \A t \in Tenants : \/ index'[t] = index[t] \/ index'[t].tokens = {}
                            \/ index'[t].tokens = call[c].idx \ {call[c].token}
    <3>1. CASE DropWrite(c) /\ index' # index
      <4> DEFINE rest == call[c].idx \ {call[c].token}
                 new(ttl) == IF rest = {} THEN NoIndex ELSE [until |-> now + ttl, tokens |-> rest]
      <4>1. PICK ttl \in Timeouts : index' = [index EXCEPT ![tenant[call[c].token]] = new(ttl)]
        BY <3>1 DEF DropWrite
      <4>2. new(ttl).tokens = {} \/ new(ttl).tokens = rest
        BY DEF NoIndex
      <4> HIDE DEF new
      <4> QED BY <4>1, <4>2 DEF TypeInv
    <3> QED BY <3>1 DEF Mark, Find, DropHot, DropRead, DropWrite, store
  <2> QED BY <1>0, <2>1 DEF CallShape
<1>3. CASE Ends(c)
  BY <1>0, <1>1, <1>2, <1>3, ShapeEnds
<1>4. CASE Mark(c) /\ \E pc \in {"find", "dropRow"} : Goto(c, pc)
  BY <1>0, <1>1, <1>2, <1>4, ShapeGoto DEF Mark, CallShape
<1>5. CASE Find(c) /\ \E pc \in {"dropHot", "dropRow"} : Goto(c, pc)
  BY <1>0, <1>1, <1>2, <1>5, ShapeGoto DEF Find, CallShape
<1>6. CASE DropHot(c) /\ Goto(c, "dropRead")
  BY <1>0, <1>1, <1>2, <1>6, ShapeGoto DEF DropHot, CallShape
<1>7. CASE DropRead(c) /\ Becomes(c, [call[c] EXCEPT !.pc = "dropWrite", !.idx = IndexTokens(tenant[call[c].token])])
  <2> DEFINE b == [call[c] EXCEPT !.pc = "dropWrite", !.idx = IndexTokens(tenant[call[c].token])]
  <2>1. /\ b.pc = "dropWrite" /\ b.kind = call[c].kind /\ b.token = call[c].token
        /\ b.todo = call[c].todo /\ b.due = call[c].due /\ b.dead = call[c].dead
        /\ b.idx = IndexTokens(tenant[call[c].token])
    BY <1>0 DEF CallState
  <2> HIDE DEF b
  <2>2. CallShape(b)
    <3>1. call[c].token \in Tokens
      BY <1>7, CallIsOK DEF DropRead, CallOK, Unplaced
    <3>2. \A k \in Tokens : k \in IndexTokens(tenant[call[c].token]) => token[k].issued
      BY <1>0, <3>1, IndexTyped DEF IndexTokens
    <3>3. call[c].pc = "dropRead"
      BY <1>7 DEF DropRead
    <3> QED BY <1>0, <2>1, <3>1, <3>2, <3>3 DEF CallShape
  <2>3. Becomes(c, b)
    BY <1>7 DEF b
  <2> QED BY <1>0, <1>1, <1>2, <2>1, <2>2, <2>3, ShapeQuiet
<1>8. CASE DropWrite(c) /\ Becomes(c, AfterDrop(c))
  <2>0. call[c].pc = "dropWrite"
    BY <1>8 DEF DropWrite
  <2>1. CASE call[c].kind \in {"revoke", "switch"}
    <3>1. Goto(c, "dropRow")
      BY <1>8, <2>1 DEF AfterDrop, Goto
    <3> QED BY <1>0, <1>1, <1>2, <2>1, <3>1, ShapeGoto
  <2>2. CASE call[c].kind \in {"access", "refresh"}
    <3>1. Goto(c, "no")
      BY <1>8, <2>2 DEF AfterDrop, Goto
    <3> QED BY <1>0, <1>1, <1>2, <2>2, <3>1, ShapeGoto
  <2>3. CASE call[c].kind = "reset"
    <3> DEFINE b == [call[c] EXCEPT !.pc = "todo", !.token = NoToken]
    <3>1. /\ b.pc = "todo" /\ b.kind = "reset" /\ b.token = NoToken
          /\ b.todo = call[c].todo /\ b.due = call[c].due /\ b.idx = call[c].idx
      BY <1>0, <2>3 DEF CallState
    <3>2. Becomes(c, b)
      BY <1>8, <2>3 DEF AfterDrop
    <3> HIDE DEF b
    <3>3. CallShape(b)
      BY <1>0, <3>1 DEF CallShape
    <3> QED BY <1>0, <1>1, <1>2, <3>1, <3>2, <3>3, ShapeQuiet
  <2>4. CASE call[c].kind = "login"
    BY <1>0, <1>1, <1>2, <1>8, <2>4, ShapeEnds DEF AfterDrop, Ends
  <2> QED BY <1>0, <2>1, <2>2, <2>3, <2>4 DEF CallState
<1> QED BY <1>3, <1>4, <1>5, <1>6, <1>7, <1>8 DEF Mark, Find, DropHot, DropRead, DropWrite

\* A step that signs a token pair for one call.
LEMMA ShapeIssue ==
    ASSUME TypeInv, SessionInv, NEW c \in Calls, NEW b, Becomes(c, b),
           NEW k \in Tokens, ~token[k].issued, NEW ttl, token'[k] = Signed(ttl),
           b.kind = "login", b.token = k, b.pc \in {"hot", "row"},
           \A j \in Tokens : /\ j \in b.todo => token[j].ending
                             /\ j \in b.due => token[j].stored
                             /\ j \in b.idx => token[j].issued,
           \A j \in Tokens \ {k} :
             /\ Grows(j) /\ token'[j].issued = token[j].issued
             /\ token'[j].stored = token[j].stored /\ token'[j].ending = token[j].ending
             /\ token'[j].ended # "no" /\ token[j].ended = "no" => Delivered(j) /\ ~row'[j].held,
           \A j \in Tokens : row'[j].held => row[j].held,
           UNCHANGED <<cluster, index>>
    PROVE  SessionInv'
<1>1. \A d \in Calls : call'[d] = (IF d = c THEN b ELSE call[d])
  BY CallNumbers DEF Becomes
<1>2. /\ token'[k].issued /\ ~token'[k].stored /\ ~token'[k].ending /\ token'[k].ended = "no"
  BY DEF Signed, NoTokenState
<1>3. ~Delivered(k) /\ ~token[k].stored /\ ~token[k].ending /\ token[k].ended = "no"
  BY DEF Delivered, SessionInv, TokenShape
<1>4. ASSUME NEW j \in Tokens, Delivered(j) PROVE Delivered(j)'
  <2>1. j # k /\ token'[j].issued
    BY <1>3, <1>4 DEF Delivered
  <2> QED BY <1>1, <1>4, <2>1, DeliveredStays
<1>5. \A j \in Tokens : Grows(j)
  BY <1>2, <1>3 DEF Grows
<1>6. \A d \in Calls : CallShape(call[d])'
  <2> TAKE d \in Calls
  <2>1. CASE d = c
    <3>1. CallShape(b)'
      BY <1>2, <1>5 DEF CallShape, Grows
    <3> QED BY <1>1, <2>1, <3>1 DEF CallShape, Delivered
  <2>2. CASE d # c
    <3>1. call'[d] = call[d] /\ CallShape(call'[d])
      BY <1>1, <2>2 DEF SessionInv
    <3>2. PICK x : x = call[d]
      OBVIOUS
    <3>3. CallShape(x)'
      BY <1>4, <1>5, <3>1, <3>2, ShapeStays
    <3> QED BY <3>1, <3>2, <3>3 DEF CallShape, Delivered
  <2> QED BY <2>1, <2>2
<1>7. OneLogin'
  <2>1. \A d \in Calls : call[d].kind = "login" => call[d].token # k
    BY DEF SessionInv, CallShape
  <2> QED BY <1>1, <2>1 DEF OneLogin, SessionInv
<1>8. ASSUME NEW j \in Tokens PROVE TokenShape(j)'
  BY <1>2, <1>3, <1>4 DEF SessionInv, TokenShape
<1> QED BY <1>6, <1>7, <1>8 DEF SessionInv

\* The row is deleted, and the operation has succeeded.
LEMMA ShapeDropRow == ASSUME TypeInv, SessionInv, NEW c \in Calls, DropRow(c) PROVE SessionInv'
<1>k. PICK k : k = call[c].token
  OBVIOUS
<1>0. /\ call[c] \in CallState /\ CallShape(call[c]) /\ UNCHANGED <<cluster, index>>
      /\ StoresTyped /\ k \in Tokens /\ TokenShape(k) /\ token[k] \in TokenState
      /\ \A j \in Tokens : token[j].ending \/ (\E t \in Tenants : j \in index[t].tokens) => token[j].issued
  <2>1. k \in Tokens
    BY <1>k, CallIsOK DEF DropRow, CallOK, Unplaced
  <2> QED BY <2>1, CallNumbers, StoresAre DEF SessionInv, DropRow, Env, Settings, TokenShape, StoresTyped
<1>1. \A j \in Tokens : row'[j].held => row[j].held
  <2>1. row' = row \/ row' = [row EXCEPT ![k] = NoRow]
    BY <1>k DEF DropRow
  <2>2. row \in [Tokens -> [held : BOOLEAN, active : Nat]]
    BY <1>0 DEF StoresTyped
  <2> QED BY <2>1, <2>2 DEF NoRow
<1>2. CASE token' = token /\ (Ends(c) \/ (call[c].kind \in {"access", "refresh"} /\ Goto(c, "no")))
  <2>1. \A j \in Tokens : SameToken(j)
    BY <1>2 DEF SameToken
  <2> QED BY <1>0, <1>1, <1>2, <2>1, ShapeEnds, ShapeGoto
<1>3. ASSUME NEW e \in {"revoked", "switched"}, NEW old,
             old = token[k].ended, token' = [token EXCEPT ![k].ended = IF e = "revoked" \/ old = "no" THEN e ELSE old],
             call[c].kind \in {"revoke", "switch"}, Ends(c), row' = [row EXCEPT ![k] = NoRow]
      PROVE  SessionInv'
  <2>1. /\ \A j \in Tokens : /\ Grows(j) /\ token'[j].issued = token[j].issued
                             /\ token'[j].stored = token[j].stored
                             /\ token'[j].ending = token[j].ending
        /\ \A j \in Tokens \ {k} : token'[j].ended = token[j].ended
    <3>1. /\ \A j \in Tokens \ {k} : token'[j] = token[j]
          /\ token'[k] = [token[k] EXCEPT !.ended = IF e = "revoked" \/ old = "no" THEN e ELSE old]
      BY <1>0, <1>3 DEF StoresTyped
    <3>2. /\ token'[k].issued = token[k].issued /\ token'[k].stored = token[k].stored
          /\ token'[k].ending = token[k].ending /\ token'[k].ended # "no"
      BY <1>0, <1>3, <3>1 DEF TokenState
    <3> QED BY <3>1, <3>2 DEF Grows
  <2>2. Delivered(k) /\ ~row'[k].held
    BY <1>k, <1>0, <1>3 DEF CallShape, NoRow, StoresTyped
  <2>3. IdleCall.token \notin Tokens
    BY DEF IdleCall
  <2>4. \A j \in Tokens : row'[j].held => row[j].held \/ token'[j].ended = "no"
    BY <1>1
  <2> QED BY <1>0, <1>3, <2>1, <2>2, <2>3, <2>4, IdleShape, ShapeStep DEF Ends
<1>4. ASSUME NEW j \in Tokens \ {k}, ~token[j].issued, call[c].kind = "switch",
             token' = [token EXCEPT ![k].ended = IF @ = "no" THEN "switched" ELSE @,
                                    ![j] = Signed(call[c].ttl)],
             Becomes(c, [call[c] EXCEPT !.pc = FirstStore, !.kind = "login", !.token = j]),
             row' = [row EXCEPT ![k] = NoRow]
      PROVE  SessionInv'
  <2> DEFINE b == [call[c] EXCEPT !.pc = FirstStore, !.kind = "login", !.token = j]
  <2>1. /\ b.pc \in {"hot", "row"} /\ b.kind = "login" /\ b.token = j
        /\ b.todo = call[c].todo /\ b.due = call[c].due /\ b.idx = call[c].idx
    BY <1>0 DEF CallState, FirstStore
  <2>2. Becomes(c, b)
    BY <1>4
  <2> HIDE DEF b
  <2>3. /\ token'[j] = Signed(call[c].ttl)
        /\ token'[k] = [token[k] EXCEPT !.ended = IF @ = "no" THEN "switched" ELSE @]
        /\ \A i \in Tokens \ {j, k} : token'[i] = token[i]
    BY <1>0, <1>4 DEF StoresTyped
  <2>4. Delivered(k) /\ ~row'[k].held
    BY <1>k, <1>0, <1>4 DEF CallShape, NoRow, StoresTyped
  <2>5. /\ token'[k].issued = token[k].issued /\ token'[k].stored = token[k].stored
        /\ token'[k].ending = token[k].ending /\ token'[k].ended # "no"
    BY <1>0, <2>3 DEF TokenState
  <2>6. \A i \in Tokens \ {j} :
          /\ Grows(i) /\ token'[i].issued = token[i].issued
          /\ token'[i].stored = token[i].stored /\ token'[i].ending = token[i].ending
          /\ token'[i].ended # "no" /\ token[i].ended = "no" => Delivered(i) /\ ~row'[i].held
    BY <2>3, <2>4, <2>5 DEF Grows
  <2>7. \A i \in Tokens : /\ i \in b.todo => token[i].ending
                          /\ i \in b.due => token[i].stored
                          /\ i \in b.idx => token[i].issued
    BY <1>0, <2>1 DEF CallShape
  <2>8. j \in Tokens /\ ~token[j].issued /\ token'[j] = Signed(call[c].ttl) /\ UNCHANGED <<cluster, index>>
    BY <1>0, <1>4, <2>3
  <2> QED BY <1>1, <2>1, <2>2, <2>6, <2>7, <2>8, ShapeIssue
<1>5. \/ token' = token /\ (Ends(c) \/ (call[c].kind \in {"access", "refresh"} /\ Goto(c, "no")))
      \/ /\ call[c].kind = "revoke" /\ Ends(c) /\ row' = [row EXCEPT ![k] = NoRow]
         /\ token' = [token EXCEPT ![k].ended = "revoked"]
      \/ /\ call[c].kind = "switch" /\ Ends(c) /\ row' = [row EXCEPT ![k] = NoRow]
         /\ token' = [token EXCEPT ![k].ended = IF @ = "no" THEN "switched" ELSE @]
      \/ \E j \in Tokens \ {k} :
           /\ ~token[j].issued /\ call[c].kind = "switch" /\ row' = [row EXCEPT ![k] = NoRow]
           /\ token' = [token EXCEPT ![k].ended = IF @ = "no" THEN "switched" ELSE @,
                                     ![j] = Signed(call[c].ttl)]
           /\ Becomes(c, [call[c] EXCEPT !.pc = FirstStore, !.kind = "login", !.token = j])
  BY <1>k DEF DropRow
<1>6. CASE /\ call[c].kind = "revoke" /\ Ends(c) /\ row' = [row EXCEPT ![k] = NoRow]
           /\ token' = [token EXCEPT ![k].ended = "revoked"]
  <2>1. PICK old : old = token[k].ended
    OBVIOUS
  <2> QED BY <1>3, <1>6, <2>1
<1>7. CASE /\ call[c].kind = "switch" /\ Ends(c) /\ row' = [row EXCEPT ![k] = NoRow]
           /\ token' = [token EXCEPT ![k].ended = IF @ = "no" THEN "switched" ELSE @]
  <2>1. PICK old : old = token[k].ended
    OBVIOUS
  <2>2. token' = [token EXCEPT ![k].ended = IF "switched" = "revoked" \/ old = "no" THEN "switched" ELSE old]
    BY <1>7, <2>1
  <2> QED BY <1>3, <1>7, <2>1, <2>2
<1> QED BY <1>2, <1>4, <1>5, <1>6, <1>7

\* A ticket is claimed and read; a password reset takes the next token.
LEMMA ShapeTicket ==
    ASSUME TypeInv, SessionInv, NEW c \in Calls, ReadTicket(c) \/ NextToken(c)
    PROVE  SessionInv'
<1>0. /\ call[c] \in CallState /\ CallShape(call[c]) /\ UNCHANGED <<cluster, token, row, index>>
      /\ \A j \in Tokens : (\E t \in Tenants : j \in index[t].tokens) => token[j].issued
  BY CallNumbers DEF SessionInv, ReadTicket, NextToken, TokenShape, Env, Settings, store
<1>1. \A k \in Tokens : SameToken(k)
  BY <1>0 DEF SameToken
<1>2. CASE Ends(c)
  BY <1>0, <1>1, <1>2, ShapeEnds
<1>3. CASE ReadTicket(c) /\ Goto(c, "consume")
  <2> DEFINE b == [call[c] EXCEPT !.pc = "consume"]
  <2>1. /\ b.pc = "consume" /\ b.kind = call[c].kind /\ b.token = call[c].token
        /\ b.todo = call[c].todo /\ b.due = call[c].due /\ b.idx = call[c].idx /\ b.dead = call[c].dead
    BY <1>0 DEF CallState
  <2> HIDE DEF b
  <2>2. CallShape(b)
    BY <1>0, <1>3, <2>1 DEF CallShape, ReadTicket
  <2> QED BY <1>0, <1>1, <1>3, <2>1, <2>2, ShapeQuiet DEF Goto, b
<1>4. CASE NextToken(c) /\ Goto(c, "dropRows")
  BY <1>0, <1>1, <1>4, ShapeGoto DEF NextToken, CallShape
<1>5. ASSUME NextToken(c), NEW k \in call[c].todo,
             Becomes(c, [call[c] EXCEPT !.pc = "dropHot", !.token = k, !.todo = @ \ {k}])
      PROVE  SessionInv'
  <2> DEFINE b == [call[c] EXCEPT !.pc = "dropHot", !.token = k, !.todo = @ \ {k}]
  <2>1. /\ b.pc = "dropHot" /\ b.kind = "reset" /\ b.token = k
        /\ b.todo = call[c].todo \ {k} /\ b.due = call[c].due /\ b.idx = call[c].idx
    BY <1>0, <1>5 DEF CallState, NextToken, CallShape
  <2> HIDE DEF b
  <2>2. k \in Tokens
    BY <1>5, CallIsOK
  <2>3. CallShape(b)
    BY <1>0, <1>5, <2>1, <2>2 DEF CallShape
  <2> QED BY <1>0, <1>1, <1>5, <2>1, <2>3, ShapeQuiet DEF b
<1> QED BY <1>2, <1>3, <1>4, <1>5 DEF ReadTicket, NextToken

\* What the steps of a password reset note on every token.
LEMMA ResetTokens ==
    ASSUME TypeInv, NEW k \in Tokens, NEW e \in BOOLEAN, NEW d,
           \/ token'[k] = [token[k] EXCEPT !.ending = @ \/ e]
           \/ token'[k] = [token[k] EXCEPT !.ending = @ \/ e, !.ended = IF d /\ @ = "no" THEN "reset" ELSE @]
    PROVE  /\ Grows(k) /\ token'[k].issued = token[k].issued /\ token'[k].stored = token[k].stored
           /\ token'[k].ending <=> token[k].ending \/ e
           /\ token'[k].ended # "no" /\ token[k].ended = "no" => d
<1>1. token[k] \in TokenState
  BY DEF TypeInv
<1>2. /\ token'[k].issued = token[k].issued /\ token'[k].stored = token[k].stored
      /\ token'[k].ending = (token[k].ending \/ e)
      /\ \/ token'[k].ended = token[k].ended
         \/ token'[k].ended = IF d /\ token[k].ended = "no" THEN "reset" ELSE token[k].ended
  BY <1>1 DEF TokenState
<1> QED BY <1>2 DEF Grows

\* A ticket is deleted; then the caller logs in or resets the password.
LEMMA ShapeConsume == ASSUME TypeInv, SessionInv, NEW c \in Calls, Consume(c) PROVE SessionInv'
<1>0. /\ call[c] \in CallState /\ CallShape(call[c]) /\ UNCHANGED <<cluster, row, index>> /\ StoresTyped
      /\ \A j \in Tokens : token[j].ending \/ (\E t \in Tenants : j \in index[t].tokens) => token[j].issued
      /\ \A j \in Tokens : token[j].stored => token[j].issued
      /\ \A j \in Tokens : token[j].stored \in BOOLEAN
  <2>1. \A j \in Tokens : token[j].stored => Delivered(j)
    BY DEF SessionInv, TokenShape
  <2> QED BY <2>1, CallNumbers, StoresAre, TokenTyped
          DEF SessionInv, Consume, TokenShape, Env, Settings, store, Delivered
<1>1. CASE token' = token /\ Ends(c)
  BY <1>0, <1>1, ShapeEnds DEF SameToken
<1>2. ASSUME NEW k \in Tokens, Issue(k, timeout), call[c].kind = "login",
             Becomes(c, [call[c] EXCEPT !.pc = FirstStore, !.token = k, !.ttl = timeout])
      PROVE  SessionInv'
  <2> DEFINE b == [call[c] EXCEPT !.pc = FirstStore, !.token = k, !.ttl = timeout]
  <2>1. /\ b.pc \in {"hot", "row"} /\ b.kind = "login" /\ b.token = k
        /\ b.todo = call[c].todo /\ b.due = call[c].due /\ b.idx = call[c].idx
    BY <1>0, <1>2 DEF CallState, FirstStore
  <2>2. Becomes(c, b)
    BY <1>2
  <2> HIDE DEF b
  <2>3. /\ ~token[k].issued /\ token'[k] = Signed(timeout)
        /\ \A j \in Tokens \ {k} : token'[j] = token[j]
    BY <1>0, <1>2 DEF StoresTyped, Issue
  <2>4. \A j \in Tokens \ {k} :
          /\ Grows(j) /\ token'[j].issued = token[j].issued
          /\ token'[j].stored = token[j].stored /\ token'[j].ending = token[j].ending
          /\ token'[j].ended # "no" /\ token[j].ended = "no" => Delivered(j) /\ ~row'[j].held
    BY <2>3 DEF Grows
  <2>5. \A j \in Tokens : /\ j \in b.todo => token[j].ending
                          /\ j \in b.due => token[j].stored
                          /\ j \in b.idx => token[j].issued
    BY <1>0, <2>1 DEF CallShape
  <2>6. /\ UNCHANGED <<cluster, index>>
        /\ \A j \in Tokens : row'[j].held => row[j].held
    BY <1>0
  <2> QED BY <2>1, <2>2, <2>3, <2>4, <2>5, <2>6, ShapeIssue
<1>3. ASSUME NEW pc \in {"read", "dropRows"}, call[c].kind = "reset",
             token' = [k \in Tokens |-> [token[k] EXCEPT !.ending = @ \/ k \in Stored]],
             Becomes(c, [call[c] EXCEPT !.pc = pc, !.ttl = timeout,
                                        !.due = Stored])
      PROVE  SessionInv'
  <2>1. \A k \in Tokens : SameToken(k)
    <3> TAKE k \in Tokens
    <3>1. token'[k] = [token[k] EXCEPT !.ending = @ \/ k \in Stored]
      BY <1>3
    <3>2. /\ Grows(k) /\ token'[k].issued = token[k].issued /\ token'[k].stored = token[k].stored
          /\ token'[k].ending <=> token[k].ending \/ k \in Stored
      BY <1>0, <3>1, ResetTokens
    <3>3. token'[k].ended = token[k].ended
      BY <1>0, <3>1 DEF StoresTyped, TokenState
    <3> QED BY <1>0, <3>2, <3>3 DEF SameToken, Grows, Stored, OfPlatform
  <2> DEFINE b == [call[c] EXCEPT !.pc = pc, !.ttl = timeout, !.due = Stored]
  <2>2. /\ b.pc = pc /\ b.kind = "reset" /\ b.token = call[c].token
        /\ b.todo = call[c].todo /\ b.idx = call[c].idx /\ b.due = Stored
    BY <1>0, <1>3 DEF CallState
  <2>3. Becomes(c, b)
    BY <1>3
  <2> HIDE DEF b
  <2>4. CallShape(b)
    BY <1>0, <1>3, <2>2 DEF CallShape, Stored, OfPlatform
  <2> QED BY <1>0, <2>1, <2>2, <2>3, <2>4, ShapeQuiet
<1> QED BY <1>1, <1>2, <1>3 DEF Consume

\* A password reset reads the index, and in the end deletes every row.
LEMMA ShapeReset ==
    ASSUME TypeInv, SessionInv, NEW c \in Calls, ReadIndex(c) \/ DropRows(c) PROVE SessionInv'
<1>0. /\ call[c] \in CallState /\ CallShape(call[c]) /\ UNCHANGED <<cluster, index>> /\ StoresTyped
      /\ \A j \in Tokens : token[j].ending \/ (\E t \in Tenants : j \in index[t].tokens) => token[j].issued
      /\ \A j \in Tokens : token[j].issued \in BOOLEAN
  BY CallNumbers, StoresAre, TokenTyped
     DEF SessionInv, ReadIndex, DropRows, TokenShape, Env, Settings, store
<1>1. CASE token' = token /\ row' = row /\ Ends(c)
  BY <1>0, <1>1, ShapeEnds DEF SameToken
<1>2. CASE /\ call[c].pc = "read" /\ row' = row
           /\ token' = [k \in Tokens |-> [token[k] EXCEPT !.ending = @ \/ k \in IndexTokens(Platform)]]
           /\ Becomes(c, [call[c] EXCEPT !.pc = "todo", !.todo = IndexTokens(Platform)])
  <2>1. PICK b : b = [call[c] EXCEPT !.pc = "todo", !.todo = IndexTokens(Platform)]
    OBVIOUS
  <2>2. PICK index0 : index0 = IndexTokens(Platform)
    OBVIOUS
  <2>3. /\ b.pc = "todo" /\ b.kind = "reset" /\ b.token = call[c].token
        /\ b.todo = index0 /\ b.idx = call[c].idx /\ b.due = call[c].due
    BY <1>0, <1>2, <2>1, <2>2 DEF CallState, CallShape
  <2>4. \A k \in Tokens : /\ Grows(k) /\ token'[k].issued = token[k].issued
                          /\ token'[k].stored = token[k].stored
                          /\ token'[k].ended = token[k].ended
                          /\ token'[k].ending <=> token[k].ending \/ k \in index0
    <3> TAKE k \in Tokens
    <3>1. token'[k] = [token[k] EXCEPT !.ending = @ \/ k \in index0]
      BY <1>2, <2>2
    <3>2. /\ Grows(k) /\ token'[k].issued = token[k].issued /\ token'[k].stored = token[k].stored
          /\ token'[k].ending <=> token[k].ending \/ k \in index0
      BY <3>1, ResetTokens
    <3>3. token'[k].ended = token[k].ended
      BY <1>0, <3>1 DEF StoresTyped, TokenState
    <3> QED BY <3>2, <3>3
  <2>5. \A k \in Tokens : token'[k].ending \/ (\E t \in Tenants : k \in index'[t].tokens) => token[k].issued
    BY <1>0, <2>2, <2>4 DEF IndexTokens
  <2>6. CallShape(b)'
    <3>1. /\ call[c].token \in Tokens => token[call[c].token].ending
          /\ \A k \in Tokens : /\ k \in call[c].due => token[k].stored
                               /\ k \in call[c].idx => token[k].issued
      BY <1>0, <1>2 DEF CallShape
    <3>2. /\ b.token \in Tokens => token'[b.token].ending
          /\ \A k \in Tokens : /\ k \in b.todo => token'[k].ending
                               /\ k \in b.due => token'[k].stored
                               /\ k \in b.idx => token'[k].issued
      <4>1. \A k \in Tokens : /\ token[k].ending => token'[k].ending
                              /\ token[k].stored => token'[k].stored
                              /\ token[k].issued => token'[k].issued
                              /\ k \in index0 => token'[k].ending
        BY <2>4 DEF Grows
      <4> QED BY <2>3, <3>1, <4>1
    <3>3. /\ b.kind = "reset" /\ b.pc = "todo"
      BY <2>3
    <3> QED BY <3>2, <3>3 DEF CallShape
  <2>7. Becomes(c, b) /\ cluster' = cluster
    BY <1>0, <1>2, <2>1
  <2>8. \A k \in Tokens : row'[k].held => row[k].held \/ token'[k].ended = "no"
    BY <1>2
  <2> QED BY <2>3, <2>4, <2>5, <2>6, <2>7, <2>8, ShapeStep
<1>3. CASE /\ DropRows(c) /\ Ends(c)
           /\ row' = [k \in Tokens |-> IF k \in OfPlatform THEN NoRow ELSE row[k]]
           /\ token' = [k \in Tokens |-> IF k \in OfPlatform THEN Reset(c, k) ELSE token[k]]
  <2>1. \A k \in Tokens : /\ row'[k].held => row[k].held /\ k \notin OfPlatform
                          /\ k \notin OfPlatform => token'[k] = token[k]
    BY <1>3 DEF NoRow
  <2>2. \A k \in Tokens : /\ Grows(k) /\ token'[k].issued = token[k].issued
                          /\ token'[k].stored = token[k].stored
                          /\ token'[k].ending => token[k].ending \/ token[k].issued
                          /\ token'[k].ended # "no" /\ token[k].ended = "no" =>
                               k \in call[c].due /\ k \in OfPlatform
    <3> TAKE k \in Tokens
    <3>1. CASE k \in OfPlatform
      <4>1. token'[k] = [token[k] EXCEPT
                   !.ending = @ \/ token[k].issued,
                   !.ended = IF k \in call[c].due /\ @ = "no" THEN "reset" ELSE @]
        BY <1>3, <3>1 DEF Reset
      <4> QED BY <1>0, <3>1, <4>1, ResetTokens
    <3>2. CASE k \notin OfPlatform
      BY <2>1, <3>2 DEF Grows
    <3> QED BY <3>1, <3>2
  <2>3. \A k \in Tokens : k \in call[c].due => Delivered(k)
    BY <1>0 DEF CallShape, SessionInv, TokenShape
  <2>4. \A k \in Tokens : token'[k].ending \/ (\E t \in Tenants : k \in index'[t].tokens) => token[k].issued
    BY <1>0, <2>2
  <2>5. IdleCall.token \notin Tokens
    BY DEF IdleCall
  <2>6. \A k \in Tokens : token'[k].ended # "no" /\ token[k].ended = "no" =>
          Delivered(k) /\ ~row'[k].held
    BY <2>1, <2>2, <2>3
  <2>7. \A k \in Tokens : row'[k].held => row[k].held
    BY <2>1
  <2>8. \A k \in Tokens : Grows(k) /\ token'[k].issued = token[k].issued
                          /\ token'[k].stored = token[k].stored
    BY <2>2
  <2>9. Becomes(c, IdleCall) /\ cluster' = cluster
    BY <1>0, <1>3 DEF Ends
  <2> QED BY <2>4, <2>5, <2>6, <2>7, <2>8, <2>9, IdleShape, ShapeStep
<1> QED BY <1>1, <1>2, <1>3 DEF ReadIndex, DropRows, store

\* A request begins.  On a single node one whose session has ended finds no row.
LEMMA ShapeBegin == ASSUME TypeInv, SessionInv, NEW c \in Calls, Begin(c) PROVE SessionInv'
<1>0. /\ StoresTyped /\ IdleCall.kind = "login" /\ IdleCall.token = NoToken
      /\ IdleCall.todo = {} /\ IdleCall.due = {} /\ IdleCall.idx = {}
      /\ \A j \in Tokens : (\E t \in Tenants : j \in index[t].tokens) => token[j].issued
  BY StoresAre DEF IdleCall, SessionInv, TokenShape
<1>1. ASSUME NEW n \in Nodes, NEW k \in Tokens, Login(c, n, k) PROVE SessionInv'
  <2> DEFINE b == [IdleCall EXCEPT !.pc = FirstStore, !.kind = "login", !.node = n,
                                   !.token = k, !.ttl = timeout, !.since = now]
  <2>1. /\ b.pc \in {"hot", "row"} /\ b.kind = "login" /\ b.token = k
        /\ b.todo = {} /\ b.due = {} /\ b.idx = {}
    BY DEF IdleCall, FirstStore
  <2>2. Becomes(c, b) /\ UNCHANGED <<cluster, row, index>>
    BY <1>1 DEF Login, Settings, store
  <2>3. /\ ~token[k].issued /\ token'[k] = Signed(timeout)
        /\ \A j \in Tokens \ {k} : token'[j] = token[j]
    BY <1>0, <1>1 DEF StoresTyped, Issue, Login
  <2> HIDE DEF b
  <2>4. \A j \in Tokens \ {k} :
          /\ Grows(j) /\ token'[j].issued = token[j].issued
          /\ token'[j].stored = token[j].stored /\ token'[j].ending = token[j].ending
          /\ token'[j].ended # "no" /\ token[j].ended = "no" => Delivered(j) /\ ~row'[j].held
    BY <2>3 DEF Grows
  <2> QED BY <2>1, <2>2, <2>3, <2>4, ShapeIssue
<1>2. ASSUME NEW n \in Nodes, NEW k \in Tokens, Revoke(c, n, k) PROVE SessionInv'
  <2> DEFINE b == [IdleCall EXCEPT !.pc = "mark", !.kind = "revoke", !.node = n,
                                   !.token = k, !.ttl = timeout, !.since = now]
  <2>1. /\ b.pc = "mark" /\ b.kind = "revoke" /\ b.token = k
        /\ b.todo = {} /\ b.due = {} /\ b.idx = {}
    BY DEF IdleCall
  <2>2. /\ Becomes(c, b) /\ UNCHANGED <<cluster, row, index>> /\ Delivered(k)
        /\ token' = [token EXCEPT ![k].ending = TRUE]
    BY <1>2 DEF Revoke, Settings, store
  <2> HIDE DEF b
  <2> QED BY <2>1, <2>2, ShapeEnding
<1>3. ASSUME NEW n \in Nodes, NEW k \in Tokens, NEW kind \in {"access", "refresh"}, Parse(c, n, k, kind)
      PROVE  SessionInv'
  <2> DEFINE b == [IdleCall EXCEPT !.pc = "get", !.kind = kind, !.node = n, !.token = k,
                                   !.ttl = timeout, !.since = now, !.dead = token[k].ended]
  <2>1. /\ b.pc = "get" /\ b.kind = kind /\ b.token = k /\ b.dead = token[k].ended
        /\ b.todo = {} /\ b.due = {} /\ b.idx = {}
    BY DEF IdleCall
  <2>2. /\ Delivered(k) /\ UNCHANGED <<cluster, row, index, token>>
        /\ call' = call \/ Becomes(c, b)
    BY <1>3 DEF Parse, Settings, store
  <2> HIDE DEF b
  <2>3. \A j \in Tokens : SameToken(j)
    BY <2>2 DEF SameToken
  <2>4. CASE call' = call
    <3>1. call' = [call EXCEPT ![c] = call[c]] /\ CallShape(call[c])
      BY <2>4, CallNumbers DEF SessionInv
    <3> QED BY <1>0, <2>2, <2>3, <3>1, ShapeQuiet DEF Becomes
  <2>5. CASE Becomes(c, b)
    <3>1. CallShape(b)
      BY <2>1, <2>2 DEF CallShape
    <3> QED BY <1>0, <2>1, <2>2, <2>3, <2>5, <3>1, ShapeQuiet
  <2> QED BY <2>2, <2>4, <2>5
<1>4. ASSUME NEW n \in Nodes, NEW t \in Tickets, Claim(c, n, t) PROVE SessionInv'
  <2> DEFINE b == [IdleCall EXCEPT !.pc = "claim", !.kind = ticket[t].kind, !.node = n, !.tkt = t,
                     !.claim = (IF now < ticket[t].countUntil THEN ticket[t].count ELSE 0) + 1,
                     !.since = now]
  <2>1. /\ b.pc = "claim" /\ b.kind = ticket[t].kind /\ b.token = NoToken
        /\ b.todo = {} /\ b.due = {} /\ b.idx = {}
    BY DEF IdleCall
  <2>2. UNCHANGED <<cluster, row, index, token>> /\ Becomes(c, b)
    BY <1>4 DEF Claim, Settings, store
  <2>3. \A j \in Tokens : SameToken(j)
    BY <2>2 DEF SameToken
  <2>4. ticket[t].kind \in {"login", "reset"}
    BY <1>0 DEF StoresTyped, TicketState
  <2> HIDE DEF b
  <2>5. CallShape(b)
    BY <2>1, <2>4 DEF CallShape
  <2> QED BY <1>0, <2>1, <2>2, <2>3, <2>5, ShapeQuiet
<1> QED BY <1>1, <1>2, <1>3, <1>4 DEF Begin

\* What no call does: a restart, a cleanup, the clock.
LEMMA ShapeOther ==
    ASSUME TypeInv, SessionInv, cluster' = cluster,
           \A k \in Tokens : SameToken(k),
           \A k \in Tokens : row'[k].held => row[k].held,
           \A k \in Tokens : (\E t \in Tenants : k \in index'[t].tokens) => token[k].issued,
           \A c \in Calls : call'[c] = IdleCall \/ call'[c] = call[c]
    PROVE  SessionInv'
<1>1. IdleCall.token \notin Tokens
  BY DEF IdleCall
<1>2. \A k \in Tokens : Grows(k)
  BY DEF Grows, SameToken
<1>3. \A k \in Tokens : Delivered(k) => Delivered(k)'
  BY <1>1 DEF Delivered, SameToken
<1>4. \A d \in Calls : CallShape(call[d])'
  <2> TAKE d \in Calls
  <2>1. PICK x : x = call'[d]
    OBVIOUS
  <2>2. CallShape(x)
    BY <2>1, IdleShape DEF SessionInv
  <2>3. CallShape(x)'
    BY <1>2, <1>3, <2>2, ShapeStays
  <2> QED BY <2>1, <2>3 DEF CallShape, Delivered
<1>5. OneLogin'
  BY <1>1 DEF OneLogin, SessionInv
<1>6. ASSUME NEW k \in Tokens PROVE TokenShape(k)'
  BY <1>3 DEF SessionInv, TokenShape, SameToken
<1> QED BY <1>4, <1>5, <1>6 DEF SessionInv

LEMMA SessionInvariant == Spec => []SessionInv
<1>1. Init => SessionInv
  <2> SUFFICES ASSUME Init PROVE SessionInv
    OBVIOUS
  <2>1. \A c \in Calls : CallShape(call[c])
    BY IdleShape DEF Init
  <2>2. OneLogin
    BY DEF OneLogin, Init, IdleCall
  <2>3. ASSUME NEW k \in Tokens PROVE TokenShape(k)
    BY DEF Init, NoTokenState, NoIndex, TokenShape
  <2> QED BY <2>1, <2>2, <2>3 DEF SessionInv
<1>2. TypeInv /\ SessionInv /\ [Next]_vars => SessionInv'
  <2> SUFFICES ASSUME TypeInv, SessionInv, [Next]_vars PROVE SessionInv'
    OBVIOUS
  <2>0. \A k \in Tokens : (\E t \in Tenants : k \in index[t].tokens) => token[k].issued
    BY DEF SessionInv, TokenShape
  <2>1. ASSUME NEW c \in Calls, Begin(c) PROVE SessionInv'
    BY <2>1, ShapeBegin
  <2>2. ASSUME NEW c \in Calls, Step(c) PROVE SessionInv'
    BY <2>2, ShapeSession, ShapeSetRow, ShapeTouch, ShapeRefresh, ShapeSwitch, ShapeDrop,
       ShapeDropRow, ShapeTicket, ShapeConsume, ShapeReset DEF Step
  <2>3. CASE \/ \E t \in Tickets, kind \in {"login", "reset"} : CreateTicket(t, kind)
             \/ \E k \in Tokens : CleanupRow(k)
             \/ \E t \in Timeouts : ChangeTimeout(t)
             \/ \E n \in Nodes : Restart(n)
             \/ UNCHANGED vars
    <3>1. UNCHANGED <<cluster, token, index>>
      BY <2>3 DEF CreateTicket, CleanupRow, ChangeTimeout, Restart, Env, Settings, store, vars
    <3>2. \A k \in Tokens : row'[k].held => row[k].held
      <4>1. row' = row \/ \E k \in Tokens : row' = [row EXCEPT ![k] = NoRow]
        BY <2>3 DEF CreateTicket, CleanupRow, ChangeTimeout, Restart, Env, store, vars
      <4>2. row \in [Tokens -> [held : BOOLEAN, active : Nat]] /\ ~NoRow.held
        BY DEF TypeInv, NoRow
      <4> QED BY <4>1, <4>2
    <3>3. \A k \in Tokens : SameToken(k)
      BY <3>1 DEF SameToken
    <3>4. \A c \in Calls : call'[c] = IdleCall \/ call'[c] = call[c]
      BY <2>3 DEF CreateTicket, CleanupRow, ChangeTimeout, Restart, vars
    <3> QED BY <2>0, <3>1, <3>2, <3>3, <3>4, ShapeOther
  <2>4. CASE Tick
    <3>1. \A k \in Tokens : SameToken(k)
      <4> TAKE k \in Tokens
      <4>1. token[k] \in TokenState /\ \E e : token'[k] = [token[k] EXCEPT !.lapsed = e]
        <5> DEFINE e == token[k].issued /\ (token[k].lapsed \/ token[k].used + timeout <= now' + Slack)
        <5>1. token'[k] = [token[k] EXCEPT !.lapsed = e]
          BY <2>4 DEF Tick
        <5>2. token[k] \in TokenState
          BY DEF TypeInv
        <5> HIDE DEF e
        <5> QED BY <5>1, <5>2
      <4> QED BY <4>1 DEF TokenState, SameToken
    <3>2. UNCHANGED <<cluster, row, index, call>>
      BY <2>4 DEF Tick, store
    <3> QED BY <2>0, <3>1, <3>2, ShapeOther
  <2> QED BY <2>1, <2>2, <2>3, <2>4 DEF Next
<1> QED BY <1>1, <1>2, TypeInvariant, PTL DEF Spec

\* On a single node no request is accepted that began after the end of its session,
\* be it by a logout, a tenant switch or, when it is one of the platform, a password
\* reset, however long requests take, whatever fails and whenever the process forgets
\* its markers in a restart.
THEOREM SingleNodeStaysOutThm == Spec => []SingleNodeStaysOut
<1>1. SessionInv => SingleNodeStaysOut
  <2> SUFFICES ASSUME SessionInv, NEW c \in Calls, Accepted(c), ~cluster PROVE call[c].dead = "no"
    BY DEF SingleNodeStaysOut
  <2> QED BY DEF SessionInv, CallShape, Accepted
<1> QED BY <1>1, SessionInvariant, PTL

-----------------------------------------------------------------------------
(* A session that is used is kept, as long as nothing fails.               *)

\* A token that is refused with good reason, and for ever.
Gone(k) == token[k].ending \/ token[k].lapsed \/ (Delivered(k) /\ ~token[k].stored)

\* The session store has noted every use of a token, and does not find it inactive.
Kept(k) ==
    IF cluster
    THEN /\ hot[k].until = hot[k].active + timeout
         /\ token[k].used <= hot[k].active
         /\ now < hot[k].until
    ELSE /\ row[k].held
         /\ token[k].used <= row[k].active + RowWindow
         /\ now < row[k].active + timeout

\* It has noted a use at time t.
Noted(k, t) == IF cluster THEN t <= hot[k].active ELSE t <= row[k].active + RowWindow

KeptCall(b) ==
    /\ b.pc # "idle" => b.since <= now
    /\ b.pc \notin {"idle", "claim", "consume"} => b.ttl = timeout
    /\ b.pc \in {"hot", "addRead", "addWrite"} => cluster
    /\ b.kind = "login" => b.pc \notin {"undo", "dropHot", "dropRead", "dropWrite", "dropRow"}
    /\ b.pc \in {"addRead", "addWrite", "user"} \/ (cluster /\ b.pc \in {"row", "touch"}) =>
         Gone(b.token) \/ (Kept(b.token) /\ Noted(b.token, b.since))
    /\ b.kind \in {"access", "refresh"}
         /\ b.pc \in {"dropHot", "dropRead", "dropWrite", "dropRow", "no"} => Gone(b.token)

KeptToken(k) ==
    /\ token[k].used <= now /\ hot[k].active <= now /\ row[k].active <= now
    /\ token[k].stored => Gone(k) \/ Kept(k)

KeptNow == (\A c \in Calls : KeptCall(call[c])) /\ \A k \in Tokens : KeptToken(k)

KeptInv == faults = 0 => KeptNow

\* A step leaves of a token what the calls on their way rely on.
Better(k) ==
    /\ Gone(k) => Gone(k)'
    /\ Kept(k) => Gone(k)' \/ Kept(k)'
    /\ \A t \in Nat : Kept(k) /\ Noted(k, t) => Gone(k)' \/ Noted(k, t)'

\* A step that uses, creates and ends no session.
SameUse(k) ==
    /\ token'[k].issued = token[k].issued /\ token'[k].stored = token[k].stored
    /\ token'[k].used = token[k].used /\ token'[k].lapsed = token[k].lapsed
    /\ token[k].ending => token'[k].ending

LEMMA TokenNumbers ==
    ASSUME TypeInv, NEW k \in Tokens
    PROVE  /\ token[k] \in TokenState /\ token[k].used \in Nat
           /\ hot[k].until \in Nat /\ hot[k].active \in Nat /\ row[k].active \in Nat
           /\ row[k] \in [held : BOOLEAN, active : Nat]
           /\ timeout \in Nat /\ timeout > 0 /\ now \in Nat /\ RowWindow \in Nat
BY DEF TypeInv, TokenState

LEMMA IdleKept == KeptCall(IdleCall) /\ KeptCall(IdleCall)'
BY DEF KeptCall, IdleCall

LEMMA GoneStays ==
    ASSUME NEW k, Gone(k), token[k].ending => token'[k].ending,
           token[k].lapsed => token'[k].lapsed,
           Delivered(k) /\ ~token[k].stored => Delivered(k)' /\ ~token'[k].stored
    PROVE  Gone(k)'
BY DEF Gone

LEMMA BetterSame ==
    ASSUME NEW k \in Tokens, SameUse(k), Delivered(k) => Delivered(k)',
           hot'[k] = hot[k], row'[k] = row[k], UNCHANGED <<now, cluster, timeout>>
    PROVE  Better(k)
<1>1. Gone(k) => Gone(k)'
  BY GoneStays DEF SameUse
<1>2. Kept(k) => Kept(k)'
  BY DEF Kept, SameUse
<1>3. \A t \in Nat : Noted(k, t) => Noted(k, t)'
  BY DEF Noted
<1> QED BY <1>1, <1>2, <1>3 DEF Better

\* A token that is gone stays so, whatever becomes of its session.
LEMMA BetterGone ==
    ASSUME NEW k, Gone(k)' PROVE Better(k)
BY DEF Better

\* A call that relies on the session of a token has one that was issued.
OnIssued(b) ==
    b.kind \in {"access", "refresh"} \/ b.pc \in {"addRead", "addWrite", "row", "touch", "user"} =>
      b.token \in Tokens /\ token[b.token].issued

LEMMA ShapeIssued == ASSUME NEW b, CallShape(b), CallOK(b) PROVE OnIssued(b)
BY DEF CallShape, CallOK, Unplaced, Delivered, OnIssued

LEMMA KeptStays ==
    ASSUME NEW x, OnIssued(x), x.since \in Nat, KeptCall(x), now \in Nat, now' \in Nat, now <= now',
           UNCHANGED <<cluster, timeout>>, \A k \in Tokens : token[k].issued => Better(k)
    PROVE  KeptCall(x)'
<1>1. x.pc # "idle" => x.since <= now'
  BY DEF KeptCall
<1>2. /\ x.pc \notin {"idle", "claim", "consume"} => x.ttl = timeout'
      /\ x.pc \in {"hot", "addRead", "addWrite"} => cluster'
      /\ x.kind = "login" => x.pc \notin {"undo", "dropHot", "dropRead", "dropWrite", "dropRow"}
  BY DEF KeptCall
<1>3. ASSUME x.pc \in {"addRead", "addWrite", "user"} \/ (cluster' /\ x.pc \in {"row", "touch"})
      PROVE  Gone(x.token)' \/ (Kept(x.token)' /\ Noted(x.token, x.since)')
  <2>1. x.token \in Tokens /\ token[x.token].issued
    BY <1>3 DEF OnIssued
  <2>2. Gone(x.token) \/ (Kept(x.token) /\ Noted(x.token, x.since))
    BY <1>3 DEF KeptCall
  <2>3. Better(x.token)
    BY <2>1
  <2> QED BY <2>2, <2>3 DEF Better
<1>4. ASSUME x.kind \in {"access", "refresh"},
             x.pc \in {"dropHot", "dropRead", "dropWrite", "dropRow", "no"}
      PROVE  Gone(x.token)'
  <2>1. x.token \in Tokens /\ token[x.token].issued
    BY <1>4 DEF OnIssued
  <2>2. Gone(x.token) /\ Better(x.token)
    BY <1>4, <2>1 DEF KeptCall
  <2> QED BY <2>2 DEF Better
<1> QED BY <1>1, <1>2, <1>3, <1>4 DEF KeptCall

LEMMA KeptTokenStays ==
    ASSUME NEW k \in Tokens, SessionInv, KeptToken(k), token[k].issued => Better(k),
           token'[k].stored => token[k].stored,
           token'[k].used <= now', hot'[k].active <= now', row'[k].active <= now'
    PROVE  KeptToken(k)'
<1>1. token[k].stored => Better(k)
  BY DEF SessionInv, TokenShape, Delivered
<1> QED BY <1>1 DEF KeptToken, Better

\* A step of one call.
LEMMA KeptStep ==
    ASSUME TypeInv, SessionInv, KeptNow, NEW c \in Calls, NEW b, Becomes(c, b), KeptCall(b)',
           UNCHANGED <<now, cluster, timeout>>,
           \A k \in Tokens : token[k].issued => Better(k),
           \A k \in Tokens : KeptToken(k)'
    PROVE  KeptNow'
<1>1. \A d \in Calls : call'[d] = (IF d = c THEN b ELSE call[d])
  BY CallNumbers DEF Becomes
<1>2. ASSUME NEW d \in Calls PROVE KeptCall(call[d])'
  <2>1. CASE d = c
    BY <1>1, <2>1 DEF KeptCall, Gone, Kept, Noted, Delivered
  <2>2. CASE d # c
    <3>1. PICK x : x = call[d]
      OBVIOUS
    <3>2. call'[d] = x
      BY <1>1, <2>2, <3>1
    <3>3. OnIssued(x) /\ x.since \in Nat /\ KeptCall(x)
      BY <3>1, CallIsOK, ShapeIssued DEF SessionInv, KeptNow
    <3>4. now \in Nat /\ now' \in Nat /\ now <= now'
      BY DEF TypeInv
    <3>5. KeptCall(x)'
      BY <3>3, <3>4, KeptStays
    <3> QED BY <3>2, <3>5 DEF KeptCall, Gone, Kept, Noted, Delivered
  <2> QED BY <2>1, <2>2
<1> QED BY <1>2 DEF KeptNow

\* What was delivered stays so when one call goes on and no token is issued to it.
LEMMA DeliveredOn ==
    ASSUME TypeInv, NEW c \in Calls, NEW b, Becomes(c, b), NEW k \in Tokens,
           b.kind = "login" /\ b.token = k => call[c].kind = "login" /\ call[c].token = k,
           token[k].issued => token'[k].issued, Delivered(k)
    PROVE  Delivered(k)'
<1>1. \A d \in Calls : call'[d] = (IF d = c THEN b ELSE call[d])
  BY CallNumbers DEF Becomes
<1>2. token'[k].issued
  BY DEF Delivered
<1> QED BY <1>1, <1>2, DeliveredStays

\* A step that leaves the session stores and the use of every token.
LEMMA KeptQuiet ==
    ASSUME TypeInv, SessionInv, KeptNow, NEW c \in Calls, NEW b, Becomes(c, b),
           KeptCall(b), OnIssued(b), b.since \in Nat,
           b.kind = "login" /\ b.token \in Tokens =>
             call[c].kind = "login" /\ call[c].token = b.token,
           \A k \in Tokens : SameUse(k), UNCHANGED <<hot, row, now, cluster, timeout>>
    PROVE  KeptNow'
<1>1. \A k \in Tokens : Delivered(k) => Delivered(k)'
  BY DeliveredOn DEF SameUse
<1>2. \A k \in Tokens : Better(k)
  BY <1>1, BetterSame
<1>3. ASSUME NEW k \in Tokens PROVE KeptToken(k)'
  BY <1>2, KeptTokenStays DEF KeptNow, KeptToken, SameUse
<1>4. now \in Nat /\ now' \in Nat /\ now <= now'
  BY DEF TypeInv
<1>5. KeptCall(b)'
  BY <1>2, <1>4, KeptStays
<1> QED BY <1>2, <1>3, <1>5, KeptStep

LEMMA KeptEnds ==
    ASSUME TypeInv, SessionInv, KeptNow, NEW c \in Calls, Ends(c),
           \A k \in Tokens : SameUse(k), UNCHANGED <<hot, row, now, cluster, timeout>>
    PROVE  KeptNow'
<1>1. OnIssued(IdleCall) /\ IdleCall.since \in Nat /\ IdleCall.token \notin Tokens
  BY DEF OnIssued, IdleCall
<1> QED BY <1>1, IdleKept, KeptQuiet DEF Ends

\* A call that only moves on.
LEMMA KeptGoto ==
    ASSUME TypeInv, SessionInv, KeptNow, NEW c \in Calls, NEW pc, Goto(c, pc), call[c].pc # "idle",
           call[c].pc \in {"claim", "consume"} => pc \in {"claim", "consume"},
           pc \in {"hot", "addRead", "addWrite"} => cluster,
           call[c].kind = "login" => pc \notin {"undo", "dropHot", "dropRead", "dropWrite", "dropRow"},
           pc \in {"addRead", "addWrite", "user"} \/ (cluster /\ pc \in {"row", "touch"}) =>
             Gone(call[c].token) \/ (Kept(call[c].token) /\ Noted(call[c].token, call[c].since)),
           call[c].kind \in {"access", "refresh"}
             /\ pc \in {"dropHot", "dropRead", "dropWrite", "dropRow", "no"} => Gone(call[c].token),
           pc \in {"hot", "addRead", "addWrite", "row", "touch", "user"} =>
             call[c].pc \in {"hot", "addRead", "addWrite", "row", "get", "set", "touch"},
           \A k \in Tokens : SameUse(k), UNCHANGED <<hot, row, now, cluster, timeout>>
    PROVE  KeptNow'
<1> DEFINE b == [call[c] EXCEPT !.pc = pc]
<1>1. /\ b.pc = pc /\ b.kind = call[c].kind /\ b.token = call[c].token
      /\ b.since = call[c].since /\ b.ttl = call[c].ttl
  BY CallNumbers DEF CallState
<1>2. /\ KeptCall(call[c]) /\ CallShape(call[c]) /\ CallOK(call[c]) /\ Becomes(c, b)
      /\ call[c].since \in Nat
  BY CallIsOK DEF KeptNow, SessionInv, Goto
<1> HIDE DEF b
<1>3. KeptCall(b)
  BY <1>1, <1>2 DEF KeptCall
<1>4. OnIssued(b)
  BY <1>1, <1>2 DEF OnIssued, CallShape, CallOK, Unplaced, Delivered
<1> QED BY <1>1, <1>2, <1>3, <1>4, KeptQuiet

\* The hot state is written: its token was used no later than now.
LEMMA HotWritten ==
    ASSUME TypeInv, SessionInv, KeptNow, NEW k \in Tokens,
           hot' = [hot EXCEPT ![k] = [until |-> now + timeout, active |-> now]],
           UNCHANGED <<token, row, now, cluster, timeout>>,
           \A j \in Tokens : Delivered(j) => Delivered(j)'
    PROVE  /\ \A j \in Tokens : Better(j) /\ KeptToken(j)'
           /\ cluster => Kept(k)' /\ \A t \in Nat : t <= now => Noted(k, t)'
<1>1. \A j \in Tokens \ {k} : hot'[j] = hot[j]
  BY DEF TypeInv
<1>2. hot'[k].until = now + timeout /\ hot'[k].active = now
  BY DEF TypeInv
<1>3. KeptToken(k)
  BY DEF KeptNow
<1>4. cluster => Kept(k)' /\ \A t \in Nat : t <= now => Noted(k, t)'
  BY <1>2, <1>3, TokenNumbers DEF Kept, Noted, KeptToken
<1>5. Gone(k) => Gone(k)'
  BY GoneStays
<1>6. Better(k)
  <2>1. CASE cluster
    <3>1. \A t \in Nat : Noted(k, t) => t <= now
      BY <1>3, <2>1, TokenNumbers DEF Noted, KeptToken
    <3> QED BY <1>4, <1>5, <2>1, <3>1 DEF Better
  <2>2. CASE ~cluster
    BY <1>5, <2>2 DEF Better, Kept, Noted
  <2> QED BY <2>1, <2>2
<1>7. \A j \in Tokens : Better(j)
  <2> TAKE j \in Tokens
  <2>1. CASE j # k
    BY <1>1, <2>1, BetterSame DEF SameUse
  <2> QED BY <1>6, <2>1
<1>8. ASSUME NEW j \in Tokens PROVE KeptToken(j)'
  <2>1. hot'[j].active <= now'
    BY <1>1, <1>2, TokenNumbers DEF KeptNow, KeptToken
  <2> QED BY <1>7, <2>1, KeptTokenStays DEF KeptNow, KeptToken
<1> QED BY <1>4, <1>7, <1>8

\* Session creation up to its row.
LEMMA KeptCreate ==
    ASSUME TypeInv, SessionInv, KeptNow, faults = 0, faults' = 0, NEW c \in Calls,
           SetHot(c) \/ AddRead(c) \/ AddWrite(c) \/ UndoHot(c) \/ Return(c)
    PROVE  KeptNow'
<1>0. /\ call[c] \in CallState /\ CallShape(call[c]) /\ KeptCall(call[c]) /\ CallOK(call[c])
      /\ UNCHANGED <<token, row, now, cluster, timeout>> /\ ~Fault
  BY CallNumbers, CallIsOK DEF SessionInv, KeptNow, SetHot, AddRead, AddWrite, UndoHot, Return, Env,
     Settings, store, Fault
<1>1. \A k \in Tokens : SameUse(k)
  BY <1>0 DEF SameUse
<1>2. CASE Return(c)
  BY <1>0, <1>1, <1>2, KeptEnds DEF Return, store
<1>3. CASE UndoHot(c)
  BY <1>0, <1>3 DEF UndoHot, CallShape, KeptCall
<1>4. CASE AddRead(c)
  <2> DEFINE b == [call[c] EXCEPT !.pc = "addWrite", !.idx = IndexTokens(tenant[call[c].token])]
  <2>1. /\ b.pc = "addWrite" /\ b.kind = call[c].kind /\ b.token = call[c].token
        /\ b.since = call[c].since /\ b.ttl = call[c].ttl /\ b.since \in Nat
    BY <1>0 DEF CallState
  <2>2. Becomes(c, b) /\ call[c].pc = "addRead" /\ hot' = hot
    BY <1>0, <1>4 DEF AddRead, store
  <2> HIDE DEF b
  <2>3. KeptCall(b) /\ OnIssued(b)
    BY <1>0, <2>1, <2>2 DEF KeptCall, OnIssued, CallShape, CallOK, Unplaced
  <2> QED BY <1>0, <1>1, <2>1, <2>2, <2>3, KeptQuiet
<1>5. CASE AddWrite(c)
  <2>1. Goto(c, "row") /\ call[c].pc = "addWrite" /\ hot' = hot
    BY <1>0, <1>5 DEF AddWrite
  <2>2. Gone(call[c].token) \/ (Kept(call[c].token) /\ Noted(call[c].token, call[c].since))
    BY <1>0, <2>1 DEF KeptCall
  <2> QED BY <1>0, <1>1, <2>1, <2>2, KeptGoto
<1>6. CASE SetHot(c)
  <2>1. PICK k : k = call[c].token
    OBVIOUS
  <2>2. PICK b : b = [call[c] EXCEPT !.pc = "addRead"]
    OBVIOUS
  <2>3. /\ b.pc = "addRead" /\ b.kind = call[c].kind /\ b.token = k
        /\ b.since = call[c].since /\ b.ttl = call[c].ttl /\ b.since \in Nat
    BY <1>0, <2>1, <2>2 DEF CallState
  <2>4. /\ Becomes(c, b) /\ k \in Tokens /\ cluster /\ call[c].ttl = timeout /\ b.since <= now
        /\ call[c].kind = "login"
    BY <1>0, <1>6, <2>1, <2>2, <2>3 DEF SetHot, Goto, KeptCall, CallShape, CallOK, Unplaced
  <2>5. hot' = [hot EXCEPT ![k] = [until |-> now + timeout, active |-> now]]
    BY <1>0, <1>6, <2>1, <2>4 DEF SetHot
  <2>6. \A j \in Tokens : Delivered(j) => Delivered(j)'
    BY <1>0, <2>1, <2>3, <2>4, DeliveredOn
  <2>7. /\ \A j \in Tokens : Better(j) /\ KeptToken(j)'
        /\ Kept(k)' /\ Noted(k, b.since)'
    BY <1>0, <2>3, <2>4, <2>5, <2>6, HotWritten
  <2>8. KeptCall(b)'
    BY <1>0, <2>3, <2>4, <2>7 DEF KeptCall
  <2> QED BY <1>0, <2>4, <2>7, <2>8, KeptStep
<1> QED BY <1>2, <1>3, <1>4, <1>5, <1>6

\* A session that is not gone is found, and is not found inactive.
LEMMA KeptFind ==
    ASSUME TypeInv, SessionInv, KeptNow, faults = 0, faults' = 0, NEW c \in Calls,
           GetHot(c) \/ GetRow(c)
    PROVE  KeptNow'
<1> DEFINE k == call[c].token
<1>0. /\ call[c] \in CallState /\ CallShape(call[c]) /\ KeptCall(call[c])
      /\ UNCHANGED <<token, hot, row, now, cluster, timeout>> /\ ~Fault /\ call[c].pc = "get"
      /\ call[c].kind \in {"access", "refresh"} /\ k \in Tokens /\ Delivered(k) /\ call[c].ttl = timeout
  BY CallNumbers DEF SessionInv, KeptNow, GetHot, GetRow, Env, Settings, store, Fault, CallShape, KeptCall
<1>1. \A j \in Tokens : SameUse(j)
  BY <1>0 DEF SameUse
<1>2. Gone(k) \/ Kept(k)
  BY <1>0 DEF KeptNow, KeptToken, Gone
<1>3. CASE GetHot(c)
  <2>1. /\ ~Live(hot[k]) => Gone(k)
        /\ Inactive(hot[k].active, call[c].ttl) => Gone(k)
    <3>1. cluster
      BY <1>3 DEF GetHot
    <3> QED BY <1>0, <1>2, <3>1, TokenNumbers DEF Kept, Live, Inactive
  <2>2. \/ Goto(c, "no") /\ Gone(k)
        \/ Goto(c, "dropHot") /\ Gone(k)
        \/ Goto(c, "set")
    BY <1>0, <1>3, <2>1 DEF GetHot
  <2> HIDE DEF k
  <2> QED BY <1>0, <1>1, <2>2, KeptGoto DEF k
<1>4. CASE GetRow(c)
  <2>0. ~cluster
    BY <1>4 DEF GetRow
  <2>1. /\ ~row[k].held => Gone(k)
        /\ Inactive(row[k].active, call[c].ttl) => Gone(k)
    BY <1>0, <1>2, <2>0, TokenNumbers DEF Kept, Inactive
  <2>2. \/ Goto(c, "no") /\ Gone(k)
        \/ Goto(c, "dropRow") /\ Gone(k)
        \/ Goto(c, "touch")
    BY <1>0, <1>4, <2>1 DEF GetRow
  <2> HIDE DEF k
  <2> QED BY <1>0, <1>1, <2>0, <2>2, KeptGoto DEF k
<1> QED BY <1>3, <1>4

\* The hot state is written back with a new TTL.
LEMMA KeptRefreshHot ==
    ASSUME TypeInv, SessionInv, KeptNow, faults = 0, faults' = 0, NEW c \in Calls, RefreshHot(c)
    PROVE  KeptNow'
<1>1. PICK k : k = call[c].token
  OBVIOUS
<1>2. PICK b : b = [call[c] EXCEPT !.pc = "touch"]
  OBVIOUS
<1>0. /\ call[c] \in CallState /\ CallShape(call[c]) /\ KeptCall(call[c])
      /\ UNCHANGED <<token, row, now, cluster, timeout>> /\ ~Fault
      /\ call[c].kind \in {"access", "refresh"} /\ k \in Tokens /\ call[c].ttl = timeout
      /\ call[c].since <= now
  BY <1>1, CallNumbers DEF SessionInv, KeptNow, RefreshHot, Env, Settings, Fault, CallShape, KeptCall
<1>3. /\ b.pc = "touch" /\ b.kind = call[c].kind /\ b.token = k
      /\ b.since = call[c].since /\ b.ttl = call[c].ttl /\ b.since \in Nat
  BY <1>0, <1>1, <1>2 DEF CallState
<1>4. Becomes(c, b) /\ hot' = [hot EXCEPT ![k] = [until |-> now + timeout, active |-> now]]
  BY <1>0, <1>1, <1>2 DEF RefreshHot, Refreshed, Goto
<1>5. \A j \in Tokens : Delivered(j) => Delivered(j)'
  BY <1>0, <1>1, <1>3, <1>4, DeliveredOn
<1>6. /\ \A j \in Tokens : Better(j) /\ KeptToken(j)'
      /\ cluster => Kept(k)' /\ Noted(k, b.since)'
  BY <1>0, <1>3, <1>4, <1>5, HotWritten
<1>7. KeptCall(b)'
  BY <1>0, <1>3, <1>6 DEF KeptCall
<1> QED BY <1>0, <1>4, <1>6, <1>7, KeptStep

\* The session is created: every store has noted the request that did it.
LEMMA KeptSetRow ==
    ASSUME TypeInv, SessionInv, KeptNow, faults = 0, faults' = 0, NEW c \in Calls, SetRow(c)
    PROVE  KeptNow'
<1>1. PICK k : k = call[c].token
  OBVIOUS
<1>2. PICK since : since = call[c].since
  OBVIOUS
<1>0. /\ CallShape(call[c]) /\ KeptCall(call[c]) /\ UNCHANGED <<hot, now, cluster, timeout>>
      /\ call[c].kind = "login" /\ k \in Tokens /\ since \in Nat /\ since <= now
      /\ cluster => Gone(k) \/ (Kept(k) /\ Noted(k, since))
      /\ Ends(c) /\ row' = [row EXCEPT ![k] = [held |-> TRUE, active |-> now]]
      /\ token' = [token EXCEPT ![k].stored = TRUE, ![k].used = since]
  <2>1. k \in Tokens /\ since \in Nat
    BY <1>1, <1>2, CallIsOK DEF SetRow, CallOK, Unplaced
  <2>2. ~Fault
    BY DEF Fault
  <2>3. CallShape(call[c]) /\ KeptCall(call[c]) /\ call[c].pc = "row"
    BY DEF SessionInv, KeptNow, SetRow
  <2>4. /\ Ends(c) /\ row' = [row EXCEPT ![k] = [held |-> TRUE, active |-> now]]
        /\ token' = [token EXCEPT ![k].stored = TRUE, ![k].used = since]
        /\ UNCHANGED <<hot, now, cluster, timeout>>
    BY <1>1, <1>2, <2>2 DEF SetRow, Env, Settings
  <2>5. /\ call[c].kind = "login" /\ since <= now
        /\ cluster => Gone(k) \/ (Kept(k) /\ Noted(k, since))
    BY <1>1, <1>2, <2>3 DEF CallShape, KeptCall
  <2> QED BY <2>1, <2>3, <2>4, <2>5
<1>3. /\ \A j \in Tokens \ {k} : token'[j] = token[j] /\ row'[j] = row[j]
      /\ row'[k].held /\ row'[k].active = now
      /\ token'[k] = [token[k] EXCEPT !.stored = TRUE, !.used = since]
  BY <1>0 DEF TypeInv
<1>4. /\ token'[k].issued = token[k].issued /\ token'[k].lapsed = token[k].lapsed
      /\ token'[k].ending = token[k].ending /\ token'[k].stored /\ token'[k].used = since
  <2>1. token[k] \in TokenState
    BY <1>0, TokenNumbers
  <2>2. token'[k] = [token[k] EXCEPT !.stored = TRUE, !.used = since]
    BY <1>3
  <2> QED BY <2>1, <2>2 DEF TokenState
<1>5. \A j \in Tokens : Delivered(j) => Delivered(j)'
  <2>1. IdleCall.token \notin Tokens
    BY DEF IdleCall
  <2>2. \A j \in Tokens : token[j].issued => token'[j].issued
    BY <1>3, <1>4
  <2>3. Becomes(c, IdleCall)
    BY <1>0 DEF Ends
  <2> QED BY <2>1, <2>2, <2>3, DeliveredOn
<1>6. ~Delivered(k)
  BY <1>0, <1>1 DEF Delivered
<1>7. Gone(k) => Gone(k)'
  BY <1>4, <1>6, GoneStays
<1>8. ~cluster => Kept(k)' /\ \A t \in Nat : t <= now => Noted(k, t)'
  <2>1. now < now + timeout /\ now <= now + RowWindow /\ since <= now + RowWindow
    BY <1>0, TokenNumbers
  <2>2. \A t \in Nat : t <= now => t <= now + RowWindow
    BY <1>0, TokenNumbers
  <2> QED BY <1>0, <1>3, <1>4, <2>1, <2>2 DEF Kept, Noted
<1>9. cluster => Gone(k)' \/ Kept(k)'
  BY <1>0, <1>4, <1>7 DEF Kept, Noted
<1>10. cluster => \A t \in Nat : Noted(k, t) => Noted(k, t)'
  BY <1>0 DEF Noted
<1>11. Better(k)
  <2>1. CASE cluster
    BY <1>7, <1>9, <1>10, <2>1 DEF Better
  <2>2. CASE ~cluster
    <3>1. \A t \in Nat : Noted(k, t) => Noted(k, t)'
      <4>1. row[k].active <= now
        BY <1>0 DEF KeptNow, KeptToken
      <4>2. \A t \in Nat : t <= row[k].active + RowWindow => t <= now + RowWindow
        BY <1>0, <4>1, TokenNumbers
      <4> QED BY <1>0, <1>3, <2>2, <4>2 DEF Noted
    <3> QED BY <1>7, <1>8, <2>2, <3>1 DEF Better
  <2> QED BY <2>1, <2>2
<1>12. ASSUME NEW j \in Tokens PROVE Better(j) /\ KeptToken(j)'
  <2>1. CASE j = k
    <3>1. token'[k].used <= now' /\ hot'[k].active <= now' /\ row'[k].active <= now'
      <4>1. now <= now
        BY <1>0, TokenNumbers
      <4> QED BY <1>0, <1>3, <1>4, <4>1 DEF KeptNow, KeptToken
    <3> QED BY <1>8, <1>9, <1>11, <2>1, <3>1 DEF KeptToken
  <2>2. CASE j # k
    <3>1. Better(j)
      BY <1>0, <1>3, <1>5, <2>2, BetterSame DEF SameUse
    <3> QED BY <1>0, <1>3, <2>2, <3>1, KeptTokenStays DEF KeptNow, KeptToken
  <2> QED BY <2>1, <2>2
<1> QED BY <1>0, <1>12, IdleKept, KeptStep DEF Ends

\* A token is used when the store has noted it.
LEMMA KeptUsed ==
    ASSUME TypeInv, SessionInv, KeptNow, NEW k \in Tokens, NEW since \in Nat, since <= now,
           Gone(k) \/ (Kept(k) /\ Noted(k, since)'), Delivered(k) => Delivered(k)',
           token'[k].lapsed = token[k].lapsed, token'[k].ending = token[k].ending,
           token'[k].stored = token[k].stored,
           token'[k].used = token[k].used \/ token'[k].used = Larger(token[k].used, since),
           hot'[k] = hot[k], row'[k] = row[k] \/ (row'[k].held /\ row'[k].active = now),
           UNCHANGED <<now, cluster, timeout>>
    PROVE  Better(k) /\ KeptToken(k)' /\ (Gone(k)' \/ (Kept(k)' /\ Noted(k, since)'))
<1>0. row[k].active <= now /\ hot[k].active <= now /\ token[k].used <= now
  BY DEF KeptNow, KeptToken
<1>1. Gone(k) => Gone(k)'
  BY GoneStays
<1>2. ASSUME ~Gone(k) PROVE Kept(k)'
  <2>0. Kept(k) /\ Noted(k, since)'
    BY <1>2
  <2>1. CASE cluster
    BY <2>0, <2>1, TokenNumbers DEF Kept, Noted, Larger
  <2>2. CASE ~cluster /\ row'[k] = row[k]
    <3>1. row[k].active + RowWindow \in Nat
      BY TokenNumbers
    <3>2. token'[k].used <= row[k].active + RowWindow
      BY <2>0, <2>2, <3>1, TokenNumbers DEF Kept, Noted, Larger
    <3> QED BY <2>0, <2>2, <3>2 DEF Kept
  <2>3. CASE ~cluster /\ row'[k].held /\ row'[k].active = now
    <3>1. token'[k].used <= now + RowWindow /\ now < now + timeout
      BY <1>0, TokenNumbers DEF Larger
    <3> QED BY <2>3, <3>1 DEF Kept
  <2> QED BY <2>1, <2>2, <2>3
<1>3. \A t \in Nat : Noted(k, t) => Noted(k, t)'
  <2>1. \A t \in Nat : t <= row[k].active + RowWindow => t <= now + RowWindow
    BY <1>0, TokenNumbers
  <2> QED BY <2>1 DEF Noted
<1>4. Better(k)
  BY <1>1, <1>2, <1>3 DEF Better
<1>5. token'[k].used <= now' /\ row'[k].active <= now' /\ hot'[k].active <= now'
  <2>1. now <= now /\ Larger(token[k].used, since) <= now
    BY <1>0, TokenNumbers DEF Larger
  <2> QED BY <1>0, <2>1
<1>6. KeptToken(k)'
  BY <1>4, <1>5, KeptTokenStays DEF KeptNow
<1> QED BY <1>1, <1>2, <1>4, <1>6

\* The other tokens of such a step.
LEMMA KeptRest ==
    ASSUME TypeInv, SessionInv, KeptNow, NEW j \in Tokens, token'[j] = token[j],
           hot'[j] = hot[j], row'[j] = row[j], Delivered(j) => Delivered(j)',
           UNCHANGED <<now, cluster, timeout>>
    PROVE  Better(j) /\ KeptToken(j)'
<1>1. Better(j)
  BY BetterSame DEF SameUse
<1> QED BY <1>1, KeptTokenStays DEF KeptNow, KeptToken

LEMMA KeptTouchRow ==
    ASSUME TypeInv, SessionInv, KeptNow, faults = 0, faults' = 0, NEW c \in Calls, TouchRow(c)
    PROVE  KeptNow'
<1>1. PICK k : k = call[c].token
  OBVIOUS
<1>2. PICK since : since = call[c].since
  OBVIOUS
<1>0. /\ call[c] \in CallState /\ CallShape(call[c]) /\ KeptCall(call[c])
      /\ UNCHANGED <<hot, now, cluster, timeout>> /\ call[c].pc = "touch"
      /\ call[c].kind \in {"access", "refresh"} /\ k \in Tokens /\ Delivered(k)
      /\ since \in Nat /\ since <= now /\ call[c].ttl = timeout
      /\ cluster => Gone(k) \/ (Kept(k) /\ Noted(k, since))
  <2>1. CallShape(call[c]) /\ KeptCall(call[c]) /\ call[c].pc = "touch" /\ call[c] \in CallState
    BY CallNumbers DEF SessionInv, KeptNow, TouchRow
  <2>2. UNCHANGED <<hot, now, cluster, timeout>>
    BY DEF TouchRow, Env, Settings
  <2>3. since \in Nat
    BY <1>2, CallIsOK
  <2>4. call[c].kind \in {"access", "refresh"} /\ k \in Tokens /\ Delivered(k)
    BY <1>1, <2>1 DEF CallShape
  <2>5. /\ since <= now /\ call[c].ttl = timeout
        /\ cluster => Gone(k) \/ (Kept(k) /\ Noted(k, since))
    BY <1>1, <1>2, <2>1 DEF KeptCall
  <2> QED BY <2>1, <2>2, <2>3, <2>4, <2>5
<1>3. /\ row' = [row EXCEPT ![k] = Touched(k)]
      /\ \/ Goto(c, "ok") /\ token' = [token EXCEPT ![k].used = Larger(@, since)]
         \/ Goto(c, "user") /\ token' = token
  <2>1. ~Fault
    BY DEF Fault
  <2> QED BY <1>1, <1>2, <2>1 DEF TouchRow
<1>4. \A j \in Tokens \ {k} : token'[j] = token[j] /\ row'[j] = row[j] /\ hot'[j] = hot[j]
  BY <1>0, <1>3 DEF TypeInv
<1>5. row'[k] = row[k] \/ (row'[k].held /\ row'[k].active = now)
  BY <1>0, <1>3 DEF TypeInv, Touched
<1>6. /\ token'[k].issued = token[k].issued /\ token'[k].lapsed = token[k].lapsed
      /\ token'[k].ending = token[k].ending /\ token'[k].stored = token[k].stored
      /\ token'[k].used = token[k].used \/ token'[k].used = Larger(token[k].used, since)
  <2>1. token[k] \in TokenState
    BY <1>0, TokenNumbers
  <2>2. token'[k] = token[k] \/ token'[k] = [token[k] EXCEPT !.used = Larger(@, since)]
    BY <1>0, <1>3 DEF TypeInv
  <2> QED BY <2>1, <2>2 DEF TokenState
<1>7. \A j \in Tokens : token[j].issued => token'[j].issued
  BY <1>4, <1>6
<1>8. PICK pc \in {"ok", "user"} : Goto(c, pc) /\ \A x : x = [call[c] EXCEPT !.pc = pc] => Becomes(c, x)
  BY <1>3 DEF Goto
<1>9. PICK b : b = [call[c] EXCEPT !.pc = pc]
  OBVIOUS
<1>10. /\ b.pc = pc /\ b.kind = call[c].kind /\ b.token = k
       /\ b.since = since /\ b.ttl = call[c].ttl /\ Becomes(c, b)
  BY <1>0, <1>1, <1>2, <1>8, <1>9 DEF CallState
<1>11. \A j \in Tokens : Delivered(j) => Delivered(j)'
  BY <1>0, <1>7, <1>10, DeliveredOn
<1>12. Gone(k) \/ (Kept(k) /\ Noted(k, since)')
  <2>1. Gone(k) \/ Kept(k)
    BY <1>0 DEF KeptNow, KeptToken, Gone
  <2>2. CASE cluster
    BY <1>0, <2>2 DEF Noted
  <2>3. CASE ~cluster /\ Kept(k)
    <3>1. row[k].held /\ row'[k] = Touched(k)
      BY <1>0, <1>3, <2>3 DEF Kept, TypeInv
    <3>2. since <= row'[k].active + RowWindow
      <4>1. CASE row[k].active + RowWindow < now
        <5>1. row'[k].active = now /\ since <= now + RowWindow
          BY <1>0, <3>1, <4>1, TokenNumbers DEF Touched
        <5> QED BY <5>1
      <4>2. CASE ~(row[k].active + RowWindow < now)
        <5>1. row'[k] = row[k] /\ since <= row[k].active + RowWindow
          BY <1>0, <3>1, <4>2, TokenNumbers DEF Touched
        <5> QED BY <5>1
      <4> QED BY <4>1, <4>2
    <3> QED BY <1>0, <2>3, <3>2 DEF Noted
  <2> QED BY <2>1, <2>2, <2>3
<1>13. Better(k) /\ KeptToken(k)' /\ (Gone(k)' \/ (Kept(k)' /\ Noted(k, since)'))
  BY <1>0, <1>5, <1>6, <1>11, <1>12, KeptUsed
<1>14. \A j \in Tokens : Better(j) /\ KeptToken(j)'
  <2> TAKE j \in Tokens
  <2>1. CASE j # k
    BY <1>0, <1>4, <1>11, <2>1, KeptRest
  <2> QED BY <1>13, <2>1
<1>15. KeptCall(b)'
  BY <1>0, <1>10, <1>13 DEF KeptCall
<1> QED BY <1>0, <1>10, <1>14, <1>15, KeptStep

\* A step that drops what is stored of tokens that are gone, or issues a token.
LEMMA KeptMove ==
    ASSUME TypeInv, SessionInv, KeptNow, NEW c \in Calls, NEW b, Becomes(c, b),
           KeptCall(b)' \/ (KeptCall(b) /\ OnIssued(b) /\ b.since \in Nat),
           b.kind = "login" /\ b.token \in Tokens =>
             (call[c].kind = "login" /\ call[c].token = b.token) \/ ~token[b.token].issued,
           \A k \in Tokens : SameUse(k) \/ (~token[k].issued /\ ~token'[k].stored /\ token'[k].used <= now),
           \A k \in Tokens : /\ hot'[k] = hot[k] \/ hot'[k] = NoHot
                             /\ row'[k] = row[k] \/ row'[k] = NoRow
                             /\ \/ hot'[k] = hot[k] /\ row'[k] = row[k]
                                \/ token[k].issued => Gone(k) \/ token'[k].ending,
           UNCHANGED <<now, cluster, timeout>>
    PROVE  KeptNow'
<1>1. \A d \in Calls : call'[d] = (IF d = c THEN b ELSE call[d])
  BY CallNumbers DEF Becomes
<1>2. ASSUME NEW k \in Tokens, Delivered(k) PROVE Delivered(k)'
  <2>1. token[k].issued /\ token'[k].issued
    BY <1>2 DEF Delivered, SameUse
  <2> QED BY <1>1, <1>2, <2>1, DeliveredStays
<1>3. ASSUME NEW k \in Tokens, token[k].issued PROVE Better(k)
  <2>1. SameUse(k)
    BY <1>3
  <2>2. Gone(k) => Gone(k)'
    BY <1>2, <2>1, GoneStays DEF SameUse
  <2>3. CASE hot'[k] = hot[k] /\ row'[k] = row[k]
    BY <1>2, <2>1, <2>3, BetterSame
  <2>4. CASE Gone(k) \/ token'[k].ending
    BY <2>2, <2>4, BetterGone DEF Gone
  <2> QED BY <1>3, <2>3, <2>4
<1>4. ASSUME NEW k \in Tokens PROVE KeptToken(k)'
  <2>1. hot'[k].active <= now' /\ row'[k].active <= now'
    BY TokenNumbers DEF KeptNow, KeptToken, NoHot, NoRow
  <2>2. CASE SameUse(k)
    BY <1>3, <2>1, <2>2, KeptTokenStays DEF KeptNow, KeptToken, SameUse
  <2>3. CASE ~token'[k].stored /\ token'[k].used <= now
    BY <2>1, <2>3 DEF KeptToken
  <2> QED BY <2>2, <2>3
<1>5. KeptCall(b)'
  <2>1. now \in Nat /\ now' \in Nat /\ now <= now'
    BY DEF TypeInv
  <2> QED BY <1>3, <2>1, KeptStays
<1> QED BY <1>3, <1>4, <1>5, KeptStep

\* A call begins to end the session of a token.
LEMMA KeptEnding ==
    ASSUME TypeInv, SessionInv, KeptNow, NEW c \in Calls, NEW b, Becomes(c, b), NEW k \in Tokens,
           b.kind \in {"revoke", "switch"}, b.pc = "mark", b.since <= now, b.ttl = timeout,
           \/ token' = [token EXCEPT ![k].ending = TRUE]
           \/ token' = [token EXCEPT ![k].ending = TRUE, ![k].switch = TRUE],
           UNCHANGED <<hot, row, now, cluster, timeout>>
    PROVE  KeptNow'
<1>1. \A j \in Tokens : SameUse(j)
  <2>1. \A j \in Tokens \ {k} : token'[j] = token[j]
    BY DEF TypeInv
  <2>2. \/ token'[k] = [token[k] EXCEPT !.ending = TRUE]
        \/ token'[k] = [token[k] EXCEPT !.ending = TRUE, !.switch = TRUE]
    BY DEF TypeInv
  <2>3. token[k] \in TokenState
    BY DEF TypeInv
  <2>4. /\ token'[k].issued = token[k].issued /\ token'[k].stored = token[k].stored
        /\ token'[k].used = token[k].used /\ token'[k].lapsed = token[k].lapsed
        /\ token'[k].ending
    <3>1. CASE token'[k] = [token[k] EXCEPT !.ending = TRUE]
      BY <2>3, <3>1 DEF TokenState
    <3>2. CASE token'[k] = [token[k] EXCEPT !.ending = TRUE, !.switch = TRUE]
      BY <2>3, <3>2 DEF TokenState
    <3> QED BY <2>2, <3>1, <3>2
  <2> QED BY <2>1, <2>4 DEF SameUse
<1>2. KeptCall(b)'
  BY DEF KeptCall
<1> QED BY <1>1, <1>2, KeptMove

\* A refresh is accepted, or revokes the session.
LEMMA KeptRefreshUser ==
    ASSUME TypeInv, SessionInv, KeptNow, faults = 0, faults' = 0, NEW c \in Calls, RefreshUser(c)
    PROVE  KeptNow'
<1>1. PICK k : k = call[c].token
  OBVIOUS
<1>2. PICK since : since = call[c].since
  OBVIOUS
<1>0. /\ call[c] \in CallState /\ UNCHANGED <<hot, row, now, cluster, timeout>>
      /\ k \in Tokens /\ since \in Nat /\ since <= now /\ call[c].ttl = timeout
      /\ Gone(k) \/ (Kept(k) /\ Noted(k, since))
  <2>1. CallShape(call[c]) /\ KeptCall(call[c]) /\ call[c].pc = "user" /\ call[c] \in CallState
    BY CallNumbers DEF SessionInv, KeptNow, RefreshUser
  <2>2. UNCHANGED <<hot, row, now, cluster, timeout>>
    BY DEF RefreshUser, Env, Settings, store
  <2>3. since \in Nat
    BY <1>2, CallIsOK
  <2>4. k \in Tokens
    BY <1>1, <2>1 DEF CallShape
  <2>5. since <= now /\ call[c].ttl = timeout /\ (Gone(k) \/ (Kept(k) /\ Noted(k, since)))
    BY <1>1, <1>2, <2>1 DEF KeptCall
  <2> QED BY <2>1, <2>2, <2>3, <2>4, <2>5
<1>3. CASE /\ token' = [token EXCEPT ![k].ending = TRUE]
           /\ Becomes(c, [call[c] EXCEPT !.pc = "mark", !.kind = "revoke"])
  <2> DEFINE b == [call[c] EXCEPT !.pc = "mark", !.kind = "revoke"]
  <2>1. b.pc = "mark" /\ b.kind = "revoke" /\ b.since = since /\ b.ttl = timeout
    BY <1>0, <1>2 DEF CallState
  <2>2. Becomes(c, b)
    BY <1>3
  <2> HIDE DEF b
  <2> QED BY <1>0, <1>3, <2>1, <2>2, KeptEnding
<1>4. CASE /\ token' = [token EXCEPT ![k].used = Larger(@, since),
                                     ![k].access = Larger(@, now + AccessTTL)]
           /\ Goto(c, "ok")
  <2>1. /\ \A j \in Tokens \ {k} : token'[j] = token[j]
        /\ token'[k] = [token[k] EXCEPT !.used = Larger(token[k].used, since),
                                        !.access = Larger(token[k].access, now + AccessTTL)]
    BY <1>0, <1>4 DEF TypeInv
  <2>2. /\ token'[k].issued = token[k].issued /\ token'[k].lapsed = token[k].lapsed
        /\ token'[k].ending = token[k].ending /\ token'[k].stored = token[k].stored
        /\ token'[k].used = Larger(token[k].used, since)
    <3>1. token[k] \in TokenState
      BY <1>0, TokenNumbers
    <3> QED BY <2>1, <3>1 DEF TokenState
  <2>3. PICK b : b = [call[c] EXCEPT !.pc = "ok"]
    OBVIOUS
  <2>4. /\ b.pc = "ok" /\ b.kind = call[c].kind /\ b.token = call[c].token
        /\ b.since = since /\ b.ttl = timeout /\ Becomes(c, b)
    BY <1>0, <1>2, <1>4, <2>3 DEF CallState, Goto
  <2>5. \A j \in Tokens : token[j].issued => token'[j].issued
    BY <2>1, <2>2
  <2>6. \A j \in Tokens : Delivered(j) => Delivered(j)'
    BY <2>4, <2>5, DeliveredOn
  <2>7. Better(k) /\ KeptToken(k)'
    <3>1. Gone(k) \/ (Kept(k) /\ Noted(k, since)')
      BY <1>0 DEF Noted
    <3> QED BY <1>0, <2>2, <2>6, <3>1, KeptUsed
  <2>8. \A j \in Tokens : Better(j) /\ KeptToken(j)'
    <3> TAKE j \in Tokens
    <3>1. CASE j # k
      BY <1>0, <2>1, <2>6, <3>1, KeptRest
    <3> QED BY <2>7, <3>1
  <2>9. KeptCall(b)'
    BY <1>0, <2>4 DEF KeptCall, KeptNow
  <2> QED BY <1>0, <2>4, <2>8, <2>9, KeptStep
<1>5. ~Fault
  BY DEF Fault
<1> QED BY <1>1, <1>2, <1>3, <1>4, <1>5 DEF RefreshUser

\* An accepted request switches the tenant.
LEMMA KeptSwitch ==
    ASSUME TypeInv, SessionInv, KeptNow, NEW c \in Calls, Switch(c) PROVE KeptNow'
<1>1. PICK k : k = call[c].token
  OBVIOUS
<1>2. PICK b : b = [call[c] EXCEPT !.pc = "mark", !.kind = "switch"]
  OBVIOUS
<1>3. call[c] \in CallState /\ call[c].pc = "ok" /\ KeptCall(call[c]) /\ CallShape(call[c])
  BY CallNumbers DEF SessionInv, KeptNow, Switch
<1>4. k \in Tokens
  BY <1>1, <1>3 DEF CallShape
<1>5. b.kind = "switch" /\ b.pc = "mark" /\ b.since = call[c].since /\ b.ttl = call[c].ttl
  BY <1>2, <1>3 DEF CallState
<1>6. b.since <= now /\ b.ttl = timeout
  BY <1>3, <1>5 DEF KeptCall
<1>7. /\ Becomes(c, b) /\ UNCHANGED <<hot, row, now, cluster, timeout>>
      /\ token' = [token EXCEPT ![k].ending = TRUE, ![k].switch = TRUE]
  BY <1>1, <1>2 DEF Switch, Env, Settings, store
<1> QED BY <1>4, <1>5, <1>6, <1>7, KeptEnding

\* A call that drops the session of a token has good reason.
LEMMA DropReason ==
    ASSUME NEW x, KeptCall(x), CallShape(x), x \in CallState, x.token \in Tokens,
           x.pc \in {"dropHot", "dropRead", "dropWrite", "dropRow"}
    PROVE  x.kind # "login" /\ Gone(x.token)
<1>1. x.kind # "login"
  BY DEF KeptCall
<1>2. CASE x.kind \in {"access", "refresh"}
  BY <1>2 DEF KeptCall
<1>3. CASE x.kind \in {"revoke", "switch", "reset"}
  BY <1>3 DEF CallShape, Gone
<1> QED BY <1>1, <1>2, <1>3 DEF CallState

\* The revocation marker, and what is dropped after it.
LEMMA KeptMark ==
    ASSUME TypeInv, SessionInv, KeptNow, faults = 0, faults' = 0, NEW c \in Calls, Mark(c) \/ Find(c)
    PROVE  KeptNow'
<1>0. /\ CallShape(call[c]) /\ UNCHANGED <<token, hot, row, now, cluster, timeout>> /\ ~Fault
      /\ call[c].pc \in {"mark", "find"}
  BY DEF SessionInv, Mark, Find, Env, Settings, store, Fault
<1>1. \A k \in Tokens : SameUse(k)
  BY <1>0 DEF SameUse
<1>2. call[c].kind \in {"revoke", "switch"}
  BY <1>0 DEF CallShape
<1>3. PICK pc \in {"find", "dropHot", "dropRow"} : Goto(c, pc)
  BY <1>0 DEF Mark, Find
<1> QED BY <1>0, <1>1, <1>2, <1>3, KeptGoto

LEMMA KeptDropHot ==
    ASSUME TypeInv, SessionInv, KeptNow, faults = 0, faults' = 0, NEW c \in Calls, DropHot(c)
    PROVE  KeptNow'
<1>1. PICK k : k = call[c].token
  OBVIOUS
<1>2. PICK b : b = [call[c] EXCEPT !.pc = "dropRead"]
  OBVIOUS
<1>3. call[c] \in CallState /\ KeptCall(call[c]) /\ CallShape(call[c]) /\ call[c].pc = "dropHot"
  BY CallNumbers DEF SessionInv, KeptNow, DropHot
<1>4. /\ hot' = [hot EXCEPT ![k] = NoHot] /\ Becomes(c, b)
      /\ UNCHANGED <<token, row, now, cluster, timeout>>
  BY <1>1, <1>2 DEF DropHot, Goto, Env, Settings, Fault
<1>5. /\ b.pc = "dropRead" /\ b.kind = call[c].kind /\ b.token = k
      /\ b.since = call[c].since /\ b.ttl = call[c].ttl /\ b.since \in Nat
  BY <1>1, <1>2, <1>3, CallIsOK DEF CallState
<1>6. KeptCall(b) /\ b.kind # "login"
  BY <1>1, <1>3, <1>5 DEF KeptCall
<1>7. OnIssued(b)
  BY <1>1, <1>3, <1>5 DEF OnIssued, CallShape, Delivered
<1>8. \A j \in Tokens : SameUse(j)
  BY <1>4 DEF SameUse
<1>9. \A j \in Tokens : hot'[j] = hot[j] \/ (hot'[j] = NoHot /\ Gone(j))
  <2> TAKE j \in Tokens
  <2>1. CASE j = k
    BY <1>1, <1>3, <1>4, <2>1, DropReason DEF TypeInv
  <2>2. CASE j # k
    BY <1>4, <2>2 DEF TypeInv
  <2> QED BY <2>1, <2>2
<1> QED BY <1>4, <1>5, <1>6, <1>7, <1>8, <1>9, KeptMove

\* The index of the user says nothing of a session.
LEMMA KeptDropIndex ==
    ASSUME TypeInv, SessionInv, KeptNow, faults = 0, faults' = 0, NEW c \in Calls,
           DropRead(c) \/ DropWrite(c)
    PROVE  KeptNow'
<1>1. /\ call[c] \in CallState /\ KeptCall(call[c]) /\ CallShape(call[c])
      /\ call[c].pc \in {"dropRead", "dropWrite"}
  BY CallNumbers DEF SessionInv, KeptNow, DropRead, DropWrite
<1>2. UNCHANGED <<token, hot, row, now, cluster, timeout>> /\ ~Fault
  BY DEF DropRead, DropWrite, Env, Settings, store, Fault
<1>3. \A k \in Tokens : SameUse(k)
  BY <1>2 DEF SameUse
<1>4. call[c].kind \in {"access", "refresh", "revoke", "switch", "reset"}
  BY <1>1 DEF KeptCall, CallState
<1>5. ASSUME NEW b, Becomes(c, b), b.kind = call[c].kind, b.since = call[c].since,
             b.ttl = call[c].ttl, b.pc \in {"dropWrite", "dropRow", "todo", "no"},
             b.kind \in {"access", "refresh"} => b.token = call[c].token
      PROVE  KeptNow'
  <2>1. KeptCall(b)
    BY <1>1, <1>4, <1>5 DEF KeptCall
  <2>2. OnIssued(b) /\ b.since \in Nat
    BY <1>1, <1>5, CallIsOK DEF OnIssued, CallShape, Delivered
  <2> QED BY <1>2, <1>3, <1>4, <1>5, <2>1, <2>2, KeptQuiet
<1>6. CASE DropRead(c)
  <2> DEFINE b == [call[c] EXCEPT !.pc = "dropWrite", !.idx = IndexTokens(tenant[call[c].token])]
  <2>1. /\ b.kind = call[c].kind /\ b.since = call[c].since
        /\ b.ttl = call[c].ttl /\ b.pc = "dropWrite" /\ b.token = call[c].token
    BY <1>1 DEF CallState
  <2>2. Becomes(c, b)
    BY <1>2, <1>6 DEF DropRead
  <2> HIDE DEF b
  <2> QED BY <1>5, <2>1, <2>2
<1>7. CASE DropWrite(c)
  <2> DEFINE b == AfterDrop(c)
  <2>1. /\ b.kind = call[c].kind /\ b.since = call[c].since
        /\ b.ttl = call[c].ttl /\ b.pc \in {"dropRow", "todo", "no"}
        /\ b.kind \in {"access", "refresh"} => b.token = call[c].token
    BY <1>1, <1>4 DEF CallState, AfterDrop
  <2>2. Becomes(c, b)
    BY <1>2, <1>7 DEF DropWrite
  <2> HIDE DEF b
  <2> QED BY <1>5, <2>1, <2>2
<1> QED BY <1>6, <1>7

\* A token pair is signed for a call that is to create its session.
LEMMA KeptIssued ==
    ASSUME NEW k, ~token[k].issued, NEW ttl, token'[k] = Signed(ttl)
    PROVE  ~token[k].issued /\ ~token'[k].stored /\ token'[k].used = now
BY DEF Signed, NoTokenState

LEMMA KeptIssue ==
    ASSUME TypeInv, SessionInv, KeptNow, NEW c \in Calls, NEW b, Becomes(c, b), KeptCall(b)',
           NEW k \in Tokens, Issue(k, timeout), b.token = k,
           UNCHANGED <<hot, row, now, cluster, timeout>>
    PROVE  KeptNow'
<1>1. ~token[k].issued /\ token'[k] = Signed(timeout) /\ \A j \in Tokens \ {k} : token'[j] = token[j]
  BY DEF Issue, TypeInv
<1>2. ~token'[k].stored /\ token'[k].used <= now
  <2>1. now <= now
    BY DEF TypeInv
  <2> QED BY <1>1, <2>1, KeptIssued
<1>3. \A j \in Tokens : SameUse(j) \/ (~token[j].issued /\ ~token'[j].stored /\ token'[j].used <= now)
  BY <1>1, <1>2 DEF SameUse
<1> QED BY <1>1, <1>3, KeptMove

LEMMA FirstKept ==
    ASSUME TypeInv, NEW b, b.kind = "login", b.pc = FirstStore, b.since <= now, b.ttl = timeout,
           UNCHANGED <<now, cluster, timeout>>
    PROVE  KeptCall(b)'
BY DEF KeptCall, FirstStore

\* The end of a session is noted.
LEMMA KeptEnded ==
    ASSUME TypeInv, NEW k \in Tokens, NEW e, token'[k] = [token[k] EXCEPT !.ended = e]
    PROVE  SameUse(k)
<1>1. token[k] \in TokenState
  BY TokenNumbers
<1>2. /\ token'[k].issued = token[k].issued /\ token'[k].stored = token[k].stored
      /\ token'[k].used = token[k].used /\ token'[k].lapsed = token[k].lapsed
      /\ token'[k].ending = token[k].ending
  BY <1>1 DEF TokenState
<1> QED BY <1>2 DEF SameUse

LEMMA KeptDropRow ==
    ASSUME TypeInv, SessionInv, KeptNow, faults = 0, faults' = 0, NEW c \in Calls, DropRow(c)
    PROVE  KeptNow'
<1>1. PICK k : k = call[c].token
  OBVIOUS
<1>2. /\ call[c] \in CallState /\ KeptCall(call[c]) /\ CallShape(call[c]) /\ CallOK(call[c])
      /\ call[c].pc = "dropRow" /\ call[c].since \in Nat
  BY CallNumbers, CallIsOK DEF SessionInv, KeptNow, DropRow
<1>3. /\ UNCHANGED <<hot, now, cluster, timeout>>
      /\ k \in Tokens /\ Gone(k)
  <2>1. k \in Tokens
    BY <1>1, <1>2 DEF CallOK, Unplaced
  <2> QED BY <1>1, <1>2, <2>1, DropReason DEF DropRow, Env, Settings
<1>4. call[c].since <= now /\ call[c].ttl = timeout
  BY <1>2 DEF KeptCall
<1>5. /\ row' = [row EXCEPT ![k] = NoRow]
      /\ \/ call[c].kind = "revoke" /\ token' = [token EXCEPT ![k].ended = "revoked"] /\ Ends(c)
         \/ call[c].kind \in {"access", "refresh"} /\ Goto(c, "no") /\ token' = token
         \/ /\ call[c].kind = "switch" /\ Ends(c)
            /\ token' = [token EXCEPT ![k].ended = IF @ = "no" THEN "switched" ELSE @]
         \/ \E j \in Tokens \ {k} :
              /\ ~token[j].issued
              /\ token' = [token EXCEPT ![k].ended = IF @ = "no" THEN "switched" ELSE @,
                                        ![j] = Signed(call[c].ttl)]
              /\ Becomes(c, [call[c] EXCEPT !.pc = FirstStore, !.kind = "login", !.token = j])
  <2>1. ~Fault
    BY DEF Fault
  <2> QED BY <1>1, <2>1 DEF DropRow
<1>6. \A j \in Tokens : row'[j] = row[j] \/ (row'[j] = NoRow /\ Gone(j))
  BY <1>3, <1>5 DEF TypeInv
<1>7. ASSUME NEW e, token' = [token EXCEPT ![k].ended = e], Ends(c) PROVE KeptNow'
  <2>1. ASSUME NEW j \in Tokens PROVE SameUse(j)
    <3>1. CASE j = k
      <4>1. token'[k] = [token[k] EXCEPT !.ended = e]
        BY <1>3, <1>7 DEF TypeInv
      <4> QED BY <1>3, <3>1, <4>1, KeptEnded
    <3>2. CASE j # k
      BY <1>7, <3>2 DEF TypeInv, SameUse
    <3> QED BY <3>1, <3>2
  <2>2. IdleCall.token \notin Tokens /\ Becomes(c, IdleCall)
    BY <1>7 DEF IdleCall, Ends
  <2> QED BY <1>3, <1>6, <2>1, <2>2, IdleKept, KeptMove
<1>8. CASE call[c].kind \in {"access", "refresh"} /\ Goto(c, "no") /\ token' = token
  <2> DEFINE b == [call[c] EXCEPT !.pc = "no"]
  <2>1. /\ b.pc = "no" /\ b.kind = call[c].kind /\ b.token = k
        /\ b.since = call[c].since /\ b.ttl = call[c].ttl
    BY <1>1, <1>2 DEF CallState
  <2>2. Becomes(c, b)
    BY <1>8 DEF Goto
  <2> HIDE DEF b
  <2>3. KeptCall(b)
    BY <1>3, <1>4, <1>8, <2>1 DEF KeptCall
  <2>4. OnIssued(b) /\ b.since \in Nat
    BY <1>1, <1>2, <1>8, <2>1 DEF OnIssued, CallShape, Delivered
  <2>5. \A j \in Tokens : SameUse(j)
    BY <1>8 DEF SameUse
  <2> QED BY <1>3, <1>6, <1>8, <2>1, <2>2, <2>3, <2>4, <2>5, KeptMove
<1>9. ASSUME NEW j \in Tokens \ {k}, ~token[j].issued,
             token' = [token EXCEPT ![k].ended = IF @ = "no" THEN "switched" ELSE @,
                                    ![j] = Signed(call[c].ttl)],
             Becomes(c, [call[c] EXCEPT !.pc = FirstStore, !.kind = "login", !.token = j])
      PROVE  KeptNow'
  <2>0. PICK b : b = [call[c] EXCEPT !.pc = FirstStore, !.kind = "login", !.token = j]
    OBVIOUS
  <2>1. /\ b.pc = FirstStore /\ b.kind = "login" /\ b.token = j
        /\ b.since = call[c].since /\ b.ttl = call[c].ttl
    BY <1>2, <2>0 DEF CallState, FirstStore
  <2>2. Becomes(c, b)
    BY <1>9, <2>0
  <2>3. KeptCall(b)'
    <3>1. b.since <= now /\ b.ttl = timeout
      BY <1>4, <2>1
    <3>2. UNCHANGED <<now, cluster, timeout>>
      BY <1>3
    <3> QED BY <2>1, <3>1, <3>2, FirstKept
  <2>4. /\ token'[j] = Signed(call[c].ttl)
        /\ \E e : token'[k] = [token[k] EXCEPT !.ended = e]
        /\ \A i \in Tokens \ {j, k} : token'[i] = token[i]
    BY <1>3, <1>9 DEF TypeInv
  <2>5. ~token'[j].stored /\ token'[j].used = now
    BY <1>9, <2>4, KeptIssued
  <2>6. now <= now
    BY DEF TypeInv
  <2>7. ASSUME NEW i \in Tokens
        PROVE  SameUse(i) \/ (~token[i].issued /\ ~token'[i].stored /\ token'[i].used <= now)
    <3>1. CASE i = j
      BY <1>9, <2>5, <2>6, <3>1
    <3>2. CASE i = k
      BY <1>3, <2>4, <3>2, KeptEnded
    <3>3. CASE i \notin {j, k}
      BY <2>4, <3>3 DEF SameUse
    <3> QED BY <3>1, <3>2, <3>3
  <2>8. b.kind = "login" /\ b.token \in Tokens => ~token[b.token].issued
    BY <1>9, <2>1
  <2>9. \A i \in Tokens : hot'[i] = hot[i] /\ UNCHANGED <<now, cluster, timeout>>
    BY <1>3
  <2> QED BY <1>3, <1>6, <2>2, <2>3, <2>7, <2>8, <2>9, KeptMove
<1>10. CASE /\ call[c].kind = "switch" /\ Ends(c)
            /\ token' = [token EXCEPT ![k].ended = IF @ = "no" THEN "switched" ELSE @]
  <2>1. PICK e : e = IF token[k].ended = "no" THEN "switched" ELSE token[k].ended
    OBVIOUS
  <2>2. token' = [token EXCEPT ![k].ended = e]
    BY <1>10, <2>1
  <2> QED BY <1>7, <1>10, <2>2
<1> QED BY <1>5, <1>7, <1>8, <1>9, <1>10

\* A ticket is claimed and read; a password reset takes the next token.
LEMMA KeptTicket ==
    ASSUME TypeInv, SessionInv, KeptNow, NEW c \in Calls, ReadTicket(c) \/ NextToken(c)
    PROVE  KeptNow'
<1>1. /\ call[c] \in CallState /\ KeptCall(call[c]) /\ CallShape(call[c])
      /\ call[c].pc \in {"claim", "todo"} /\ call[c].since \in Nat
      /\ UNCHANGED <<token, hot, row, now, cluster, timeout>>
  BY CallNumbers, CallIsOK DEF SessionInv, KeptNow, ReadTicket, NextToken, Env, Settings, store
<1>2. \A k \in Tokens : SameUse(k)
  BY <1>1 DEF SameUse
<1>3. CASE Ends(c)
  BY <1>1, <1>2, <1>3, KeptEnds
<1>4. CASE Goto(c, "consume")
  BY <1>1, <1>2, <1>4, KeptGoto
<1>5. CASE call[c].pc = "todo" /\ Goto(c, "dropRows")
  BY <1>1, <1>2, <1>5, KeptGoto
<1>6. ASSUME call[c].pc = "todo", NEW k,
             Becomes(c, [call[c] EXCEPT !.pc = "dropHot", !.token = k, !.todo = @ \ {k}])
      PROVE  KeptNow'
  <2> DEFINE b == [call[c] EXCEPT !.pc = "dropHot", !.token = k, !.todo = @ \ {k}]
  <2>1. /\ b.pc = "dropHot" /\ b.kind = call[c].kind
        /\ b.since = call[c].since /\ b.ttl = call[c].ttl
    BY <1>1 DEF CallState
  <2>2. Becomes(c, b)
    BY <1>6
  <2> HIDE DEF b
  <2>3. b.kind = "reset"
    BY <1>1, <1>6, <2>1 DEF CallShape
  <2>4. KeptCall(b) /\ OnIssued(b)
    BY <1>1, <1>6, <2>1, <2>3 DEF KeptCall, OnIssued
  <2> QED BY <1>1, <1>2, <2>1, <2>2, <2>3, <2>4, KeptQuiet
<1> QED BY <1>3, <1>4, <1>5, <1>6 DEF ReadTicket, NextToken

\* A call goes on with tokens that have more of them ending.
LEMMA MoreEnding ==
    ASSUME TypeInv, NEW k \in Tokens, NEW e,
           token'[k] = [token[k] EXCEPT !.ending = e], token[k].ending => e
    PROVE  SameUse(k) /\ (token'[k].ending <=> e)
<1>1. token[k] \in TokenState
  BY TokenNumbers
<1>2. /\ token'[k].issued = token[k].issued /\ token'[k].stored = token[k].stored
      /\ token'[k].used = token[k].used /\ token'[k].lapsed = token[k].lapsed
      /\ token'[k].ending = e
  BY <1>1 DEF TokenState
<1> QED BY <1>2 DEF SameUse

LEMMA KeptConsume ==
    ASSUME TypeInv, SessionInv, KeptNow, faults = 0, faults' = 0, NEW c \in Calls, Consume(c)
    PROVE  KeptNow'
<1>1. /\ call[c] \in CallState /\ KeptCall(call[c])
      /\ call[c].pc = "consume" /\ call[c].since \in Nat
      /\ UNCHANGED <<hot, row, now, cluster, timeout>> /\ ~Fault
  <2>1. UNCHANGED <<hot, row, now, cluster, timeout>> /\ call[c].pc = "consume"
    BY DEF Consume, Env, Settings, store
  <2>2. ~Fault
    BY DEF Fault
  <2> QED BY <2>1, <2>2, CallNumbers, CallIsOK DEF KeptNow
<1>2. call[c].since <= now
  BY <1>1 DEF KeptCall
<1>3. CASE Ends(c) /\ token' = token
  <2>1. \A k \in Tokens : SameUse(k)
    BY <1>3 DEF SameUse
  <2> QED BY <1>1, <1>3, <2>1, KeptEnds
<1>4. ASSUME NEW k \in Tokens, Issue(k, timeout), call[c].kind = "login",
             Becomes(c, [call[c] EXCEPT !.pc = FirstStore, !.token = k, !.ttl = timeout])
      PROVE  KeptNow'
  <2>0. PICK b : b = [call[c] EXCEPT !.pc = FirstStore, !.token = k, !.ttl = timeout]
    OBVIOUS
  <2>1. /\ b.pc = FirstStore /\ b.kind = "login" /\ b.token = k
        /\ b.since = call[c].since /\ b.ttl = timeout
    BY <1>1, <1>4, <2>0 DEF CallState, FirstStore
  <2>2. Becomes(c, b)
    BY <1>4, <2>0
  <2>3. KeptCall(b)'
    <3>1. b.since <= now
      BY <1>2, <2>1
    <3> QED BY <1>1, <2>1, <3>1, FirstKept
  <2> QED BY <1>1, <1>4, <2>1, <2>2, <2>3, KeptIssue
<1>5. ASSUME NEW pc \in {"read", "dropRows"}, call[c].kind = "reset",
             token' = [k \in Tokens |-> [token[k] EXCEPT !.ending = @ \/ k \in Stored]],
             Becomes(c, [call[c] EXCEPT !.pc = pc, !.ttl = timeout,
                                        !.due = Stored])
      PROVE  KeptNow'
  <2>1. \A k \in Tokens : SameUse(k)
    <3> TAKE k \in Tokens
    <3>1. PICK e : e = (token[k].ending \/ k \in Stored)
      OBVIOUS
    <3>2. token'[k] = [token[k] EXCEPT !.ending = e] /\ (token[k].ending => e)
      BY <1>5, <3>1
    <3> QED BY <3>2, MoreEnding
  <2> DEFINE b == [call[c] EXCEPT !.pc = pc, !.ttl = timeout, !.due = Stored]
  <2>2. b.pc = pc /\ b.kind = "reset" /\ b.since = call[c].since /\ b.ttl = timeout
    BY <1>1, <1>5 DEF CallState
  <2>3. Becomes(c, b)
    BY <1>5
  <2> HIDE DEF b
  <2>4. KeptCall(b) /\ OnIssued(b)
    BY <1>2, <2>2 DEF KeptCall, OnIssued
  <2> QED BY <1>1, <2>1, <2>2, <2>3, <2>4, KeptQuiet
<1> QED BY <1>1, <1>3, <1>4, <1>5 DEF Consume

\* A password reset reads the index, and in the end deletes every row.
LEMMA KeptReset ==
    ASSUME TypeInv, SessionInv, KeptNow, faults = 0, faults' = 0, NEW c \in Calls,
           ReadIndex(c) \/ DropRows(c)
    PROVE  KeptNow'
<1>1. /\ call[c] \in CallState /\ KeptCall(call[c]) /\ CallShape(call[c])
      /\ call[c].pc \in {"read", "dropRows"} /\ call[c].since \in Nat
  BY CallNumbers, CallIsOK DEF KeptNow, SessionInv, ReadIndex, DropRows
<1>2. UNCHANGED <<hot, now, cluster, timeout>> /\ ~Fault
  <2>1. UNCHANGED <<hot, now, cluster, timeout>>
    BY DEF ReadIndex, DropRows, Env, Settings, store
  <2> QED BY <2>1 DEF Fault
<1>3. CASE ReadIndex(c)
  <2>1. PICK idx : idx = IndexTokens(Platform)
    OBVIOUS
  <2>2. /\ token' = [k \in Tokens |-> [token[k] EXCEPT !.ending = @ \/ k \in idx]]
        /\ Becomes(c, [call[c] EXCEPT !.pc = "todo", !.todo = idx])
        /\ row' = row
    BY <1>2, <1>3, <2>1 DEF ReadIndex, store
  <2>3. \A k \in Tokens : SameUse(k)
    <3> TAKE k \in Tokens
    <3>1. PICK e : e = (token[k].ending \/ k \in idx)
      OBVIOUS
    <3>2. token'[k] = [token[k] EXCEPT !.ending = e] /\ (token[k].ending => e)
      BY <2>2, <3>1
    <3> QED BY <3>2, MoreEnding
  <2> DEFINE b == [call[c] EXCEPT !.pc = "todo", !.todo = idx]
  <2>4. b.pc = "todo" /\ b.kind = call[c].kind /\ b.since = call[c].since /\ b.ttl = call[c].ttl
    BY <1>1 DEF CallState
  <2>5. Becomes(c, b)
    BY <2>2
  <2> HIDE DEF b
  <2>6. b.kind = "reset"
    BY <1>1, <2>4 DEF CallShape
  <2>7. KeptCall(b) /\ OnIssued(b)
    BY <1>1, <1>3, <2>4, <2>6 DEF KeptCall, OnIssued, ReadIndex
  <2> QED BY <1>1, <1>2, <2>2, <2>3, <2>4, <2>5, <2>6, <2>7, KeptQuiet
<1>4. CASE DropRows(c)
  <2>1. PICK due : due = call[c].due
    OBVIOUS
  <2>2. /\ row' = [k \in Tokens |-> IF k \in OfPlatform THEN NoRow ELSE row[k]] /\ Ends(c)
        /\ token' = [k \in Tokens |-> IF k \in OfPlatform THEN Reset(c, k) ELSE token[k]]
    BY <1>2, <1>4 DEF DropRows
  <2>3. ASSUME NEW k \in Tokens, k \in OfPlatform
        PROVE  SameUse(k) /\ (token[k].issued => token'[k].ending)
    <3>1. token[k] \in TokenState
      BY TokenNumbers
    <3>2. token'[k] = [token[k] EXCEPT
              !.ending = @ \/ token[k].issued,
              !.ended = IF k \in due /\ @ = "no" THEN "reset" ELSE @]
      BY <2>1, <2>2, <2>3 DEF Reset
    <3>3. /\ token'[k].issued = token[k].issued /\ token'[k].stored = token[k].stored
          /\ token'[k].used = token[k].used /\ token'[k].lapsed = token[k].lapsed
          /\ token'[k].ending = (token[k].ending \/ token[k].issued)
      BY <3>1, <3>2 DEF TokenState
    <3> QED BY <3>3 DEF SameUse
  <2>4. IdleCall.token \notin Tokens /\ Becomes(c, IdleCall)
    BY <2>2 DEF IdleCall, Ends
  <2>5. ASSUME NEW k \in Tokens, k \notin OfPlatform
        PROVE  SameUse(k) /\ row'[k] = row[k] /\ hot'[k] = hot[k]
    BY <1>2, <2>2, <2>5 DEF SameUse
  <2>6. \A k \in Tokens : k \in OfPlatform => row'[k] = NoRow /\ hot'[k] = hot[k]
    BY <1>2, <2>2
  <2>7. \A k \in Tokens : SameUse(k)
    BY <2>3, <2>5
  <2>8. \A k \in Tokens : /\ hot'[k] = hot[k]
                          /\ row'[k] = row[k] \/ row'[k] = NoRow
                          /\ row'[k] = row[k] \/ (token[k].issued => token'[k].ending)
    BY <2>3, <2>5, <2>6
  <2> QED BY <1>2, <2>4, <2>7, <2>8, IdleKept, KeptMove
<1> QED BY <1>3, <1>4

\* A request begins.
LEMMA KeptBegin == ASSUME TypeInv, SessionInv, KeptNow, NEW c \in Calls, Begin(c) PROVE KeptNow'
<1>0. /\ now \in Nat /\ now <= now /\ IdleCall.kind = "login" /\ IdleCall.token = NoToken
      /\ NoToken \notin Tokens
  BY DEF TypeInv, IdleCall
<1>1. ASSUME NEW n \in Nodes, NEW k \in Tokens, Login(c, n, k) PROVE KeptNow'
  <2>0. PICK b : b = [IdleCall EXCEPT !.pc = FirstStore, !.kind = "login", !.node = n,
                                      !.token = k, !.ttl = timeout, !.since = now]
    OBVIOUS
  <2>1. b.pc = FirstStore /\ b.kind = "login" /\ b.token = k /\ b.ttl = timeout /\ b.since = now
    BY <2>0 DEF IdleCall
  <2>2. Becomes(c, b) /\ UNCHANGED <<hot, row, now, cluster, timeout>> /\ Issue(k, timeout)
    BY <1>1, <2>0 DEF Login, Settings, store
  <2>3. b.since <= now
    BY <1>0, <2>1
  <2>4. KeptCall(b)'
    BY <2>1, <2>2, <2>3, FirstKept
  <2> QED BY <2>1, <2>2, <2>4, KeptIssue
<1>2. ASSUME NEW n \in Nodes, NEW k \in Tokens, Revoke(c, n, k) PROVE KeptNow'
  <2>0. PICK b : b = [IdleCall EXCEPT !.pc = "mark", !.kind = "revoke", !.node = n,
                                      !.token = k, !.ttl = timeout, !.since = now]
    OBVIOUS
  <2>1. b.pc = "mark" /\ b.kind = "revoke" /\ b.ttl = timeout /\ b.since = now
    BY <2>0 DEF IdleCall
  <2>2. /\ Becomes(c, b) /\ UNCHANGED <<hot, row, now, cluster, timeout>>
        /\ token' = [token EXCEPT ![k].ending = TRUE]
    BY <1>2, <2>0 DEF Revoke, Settings, store
  <2>3. b.since <= now
    BY <1>0, <2>1
  <2> QED BY <2>1, <2>2, <2>3, KeptEnding
<1>3. ASSUME NEW n \in Nodes, NEW k \in Tokens, NEW kind \in {"access", "refresh"}, Parse(c, n, k, kind)
      PROVE  KeptNow'
  <2>0. PICK b : b = [IdleCall EXCEPT !.pc = "get", !.kind = kind, !.node = n, !.token = k,
                                      !.ttl = timeout, !.since = now, !.dead = token[k].ended]
    OBVIOUS
  <2>1. b.pc = "get" /\ b.kind = kind /\ b.token = k /\ b.ttl = timeout /\ b.since = now
    BY <2>0 DEF IdleCall
  <2>2. /\ Delivered(k) /\ UNCHANGED <<token, hot, row, now, cluster, timeout>>
        /\ call' = call \/ Becomes(c, b)
    BY <1>3, <2>0 DEF Parse, Settings, store
  <2>3. \A j \in Tokens : SameUse(j)
    BY <2>2 DEF SameUse
  <2>4. CASE call' = call
    BY <2>2, <2>4 DEF KeptNow, KeptCall, KeptToken, Gone, Kept, Noted, Delivered
  <2>5. CASE Becomes(c, b)
    <3>1. KeptCall(b) /\ OnIssued(b) /\ b.since \in Nat
      BY <1>0, <2>1, <2>2 DEF KeptCall, OnIssued, Delivered
    <3> QED BY <2>1, <2>2, <2>3, <2>5, <3>1, KeptQuiet
  <2> QED BY <2>2, <2>4, <2>5
<1>4. ASSUME NEW n \in Nodes, NEW t \in Tickets, Claim(c, n, t) PROVE KeptNow'
  <2>0. PICK b : b = [IdleCall EXCEPT !.pc = "claim", !.kind = ticket[t].kind, !.node = n, !.tkt = t,
                        !.claim = (IF now < ticket[t].countUntil THEN ticket[t].count ELSE 0) + 1,
                        !.since = now]
    OBVIOUS
  <2>1. b.pc = "claim" /\ b.kind = ticket[t].kind /\ b.token = NoToken /\ b.since = now
    BY <2>0 DEF IdleCall
  <2>2. UNCHANGED <<token, hot, row, now, cluster, timeout>> /\ Becomes(c, b)
    BY <1>4, <2>0 DEF Claim, Settings, store
  <2>3. \A j \in Tokens : SameUse(j)
    BY <2>2 DEF SameUse
  <2>4. ticket[t].kind \in {"login", "reset"}
    BY DEF TypeInv, TicketState
  <2>5. KeptCall(b) /\ OnIssued(b) /\ b.since \in Nat
    BY <1>0, <2>1, <2>4 DEF KeptCall, OnIssued
  <2> QED BY <1>0, <2>1, <2>2, <2>3, <2>5, KeptQuiet
<1> QED BY <1>1, <1>2, <1>3, <1>4 DEF Begin

\* Faults are counted, and no step takes one back.
LEMMA FaultsGrow ==
    ASSUME TypeInv, [Next]_vars, faults' = 0
    PROVE  faults = 0
<1>1. faults \in Nat
  BY DEF TypeInv
<1>2. ASSUME Fault PROVE faults' # 0
  BY <1>1, <1>2 DEF Fault
<1>3. ASSUME NEW c \in Calls, Begin(c) PROVE faults' = faults
  BY <1>3 DEF Begin, Login, Revoke, Parse, Claim
<1>4. ASSUME NEW c \in Calls, Step(c) PROVE faults' = faults
  <2>1. CASE SetHot(c) \/ AddRead(c) \/ AddWrite(c) \/ UndoHot(c) \/ SetRow(c)
    BY <1>2, <2>1 DEF SetHot, AddRead, AddWrite, UndoHot, SetRow, NoFault
  <2>2. CASE GetHot(c) \/ RefreshHot(c) \/ GetRow(c) \/ TouchRow(c) \/ RefreshUser(c) \/ Return(c)
    BY <1>2, <2>2 DEF GetHot, RefreshHot, GetRow, TouchRow, RefreshUser, Return, NoFault
  <2>3. CASE Switch(c) \/ Mark(c) \/ Find(c) \/ DropHot(c) \/ DropRead(c) \/ DropWrite(c) \/ DropRow(c)
    BY <1>2, <2>3 DEF Switch, Mark, Find, DropHot, DropRead, DropWrite, DropRow, NoFault
  <2>4. CASE ReadTicket(c) \/ Consume(c) \/ ReadIndex(c) \/ NextToken(c) \/ DropRows(c)
    BY <1>2, <2>4 DEF ReadTicket, Consume, ReadIndex, NextToken, DropRows, NoFault
  <2> QED BY <1>4, <2>1, <2>2, <2>3, <2>4 DEF Step
<1>5. ASSUME NEW t \in Tickets, NEW kind, CreateTicket(t, kind) PROVE faults' = faults
  BY <1>5 DEF CreateTicket
<1>6. ASSUME NEW k \in Tokens, CleanupRow(k) PROVE faults' = faults
  BY <1>6 DEF CleanupRow
<1>7. ASSUME NEW t \in Timeouts, ChangeTimeout(t) PROVE FALSE
  BY <1>2, <1>7 DEF ChangeTimeout
<1>8. ASSUME NEW n \in Nodes, Restart(n) PROVE FALSE
  BY <1>2, <1>8 DEF Restart
<1>9. ASSUME Tick PROVE faults' = faults
  BY <1>9 DEF Tick
<1>10. ASSUME UNCHANGED vars PROVE faults' = faults
  BY <1>10 DEF vars
<1> QED BY <1>3, <1>4, <1>5, <1>6, <1>7, <1>8, <1>9, <1>10 DEF Next

\* What no call does.
LEMMA KeptOther ==
    ASSUME TypeInv, SessionInv, KeptNow, now' \in Nat, now <= now', UNCHANGED <<cluster, timeout, call>>,
           \A k \in Tokens : token[k].issued => Better(k),
           \A k \in Tokens : KeptToken(k)'
    PROVE  KeptNow'
<1>1. ASSUME NEW d \in Calls PROVE KeptCall(call[d])'
  <2>1. PICK x : x = call[d]
    OBVIOUS
  <2>2. OnIssued(x) /\ x.since \in Nat /\ KeptCall(x)
    BY <2>1, CallIsOK, ShapeIssued DEF SessionInv, KeptNow
  <2>3. now \in Nat
    BY DEF TypeInv
  <2>4. KeptCall(x)'
    BY <2>2, <2>3, KeptStays
  <2> QED BY <2>1, <2>4 DEF KeptCall, Gone, Kept, Noted, Delivered
<1> QED BY <1>1 DEF KeptNow

\* The cleanup deletes no row of a session that is kept.
LEMMA KeptCleanup ==
    ASSUME TypeInv, SessionInv, KeptNow, NEW k \in Tokens, CleanupRow(k) PROVE KeptNow'
<1>1. /\ UNCHANGED <<token, hot, now, cluster, timeout, call>>
      /\ row' = [row EXCEPT ![k] = NoRow] /\ row[k].active + timeout < now
  BY DEF CleanupRow, Env, Settings
<1>2. ASSUME NEW j \in Tokens PROVE Delivered(j) <=> Delivered(j)'
  BY <1>1 DEF Delivered
<1>3. \A j \in Tokens \ {k} : row'[j] = row[j]
  BY <1>1 DEF TypeInv
<1>4. row'[k].active = 0
  BY <1>1 DEF TypeInv, NoRow
<1>5. Better(k)
  <2>1. Gone(k) => Gone(k)'
    BY <1>1, <1>2 DEF Gone
  <2>2. CASE cluster
    BY <1>1, <2>1, <2>2 DEF Better, Kept, Noted
  <2>3. CASE ~cluster
    <3>1. ~Kept(k)
      BY <1>1, <2>3, TokenNumbers DEF Kept
    <3> QED BY <2>1, <3>1 DEF Better
  <2> QED BY <2>2, <2>3
<1>6. ASSUME NEW j \in Tokens, j # k PROVE Better(j)
  BY <1>1, <1>2, <1>3, <1>6, BetterSame DEF SameUse
<1>7. ASSUME NEW j \in Tokens PROVE KeptToken(j)'
  <2>1. row'[j].active <= now'
    <3>1. row[j].active <= now /\ 0 <= now
      BY TokenNumbers DEF KeptNow, KeptToken
    <3> QED BY <1>1, <1>3, <1>4, <3>1
  <2> QED BY <1>1, <1>5, <1>6, <2>1, KeptTokenStays DEF KeptNow, KeptToken
<1>8. now' \in Nat /\ now <= now'
  BY <1>1 DEF TypeInv
<1> QED BY <1>1, <1>5, <1>6, <1>7, <1>8, KeptOther

\* The clock ends a session only when it has lapsed.
LEMMA KeptTick == ASSUME TypeInv, SessionInv, KeptNow, Tick PROVE KeptNow'
<1>1. now \in Nat /\ now' = now + 1 /\ UNCHANGED <<cluster, timeout, hot, row, call>>
  BY DEF TypeInv, Tick, store
<1>2. ASSUME NEW k \in Tokens
      PROVE  /\ token'[k].issued = token[k].issued /\ token'[k].stored = token[k].stored
             /\ token'[k].used = token[k].used /\ token'[k].ending = token[k].ending
             /\ token[k].issued =>
                  /\ token[k].lapsed => token'[k].lapsed
                  /\ token'[k].lapsed \/ ~(token[k].used + timeout <= now' + Slack)
  <2>1. PICK e : e = (token[k].issued /\ (token[k].lapsed \/ token[k].used + timeout <= now' + Slack))
    OBVIOUS
  <2>2. token'[k] = [token[k] EXCEPT !.lapsed = e] /\ token[k] \in TokenState
    BY <2>1, TokenNumbers DEF Tick
  <2>3. /\ token'[k].issued = token[k].issued /\ token'[k].stored = token[k].stored
        /\ token'[k].used = token[k].used /\ token'[k].ending = token[k].ending
        /\ token'[k].lapsed = e
    BY <2>2 DEF TokenState
  <2> QED BY <2>1, <2>3
<1>3. ASSUME NEW k \in Tokens, token[k].issued PROVE Better(k)
  <2>1. Delivered(k) => Delivered(k)'
    BY <1>1, <1>2 DEF Delivered
  <2>2. Gone(k) => Gone(k)'
    BY <1>2, <1>3, <2>1 DEF Gone
  <2>3. \A t \in Nat : Noted(k, t) => Noted(k, t)'
    BY <1>1 DEF Noted
  <2>4. ASSUME Kept(k), ~token'[k].lapsed PROVE Kept(k)'
    <3>1. ~(token[k].used + timeout <= now' + Slack)
      BY <1>2, <1>3, <2>4
    <3>2. CASE cluster
      <4>1. hot[k].until = hot[k].active + timeout /\ token[k].used <= hot[k].active
        BY <2>4, <3>2 DEF Kept
      <4>2. now' < hot[k].until
        BY <1>1, <3>1, <3>2, <4>1, TokenNumbers DEF Slack
      <4> QED BY <1>1, <1>2, <3>2, <4>1, <4>2 DEF Kept
    <3>3. CASE ~cluster
      <4>1. row[k].held /\ token[k].used <= row[k].active + RowWindow
        BY <2>4, <3>3 DEF Kept
      <4>2. now' < row[k].active + timeout
        BY <1>1, <3>1, <3>3, <4>1, TokenNumbers DEF Slack
      <4> QED BY <1>1, <1>2, <3>3, <4>1, <4>2 DEF Kept
    <3> QED BY <3>2, <3>3
  <2> QED BY <2>2, <2>3, <2>4 DEF Better, Gone
<1>4. ASSUME NEW k \in Tokens PROVE KeptToken(k)'
  <2>1. token'[k].used <= now' /\ hot'[k].active <= now' /\ row'[k].active <= now'
    <3>1. token[k].used <= now /\ hot[k].active <= now /\ row[k].active <= now
      BY DEF KeptNow, KeptToken
    <3> QED BY <1>1, <1>2, <3>1, TokenNumbers
  <2> QED BY <1>2, <1>3, <2>1, KeptTokenStays DEF KeptNow
<1>5. now' \in Nat /\ now <= now'
  BY <1>1
<1> QED BY <1>1, <1>3, <1>4, <1>5, KeptOther

LEMMA KeptInvariant == Spec => []KeptInv
<1>1. Init => KeptInv
  <2> SUFFICES ASSUME Init PROVE KeptNow
    BY DEF KeptInv
  <2>1. \A c \in Calls : KeptCall(call[c])
    BY IdleKept DEF Init
  <2>2. ASSUME NEW k \in Tokens PROVE KeptToken(k)
    BY DEF Init, NoTokenState, NoHot, NoRow, KeptToken
  <2> QED BY <2>1, <2>2 DEF KeptNow
<1>2. TypeInv /\ SessionInv /\ KeptInv /\ [Next]_vars => KeptInv'
  <2> SUFFICES ASSUME TypeInv, SessionInv, KeptInv, [Next]_vars, faults' = 0 PROVE KeptNow'
    BY DEF KeptInv
  <2>0. faults = 0 /\ KeptNow
    BY FaultsGrow DEF KeptInv
  <2>1. ASSUME NEW c \in Calls, Begin(c) PROVE KeptNow'
    BY <2>0, <2>1, KeptBegin
  <2>2. ASSUME NEW c \in Calls, Step(c) PROVE KeptNow'
    BY <2>0, <2>2, KeptCreate, KeptSetRow, KeptFind, KeptRefreshHot, KeptTouchRow, KeptRefreshUser,
       KeptSwitch, KeptMark, KeptDropHot, KeptDropIndex, KeptDropRow, KeptTicket, KeptConsume,
       KeptReset DEF Step
  <2>3. ASSUME UNCHANGED <<token, hot, row, now, cluster, timeout, call>> PROVE KeptNow'
    BY <2>0, <2>3 DEF KeptNow, KeptCall, KeptToken, Gone, Kept, Noted, Delivered
  <2>4. ASSUME NEW t \in Tickets, NEW kind, CreateTicket(t, kind) PROVE KeptNow'
    BY <2>3, <2>4 DEF CreateTicket, Settings, store
  <2>5. ASSUME NEW k \in Tokens, CleanupRow(k) PROVE KeptNow'
    BY <2>0, <2>5, KeptCleanup
  <2>6. ASSUME NEW t \in Timeouts, ChangeTimeout(t) PROVE FALSE
    BY <2>0, <2>6 DEF ChangeTimeout, Fault
  <2>7. ASSUME NEW n \in Nodes, Restart(n) PROVE FALSE
    <3>1. Fault
      BY <2>7 DEF Restart
    <3> QED BY <2>0, <3>1 DEF Fault
  <2>8. CASE Tick
    BY <2>0, <2>8, KeptTick
  <2>9. CASE UNCHANGED vars
    BY <2>3, <2>9 DEF vars, store
  <2> QED BY <2>1, <2>2, <2>4, <2>5, <2>6, <2>7, <2>8, <2>9 DEF Next
<1> QED BY <1>1, <1>2, TypeInvariant, SessionInvariant, PTL DEF Spec

\* Without a failure, a session that is used is not lost: a request with its token is
\* refused only if somebody ends the session, if it was not stored, or if it was once
\* unused for the timeout, on a single node less the write window of the row.  This holds
\* for every number of requests at once, and however long they take.
THEOREM ActiveSessionKeptThm == Spec => []ActiveSessionKept
<1>1. TypeInv /\ SessionInv /\ KeptInv => ActiveSessionKept
  <2> SUFFICES ASSUME TypeInv, SessionInv, KeptInv, NEW c \in Calls, call[c].pc = "no", faults = 0
               PROVE  LET s == token[call[c].token] IN s.ending \/ ~s.stored \/ s.lapsed
    BY DEF ActiveSessionKept
  <2>1. KeptCall(call[c]) /\ CallShape(call[c])
    BY DEF SessionInv, KeptInv, KeptNow
  <2>2. Gone(call[c].token)
    BY <2>1 DEF KeptCall, CallShape
  <2> QED BY <2>2 DEF Gone
<1> QED BY <1>1, TypeInvariant, SessionInvariant, KeptInvariant, PTL

=============================================================================
