-------------------------- MODULE EgressPoolProofs --------------------------
(***************************************************************************)
(* For any number of callers, accounts and proxies, any threshold and any  *)
(* cooldown longer than a statement may be delayed, EgressPool keeps its   *)
(* types, consistent circuits and its rules of choice, and an open circuit *)
(* rests.                                                                  *)
(***************************************************************************)
EXTENDS EgressPool, TLAPS

-----------------------------------------------------------------------------
(* What the statements of the store do to a well-formed table. *)

Table == [ProxyIDs -> ProxyRow]

Sound(P) == P \in Table /\ \A i \in ProxyIDs : ConsistentCircuit(P[i])

\* No row of Q that is rested at n carries a cooldown its row of P did not.
NoLater(P, Q, n) ==
    \A i \in ProxyIDs : i \in Rested(Q, n) =>
        Q[i].cooldown_until = 0 \/ Q[i].cooldown_until = P[i].cooldown_until

\* A row that was never stored, or was deleted, is consistent.
LEMMA NewRowSound ==
    /\ \A e \in BOOLEAN : NewProxy(e) \in ProxyRow /\ ConsistentCircuit(NewProxy(e))
    /\ \A l \in {"unborn", "deleted"} :
          AbsentProxy(l) \in ProxyRow /\ ConsistentCircuit(AbsentProxy(l))
    /\ \A l : AbsentProxy(l).cooldown_until = 0
    /\ \A e : NewProxy(e).cooldown_until = 0
<1>1. ASSUME NEW l \in {"unborn", "live", "deleted"}, NEW e \in BOOLEAN
      PROVE  Untouched(l, e) \in ProxyRow /\ ConsistentCircuit(Untouched(l, e))
  BY ProxyStoreAssumption DEF Untouched, ProxyRow, ConsistentCircuit
<1>2. \A l, e : Untouched(l, e).cooldown_until = 0
  BY DEF Untouched
<1> QED
  BY <1>1, <1>2 DEF NewProxy, AbsentProxy

\* Replacing one row by a sound one keeps the table sound.
LEMMA ReplaceRow ==
    ASSUME NEW P, Sound(P), NEW i \in ProxyIDs, NEW row \in ProxyRow,
           ConsistentCircuit(row), NEW n,
           row.cooldown_until = 0 \/ row.cooldown_until = P[i].cooldown_until
             \/ row.cooldown_until > n
    PROVE  /\ Sound([P EXCEPT ![i] = row])
           /\ NoLater(P, [P EXCEPT ![i] = row], n)
BY DEF Sound, Table, NoLater, Rested

\* The three columns of the circuit decide whether a row is consistent.
LEMMA CircuitColumns ==
    ASSUME NEW r \in ProxyRow,
           \/ /\ r.status \in {"unknown", "healthy"}
              /\ r.failure_count = 0 /\ r.cooldown_until = 0
           \/ /\ r.status = "cooldown"
              /\ r.failure_count >= CircuitThreshold /\ r.cooldown_until > 0
           \/ /\ r.status = "unhealthy" /\ r.failure_count > 0
              /\ r.failure_count < CircuitThreshold /\ r.cooldown_until = 0
    PROVE  ConsistentCircuit(r)
BY ProxyStoreAssumption DEF ProxyRow, ConsistentCircuit

\* Creation, deletion, reset, edit and pick.
LEMMA EditsSound ==
    ASSUME NEW P, Sound(P), NEW i \in ProxyIDs, NEW e \in BOOLEAN,
           NEW u \in BOOLEAN, NEW t \in Nat, NEW n \in Nat
    PROVE  /\ Sound(CreateProxy(P, i, e)) /\ NoLater(P, CreateProxy(P, i, e), n)
           /\ Sound(DeleteProxy(P, i)) /\ NoLater(P, DeleteProxy(P, i), n)
           /\ Sound(ResetProxy(P, i)) /\ NoLater(P, ResetProxy(P, i), n)
           /\ Sound(UpdateProxy(P, i, e, u)) /\ NoLater(P, UpdateProxy(P, i, e, u), n)
           /\ Sound(PickProxy(P, i, t)) /\ NoLater(P, PickProxy(P, i, t), n)
<1>0. P[i] \in ProxyRow /\ ConsistentCircuit(P[i])
  BY DEF Sound, Table
<1>1. Sound(CreateProxy(P, i, e)) /\ NoLater(P, CreateProxy(P, i, e), n)
  BY NewRowSound, ReplaceRow DEF CreateProxy
<1>2. Sound(DeleteProxy(P, i)) /\ NoLater(P, DeleteProxy(P, i), n)
  BY NewRowSound, ReplaceRow DEF DeleteProxy
<1>3. NoLater(P, P, n)
  BY DEF NoLater
<1>4. Sound(ResetProxy(P, i)) /\ NoLater(P, ResetProxy(P, i), n)
  <2> DEFINE row(r) == [r EXCEPT !.status = "unknown", !.failure_count = 0,
                                 !.cooldown_until = 0]
  <2>1. ASSUME NEW r \in ProxyRow
        PROVE  row(r) \in ProxyRow /\ ConsistentCircuit(row(r)) /\ row(r).cooldown_until = 0
    <3>1. row(r) \in ProxyRow
      BY DEF ProxyRow
    <3>2. /\ row(r).status = "unknown" /\ row(r).failure_count = 0
          /\ row(r).cooldown_until = 0
      BY DEF ProxyRow
    <3> HIDE DEF row
    <3> QED
      BY <3>1, <3>2, CircuitColumns
  <2>2. ResetProxy(P, i) = P \/ ResetProxy(P, i) = [P EXCEPT ![i] = row(P[i])]
    BY DEF ResetProxy, UpdateWhere
  <2> HIDE DEF row
  <2> QED
    BY <1>0, <1>3, <2>1, <2>2, ReplaceRow
<1>5. Sound(UpdateProxy(P, i, e, u)) /\ NoLater(P, UpdateProxy(P, i, e, u), n)
  <2> DEFINE row(r) == [r EXCEPT !.enabled = e,
                                 !.status = IF u THEN "unknown" ELSE @,
                                 !.failure_count = IF u THEN 0 ELSE @,
                                 !.cooldown_until = IF u THEN 0 ELSE @]
  <2>1. ASSUME NEW r \in ProxyRow, ConsistentCircuit(r)
        PROVE  /\ row(r) \in ProxyRow /\ ConsistentCircuit(row(r))
               /\ row(r).cooldown_until = 0 \/ row(r).cooldown_until = r.cooldown_until
    <3>1. row(r) \in ProxyRow
      BY DEF ProxyRow
    <3>2. CASE u
      <4>1. /\ row(r).status = "unknown" /\ row(r).failure_count = 0
            /\ row(r).cooldown_until = 0
        BY <3>2 DEF ProxyRow
      <4> HIDE DEF row
      <4> QED
        BY <3>1, <4>1, CircuitColumns
    <3>3. CASE ~u
      <4>1. /\ row(r).status = r.status /\ row(r).failure_count = r.failure_count
            /\ row(r).cooldown_until = r.cooldown_until
        BY <3>3 DEF ProxyRow
      <4> HIDE DEF row
      <4> QED
        BY <2>1, <3>1, <4>1 DEF ConsistentCircuit
    <3> QED
      BY <3>2, <3>3
  <2>2. \/ UpdateProxy(P, i, e, u) = P
        \/ UpdateProxy(P, i, e, u) = [P EXCEPT ![i] = row(P[i])]
    BY DEF UpdateProxy, UpdateWhere
  <2> HIDE DEF row
  <2> QED
    BY <1>0, <1>3, <2>1, <2>2, ReplaceRow
<1>6. Sound(PickProxy(P, i, t)) /\ NoLater(P, PickProxy(P, i, t), n)
  <2> DEFINE row(r) == [r EXCEPT !.last_used_at = t]
  <2>1. ASSUME NEW r \in ProxyRow, ConsistentCircuit(r)
        PROVE  /\ row(r) \in ProxyRow /\ ConsistentCircuit(row(r))
               /\ row(r).cooldown_until = r.cooldown_until
    <3>1. /\ row(r) \in ProxyRow /\ row(r).status = r.status
          /\ row(r).failure_count = r.failure_count
          /\ row(r).cooldown_until = r.cooldown_until
      BY DEF ProxyRow
    <3> HIDE DEF row
    <3> QED
      BY <2>1, <3>1 DEF ConsistentCircuit
  <2>2. PickProxy(P, i, t) = [P EXCEPT ![i] = row(P[i])]
    BY DEF PickProxy, Sound, Table
  <2> HIDE DEF row
  <2>3. /\ row(P[i]) \in ProxyRow /\ ConsistentCircuit(row(P[i]))
        /\ row(P[i]).cooldown_until = P[i].cooldown_until
    BY <1>0, <2>1
  <2>4. /\ Sound([P EXCEPT ![i] = row(P[i])])
        /\ NoLater(P, [P EXCEPT ![i] = row(P[i])], n)
    BY <2>3, ReplaceRow
  <2> QED
    BY <2>2, <2>4
<1> QED
  BY <1>1, <1>2, <1>4, <1>5, <1>6

\* A report read the clock at most MaxDelay ago, so the cooldown it sets is
\* still ahead of the clock.
LEMMA ReportSound ==
    ASSUME NEW P, Sound(P), NEW i \in ProxyIDs, NEW ok \in BOOLEAN,
           NEW t \in Nat, NEW n \in Nat, n - t <= MaxDelay
    PROVE  Sound(ReportProxy(P, i, ok, t)) /\ NoLater(P, ReportProxy(P, i, ok, t), n)
<1>0. P[i] \in ProxyRow /\ ConsistentCircuit(P[i]) /\ i \in DOMAIN P
  BY DEF Sound, Table
<1>1. NoLater(P, P, n)
  BY DEF NoLater
<1> DEFINE good(r) == [r EXCEPT !.status = "healthy", !.failure_count = 0,
                                !.cooldown_until = 0]
           bad(r) == [r EXCEPT !.status = IF Trips(r) THEN "cooldown" ELSE "unhealthy",
                               !.failure_count = @ + 1,
                               !.cooldown_until = IF Trips(r) THEN t + Cooldown ELSE @]
<1>2. ASSUME NEW r \in ProxyRow
      PROVE  good(r) \in ProxyRow /\ ConsistentCircuit(good(r)) /\ good(r).cooldown_until = 0
  <2>1. /\ good(r) \in ProxyRow /\ good(r).status = "healthy"
        /\ good(r).failure_count = 0 /\ good(r).cooldown_until = 0
    BY DEF ProxyRow
  <2> HIDE DEF good
  <2> QED
    BY <2>1, CircuitColumns
<1>3. ASSUME NEW r \in ProxyRow, ConsistentCircuit(r)
      PROVE  /\ bad(r) \in ProxyRow /\ ConsistentCircuit(bad(r))
             /\ bad(r).cooldown_until = r.cooldown_until \/ bad(r).cooldown_until > n
  <2>0. r.failure_count \in Nat /\ r.cooldown_until \in Nat
    BY DEF ProxyRow
  <2>1. CASE Trips(r)
    <3>1. bad(r) \in ProxyRow
      <4>1. t + Cooldown \in Nat /\ r.failure_count + 1 \in Nat
        BY <2>0, ProxyStoreAssumption
      <4>2. bad(r) = [r EXCEPT !.status = "cooldown",
                               !.failure_count = r.failure_count + 1,
                               !.cooldown_until = t + Cooldown]
        BY <2>1
      <4> QED
        BY <4>1, <4>2 DEF ProxyRow
    <3>2. /\ bad(r).status = "cooldown" /\ bad(r).failure_count = r.failure_count + 1
          /\ bad(r).cooldown_until = t + Cooldown
      BY <2>1 DEF ProxyRow
    <3> HIDE DEF bad
    <3>3. bad(r).cooldown_until > n /\ bad(r).cooldown_until > 0
      BY <3>2, ProxyStoreAssumption, EgressPoolAssumption
    <3>4. bad(r).failure_count >= CircuitThreshold
      BY <2>0, <2>1, <3>2 DEF Trips
    <3> QED
      BY <3>1, <3>2, <3>3, <3>4, CircuitColumns
  <2>2. CASE ~Trips(r)
    <3>1. bad(r) \in ProxyRow
      <4>1. r.failure_count + 1 \in Nat
        BY <2>0
      <4>2. bad(r) = [r EXCEPT !.status = "unhealthy",
                               !.failure_count = r.failure_count + 1,
                               !.cooldown_until = r.cooldown_until]
        BY <2>2
      <4> QED
        BY <4>1, <4>2 DEF ProxyRow
    <3>2. /\ bad(r).status = "unhealthy" /\ bad(r).failure_count = r.failure_count + 1
          /\ bad(r).cooldown_until = r.cooldown_until
      BY <2>2 DEF ProxyRow
    <3> HIDE DEF bad
    <3>3. r.failure_count + 1 < CircuitThreshold
      BY <2>0, <2>2, ProxyStoreAssumption DEF Trips
    <3>4. r.cooldown_until = 0
      BY <1>3, <2>0, <3>3, ProxyStoreAssumption DEF ConsistentCircuit
    <3> QED
      BY <2>0, <3>1, <3>2, <3>3, <3>4, CircuitColumns
  <2> QED
    BY <2>1, <2>2
<1>4. \/ ReportProxy(P, i, ok, t) = P
      \/ ReportProxy(P, i, ok, t) = [P EXCEPT ![i] = good(P[i])]
      \/ ReportProxy(P, i, ok, t) = [P EXCEPT ![i] = bad(P[i])]
  BY <1>0 DEF ReportProxy, UpdateWhere
<1> HIDE DEF good, bad
<1> QED
  BY <1>0, <1>1, <1>2, <1>3, <1>4, ReplaceRow

-----------------------------------------------------------------------------
(* The inductive invariant.  The histories are current, and while a caller  *)
(* chooses, a proxy that stayed usable had its cooldown behind it when the  *)
(* caller began; the rest says what the program counter implies.            *)

Watched(c) ==
    enabledSince[c] \subseteq SwitchedOn(proxies) /\ usableSince[c] \subseteq Rested(proxies, now)

Rule(r, enabled, usable, P, n) ==
    /\ r.since <= n
    /\ r.pc \in {"count", "pick"} => \A i \in usable : P[i].cooldown_until <= r.since
    /\ r.pc = "bind" => r.preferred = NoProxy /\ r.proxy \in ProxyIDs
    /\ r.pc = "read" => r.probe
    /\ r.pc = "refused" => usable = {}
    /\ r.pc = "inflight" /\ ~r.probe =>
          /\ r.proxy = NoProxy /\ ~r.direct => enabled = {}
          /\ r.preferred \in usable => r.proxy = r.preferred

CallerRule(c) == Rule(call[c], enabledSince[c], usableSince[c], proxies, now)

IInv ==
    /\ TypeOK
    /\ CircuitConsistent
    /\ \A c \in Callers : Watched(c) /\ CallerRule(c)

\* Observe alone keeps the histories typed and current.
LEMMA ObserveWatched ==
    ASSUME Observe
    PROVE  /\ enabledSince' \in [Callers -> SUBSET ProxyIDs]
           /\ usableSince' \in [Callers -> SUBSET ProxyIDs]
           /\ \A c \in Callers : Watched(c)'
           /\ \A c \in Callers : call'[c] = call[c] \/ ~Began(c) =>
                 /\ enabledSince'[c] \subseteq enabledSince[c]
                 /\ usableSince'[c] \subseteq usableSince[c]
<1>1. \A c \in Callers :
         /\ enabledSince'[c] = Since(c, enabledSince[c], SwitchedOn(proxies'))
         /\ usableSince'[c] = Since(c, usableSince[c], Rested(proxies', now'))
  BY DEF Observe
<1>2. SwitchedOn(proxies') \subseteq ProxyIDs /\ Rested(proxies', now') \subseteq ProxyIDs
  BY DEF SwitchedOn, Rested
<1>3. \A c \in Callers : \A old, new :
         /\ Since(c, old, new) \subseteq new
         /\ call'[c] = call[c] \/ ~Began(c) => Since(c, old, new) \subseteq old
  BY DEF Since, Began
<1>4. /\ enabledSince' \in [Callers -> SUBSET ProxyIDs]
      /\ usableSince' \in [Callers -> SUBSET ProxyIDs]
  BY <1>2, <1>3 DEF Observe
<1>5. \A c \in Callers : Watched(c)'
  BY <1>1, <1>3 DEF Watched
<1> QED
  BY <1>1, <1>3, <1>4, <1>5

\* A caller that does not move keeps its rule whatever the others do.
LEMMA Quiet ==
    ASSUME IInv, Observe, now' \in Nat, now' >= now,
           Sound(proxies'), NoLater(proxies, proxies', now'),
           NEW c \in Callers, call'[c] = call[c]
    PROVE  CallerRule(c)'
<1> DEFINE r == call[c]
<1>0. r \in CallRecord /\ r.since \in Nat /\ now \in Nat /\ proxies \in Table
  BY DEF IInv, TypeOK, CallRecord, Table
<1>1. /\ enabledSince'[c] \subseteq enabledSince[c]
      /\ usableSince'[c] \subseteq usableSince[c]
      /\ usableSince'[c] \subseteq Rested(proxies', now')
  BY ObserveWatched DEF Watched
<1>2. Rule(r, enabledSince[c], usableSince[c], proxies, now)
  BY DEF IInv, CallerRule
<1>3. r.since <= now'
  BY <1>0, <1>2 DEF Rule
<1>4. ASSUME r.pc \in {"count", "pick"}, NEW i \in usableSince'[c]
      PROVE  proxies'[i].cooldown_until <= r.since
  <2>1. proxies[i].cooldown_until <= r.since
    BY <1>1, <1>2, <1>4 DEF Rule
  <2>2. i \in Rested(proxies', now') /\ i \in ProxyIDs
    BY <1>1 DEF Rested, SwitchedOn
  <2>3. \/ proxies'[i].cooldown_until = 0
        \/ proxies'[i].cooldown_until = proxies[i].cooldown_until
    BY <2>2 DEF NoLater
  <2> QED
    BY <1>0, <2>1, <2>3
<1> HIDE DEF r
<1>5. Rule(r, enabledSince'[c], usableSince'[c], proxies', now')
  BY <1>1, <1>2, <1>3, <1>4 DEF Rule
<1> QED
  BY <1>5 DEF CallerRule, r

\* A step of one caller keeps the invariant if it leaves that caller in order.
LEMMA Moves ==
    ASSUME IInv, Observe, now' = now,
           Sound(proxies'), NoLater(proxies, proxies', now),
           proxy_id' \in [AccountIDs -> ProxyIDs \cup {NoProxy}],
           failureRun' \in [ProxyIDs -> [length : Nat, last : Nat]],
           NEW c \in Callers, NEW r \in CallRecord, call' = [call EXCEPT ![c] = r],
           Rule(r, enabledSince'[c], usableSince'[c], proxies', now)
    PROVE  IInv'
<1>0. now \in Nat /\ call \in [Callers -> CallRecord]
  BY DEF IInv, TypeOK
<1>1. TypeOK' /\ CircuitConsistent'
  BY <1>0, ObserveWatched DEF TypeOK, CircuitConsistent, Sound, Table
<1>2. ASSUME NEW d \in Callers PROVE CallerRule(d)'
  <2>1. CASE d = c
    <3>1. call'[d] = r
      BY <1>0, <2>1
    <3> QED
      BY <2>1, <3>1 DEF CallerRule
  <2>2. CASE d # c
    <3>1. call'[d] = call[d]
      BY <1>0, <2>2
    <3> QED
      BY <1>0, <3>1, Quiet
  <2> QED
    BY <2>1, <2>2
<1> QED
  BY <1>1, <1>2, ObserveWatched DEF IInv

\* A step of the administrator or of the clock moves no caller.
LEMMA Edits ==
    ASSUME IInv, Observe, now' \in Nat, now' >= now,
           Sound(proxies'), NoLater(proxies, proxies', now'),
           proxy_id' \in [AccountIDs -> ProxyIDs \cup {NoProxy}],
           failureRun' \in [ProxyIDs -> [length : Nat, last : Nat]],
           call' = call
    PROVE  IInv'
<1>1. TypeOK' /\ CircuitConsistent'
  BY ObserveWatched DEF IInv, TypeOK, CircuitConsistent, Sound, Table
<1>2. \A c \in Callers : CallerRule(c)'
  BY Quiet
<1> QED
  BY <1>1, <1>2, ObserveWatched DEF IInv

-----------------------------------------------------------------------------
(* Every step keeps the invariant. *)

PCs == {"idle", "count", "pick", "bind", "read", "inflight", "refused", "report"}

LEMMA Here ==
    ASSUME IInv
    PROVE  /\ now \in Nat /\ call \in [Callers -> CallRecord]
           /\ proxy_id \in [AccountIDs -> ProxyIDs \cup {NoProxy}]
           /\ failureRun \in [ProxyIDs -> [length : Nat, last : Nat]]
           /\ Sound(proxies) /\ \A n : NoLater(proxies, proxies, n)
           /\ \A c \in Callers :
                 Rule(call[c], enabledSince[c], usableSince[c], proxies, now)
BY DEF IInv, TypeOK, CircuitConsistent, Sound, Table, NoLater, CallerRule

LEMMA IdleInOrder ==
    ASSUME NEW enabled, NEW usable, NEW P, NEW n \in Nat
    PROVE  Idle \in CallRecord /\ Rule(Idle, enabled, usable, P, n)
BY DEF Idle, CallRecord, Rule, NoProxy

LEMMA LocalsFields ==
    ASSUME NEW r \in CallRecord, NEW pc \in PCs
    PROVE  /\ Locals(r, pc) \in CallRecord
           /\ Locals(r, pc).pc = pc
           /\ Locals(r, pc).probe = r.probe
           /\ Locals(r, pc).acct = r.acct
           /\ Locals(r, pc).preferred = r.preferred
           /\ Locals(r, pc).direct = r.direct
           /\ Locals(r, pc).proxy = r.proxy
           /\ pc # "inflight" => Locals(r, pc).since = r.since
           /\ pc = "inflight" => Locals(r, pc).since = 0
<1>1. CASE pc = "inflight"
  BY <1>1 DEF Locals, CallRecord
<1>2. CASE pc # "inflight"
  BY <1>2 DEF Locals, CallRecord, PCs
<1> QED
  BY <1>1, <1>2

LEMMA BeginsSafe ==
    ASSUME IInv, NEW c \in Callers, BeginRequest(c) \/ BeginProbe(c)
    PROVE  IInv'
<1>1. CASE BeginRequest(c)
  <2>1. PICK a \in AccountIDs \cup {NoAccount}, direct \in BOOLEAN :
           call' = [call EXCEPT ![c] =
              Requesting(a, IF a = NoAccount THEN NoProxy ELSE proxy_id[a], direct)]
    BY <1>1 DEF BeginRequest
  <2> DEFINE p == IF a = NoAccount THEN NoProxy ELSE proxy_id[a]
             r == Requesting(a, p, direct)
  <2>3. p \in ProxyIDs \cup {NoProxy}
    BY Here
  <2>4. r \in CallRecord
    BY <2>3, Here DEF CallRecord, Requesting
  <2>5. \A i \in usableSince'[c] : proxies'[i].cooldown_until <= now
    <3>1. usableSince'[c] \subseteq Rested(proxies', now')
      BY <1>1, ObserveWatched DEF BeginRequest, Watched
    <3>2. now' = now /\ proxies' = proxies
      BY <1>1 DEF BeginRequest, poolVars
    <3> QED
      BY <3>1, <3>2, Here DEF Rested, SwitchedOn, Sound, Table, ProxyRow
  <2>6. Rule(r, enabledSince'[c], usableSince'[c], proxies', now)
    BY <2>5, Here DEF Rule, Requesting
  <2> HIDE DEF r
  <2>7. call' = [call EXCEPT ![c] = r]
    BY <2>1 DEF r
  <2> QED
    BY <1>1, <2>4, <2>6, <2>7, Here, Moves DEF BeginRequest, poolVars
<1>2. CASE BeginProbe(c)
  <2>1. PICK a \in AccountIDs \cup {NoAccount}, i \in ProxyIDs \cup {NoProxy} :
           /\ a # NoAccount \/ i # NoProxy
           /\ call' = [call EXCEPT ![c] =
                         Probing(a, IF i = NoProxy THEN proxy_id[a] ELSE i)]
    BY <1>2 DEF BeginProbe
  <2> DEFINE p == IF i = NoProxy THEN proxy_id[a] ELSE i
             r == Probing(a, p)
  <2>2. call' = [call EXCEPT ![c] = r]
    BY <2>1
  <2>3. p \in ProxyIDs \cup {NoProxy}
    BY <2>1, Here
  <2> HIDE DEF p
  <2>4. r \in CallRecord
    BY <2>3, Here DEF CallRecord, Probing
  <2>5. Rule(r, enabledSince'[c], usableSince'[c], proxies', now)
    BY Here DEF Rule, Probing
  <2> HIDE DEF r
  <2> QED
    BY <1>2, <2>2, <2>4, <2>5, Here, Moves DEF BeginProbe, poolVars
<1> QED
  BY <1>1, <1>2

LEMMA ReturnsSafe ==
    ASSUME IInv, NEW c \in Callers,
           \/ StoreError(c) \/ Refuse(c) \/ LoseReport(c)
           \/ \E outcome \in {"ok", "failed", "credential"} : Return(c, outcome)
    PROVE  IInv'
<1>1. /\ now' = now /\ proxies' = proxies /\ proxy_id' = proxy_id
      /\ failureRun' = failureRun /\ Observe
  BY DEF StoreError, Refuse, LoseReport, Return, poolVars
<1>2. CASE Done(c)
  BY <1>1, <1>2, Here, IdleInOrder, Moves DEF Done
<1>3. CASE \E outcome \in {"ok", "failed", "credential"} : Return(c, outcome) /\ ~Done(c)
  <2>1. PICK ok \in BOOLEAN : call' = [call EXCEPT ![c] = Reporting(call[c].proxy, ok)]
    BY <1>3 DEF Return
  <2> DEFINE q == Reporting(call[c].proxy, ok)
  <2>2. call' = [call EXCEPT ![c] = q]
    BY <2>1
  <2>3. q \in CallRecord
    BY Here DEF CallRecord, Reporting
  <2>4. Rule(q, enabledSince'[c], usableSince'[c], proxies', now)
    BY Here DEF Rule, Reporting
  <2> HIDE DEF q
  <2> QED
    BY <1>1, <2>2, <2>3, <2>4, Here, Moves
<1> QED
  BY <1>2, <1>3 DEF StoreError, Refuse, LoseReport

LEMMA SwitchedOnIsEnabled ==
    ASSUME NEW P, Sound(P), NEW t
    PROVE  /\ EnabledProxies(P) = SwitchedOn(P)
           /\ \A i : i \in UsableProxies(P, t) <=>
                 i \in SwitchedOn(P) /\ P[i].cooldown_until <= t
BY DEF Sound, Table, EnabledProxies, SwitchedOn, UsableProxies

\* The history of a caller that goes on choosing only shrinks, and the
\* proxies it still holds were rested when the caller began.
LEMMA StillChoosing ==
    ASSUME IInv, Observe, now' = now, Sound(proxies'),
           NoLater(proxies, proxies', now),
           NEW c \in Callers, call[c].pc # "idle"
    PROVE  /\ enabledSince'[c] \subseteq enabledSince[c]
           /\ usableSince'[c] \subseteq usableSince[c]
           /\ enabledSince'[c] \subseteq SwitchedOn(proxies')
           /\ usableSince'[c] \subseteq Rested(proxies', now')
           /\ call[c].pc \in {"count", "pick"} =>
                 \A i \in usableSince'[c] : /\ i \in SwitchedOn(proxies)
                                            /\ i \in ProxyIDs
                                            /\ proxies[i].cooldown_until <= call[c].since
                                            /\ proxies'[i].cooldown_until <= call[c].since
<1>1. /\ enabledSince'[c] \subseteq enabledSince[c]
      /\ usableSince'[c] \subseteq usableSince[c]
      /\ enabledSince'[c] \subseteq SwitchedOn(proxies')
      /\ usableSince'[c] \subseteq Rested(proxies', now')
  BY ObserveWatched DEF Began, Watched
<1>2. ASSUME call[c].pc \in {"count", "pick"}, NEW i \in usableSince'[c]
      PROVE  /\ i \in SwitchedOn(proxies)
             /\ i \in ProxyIDs
             /\ proxies[i].cooldown_until <= call[c].since
             /\ proxies'[i].cooldown_until <= call[c].since
  <2>1. i \in usableSince[c] /\ i \in Rested(proxies', now)
    BY <1>1
  <2>2. proxies[i].cooldown_until <= call[c].since
    BY <1>2, <2>1, Here DEF Rule
  <2>3. i \in SwitchedOn(proxies) /\ i \in ProxyIDs
    BY <2>1 DEF IInv, Watched, Rested, SwitchedOn
  <2>4. call[c].since \in Nat
    BY Here DEF CallRecord
  <2>5. \/ proxies'[i].cooldown_until = 0
        \/ proxies'[i].cooldown_until = proxies[i].cooldown_until
    BY <2>1, <2>3 DEF NoLater
  <2> QED
    BY <2>2, <2>3, <2>4, <2>5
<1> QED
  BY <1>1, <1>2

LEMMA CountSafe ==
    ASSUME IInv, NEW c \in Callers, CountProxies(c)
    PROVE  IInv'
<1> DEFINE pc == IF EnabledProxies(proxies) = {} THEN "inflight" ELSE "pick"
           r == Locals(call[c], pc)
<1>1. /\ now' = now /\ proxies' = proxies /\ proxy_id' = proxy_id
      /\ failureRun' = failureRun /\ Observe /\ call[c].pc = "count"
      /\ call' = [call EXCEPT ![c] = r]
  BY Here DEF CountProxies, poolVars, Goto
<1>2. pc \in PCs /\ call[c] \in CallRecord
  BY Here DEF PCs
<1>3. /\ r \in CallRecord /\ r.pc = pc /\ r.probe = call[c].probe
      /\ r.preferred = call[c].preferred /\ r.direct = call[c].direct
      /\ r.proxy = call[c].proxy
      /\ pc # "inflight" => r.since = call[c].since
      /\ pc = "inflight" => r.since = 0
  BY <1>2, LocalsFields
<1>4. Rule(call[c], enabledSince[c], usableSince[c], proxies, now)
  BY Here
<1> HIDE DEF r
<1>5. Rule(r, enabledSince'[c], usableSince'[c], proxies', now)
  <2>1. CASE EnabledProxies(proxies) = {}
    <3>1. enabledSince'[c] = {} /\ usableSince'[c] = {}
      BY <1>1, <2>1, Here, SwitchedOnIsEnabled, StillChoosing, ZenonT(30) DEF Rested
    <3> QED
      BY <1>3, <2>1, <3>1, Here DEF Rule
  <2>2. CASE EnabledProxies(proxies) # {}
    BY <1>1, <1>3, <1>4, <2>2, Here, StillChoosing DEF Rule
  <2> QED
    BY <2>1, <2>2
<1> QED
  BY <1>1, <1>3, <1>5, Here, Moves

LEMMA PickNoProxySafe ==
    ASSUME IInv, NEW c \in Callers, NEW t \in ClockReadings(c), PickNoProxy(c, t)
    PROVE  IInv'
<1> DEFINE pc == IF call[c].direct THEN "inflight" ELSE "refused"
           r == Locals(call[c], pc)
<1>1. /\ now' = now /\ proxies' = proxies /\ proxy_id' = proxy_id
      /\ failureRun' = failureRun /\ Observe /\ call[c].pc = "pick"
      /\ call' = [call EXCEPT ![c] = r] /\ UsableProxies(proxies, t) = {}
  BY Here DEF PickNoProxy, poolVars, Goto
<1>2. pc \in PCs /\ call[c] \in CallRecord
  BY Here DEF PCs
<1>3. /\ r \in CallRecord /\ r.pc = pc /\ r.probe = call[c].probe
      /\ r.preferred = call[c].preferred /\ r.direct = call[c].direct
      /\ r.proxy = call[c].proxy
      /\ pc # "inflight" => r.since = call[c].since
      /\ pc = "inflight" => r.since = 0
  BY <1>2, LocalsFields
<1>4. Rule(call[c], enabledSince[c], usableSince[c], proxies, now)
  BY Here
<1>5. call[c].since <= t /\ call[c].since \in Nat /\ t \in Nat
  BY <1>2, Here DEF ClockReadings, CallRecord
<1>6. usableSince'[c] = {}
  <2> SUFFICES ASSUME NEW i \in usableSince'[c] PROVE FALSE
    OBVIOUS
  <2>1. /\ i \in SwitchedOn(proxies) /\ i \in ProxyIDs
        /\ proxies[i].cooldown_until <= call[c].since
    BY <1>1, Here, StillChoosing
  <2>2. proxies[i].cooldown_until \in Nat
    BY <2>1, Here DEF Sound, Table, ProxyRow
  <2>3. i \in UsableProxies(proxies, t)
    BY <1>5, <2>1, <2>2, Here, SwitchedOnIsEnabled
  <2> QED
    BY <1>1, <2>3
<1> HIDE DEF r
<1>7. Rule(r, enabledSince'[c], usableSince'[c], proxies', now)
  BY <1>3, <1>4, <1>6, Here DEF Rule
<1> QED
  BY <1>1, <1>3, <1>7, Here, Moves

LEMMA PickProxySafe ==
    ASSUME IInv, NEW c \in Callers, NEW t \in ClockReadings(c), NEW i \in ProxyIDs,
           PickProxyFor(c, i, t)
    PROVE  IInv'
<1> DEFINE pc == IF call[c].acct # NoAccount /\ call[c].preferred = NoProxy
                 THEN "bind" ELSE "inflight"
           q == Locals(call[c], pc)
           r == [q EXCEPT !.proxy = i]
<1>1. /\ now' = now /\ proxies' = PickProxy(proxies, i, t) /\ proxy_id' = proxy_id
      /\ failureRun' = failureRun /\ Observe /\ call[c].pc = "pick"
      /\ call' = [call EXCEPT ![c] = r]
      /\ IsPickedProxy(proxies, call[c].preferred, t, i)
  BY Here DEF PickProxyFor
<1>2. pc \in PCs /\ call[c] \in CallRecord
  BY Here DEF PCs
<1>3. /\ q \in CallRecord /\ q.pc = pc /\ q.probe = call[c].probe
      /\ q.preferred = call[c].preferred /\ q.direct = call[c].direct
      /\ pc # "inflight" => q.since = call[c].since
      /\ pc = "inflight" => q.since = 0
  BY <1>2, LocalsFields
<1> HIDE DEF q
<1>4. /\ r \in CallRecord /\ r.pc = pc /\ r.probe = call[c].probe
      /\ r.preferred = call[c].preferred /\ r.direct = call[c].direct
      /\ r.proxy = i
      /\ pc # "inflight" => r.since = call[c].since
      /\ pc = "inflight" => r.since = 0
  BY <1>3 DEF CallRecord
<1> HIDE DEF r
<1>5. call[c].since <= t /\ call[c].since \in Nat /\ t \in Nat /\ call[c].since <= now
  BY <1>2, Here DEF ClockReadings, CallRecord, Rule
<1>6. Sound(proxies') /\ NoLater(proxies, proxies', now)
  BY <1>1, <1>5, Here, EditsSound
<1>7. ASSUME call[c].preferred \in usableSince'[c] PROVE call[c].preferred = i
  <2> DEFINE j == call[c].preferred
  <2>1. /\ j \in SwitchedOn(proxies) /\ j \in ProxyIDs
        /\ proxies[j].cooldown_until <= call[c].since
    BY <1>1, <1>6, <1>7, StillChoosing
  <2>2. proxies[j].cooldown_until \in Nat
    BY <2>1, Here DEF Sound, Table, ProxyRow
  <2>3. j \in UsableProxies(proxies, t)
    BY <1>5, <2>1, <2>2, Here, SwitchedOnIsEnabled
  <2>4. j # i => PicksBefore(proxies, j, i, j)
    BY <1>1, <2>3 DEF IsPickedProxy
  <2> QED
    BY <2>4 DEF PicksBefore
<1>8. Rule(r, enabledSince'[c], usableSince'[c], proxies', now)
  <2>1. i # NoProxy
    BY ProxyStoreAssumption DEF NoProxy, ProxyIDs
  <2>2. r.since <= now
    BY <1>4, <1>5, Here
  <2>3. CASE pc = "bind"
    <3>1. call[c].preferred = NoProxy
      BY <2>3
    <3> QED
      BY <1>4, <2>2, <2>3, <3>1 DEF Rule
  <2>4. CASE pc = "inflight"
    BY <1>4, <1>7, <2>1, <2>2, <2>4 DEF Rule
  <2> QED
    BY <2>3, <2>4
<1> QED
  BY <1>1, <1>4, <1>6, <1>8, Here, Moves

LEMMA BindSafe ==
    ASSUME IInv, NEW c \in Callers, BindAccountProxy(c)
    PROVE  IInv'
<1> DEFINE r == Locals(call[c], "inflight")
<1>0. call[c] \in CallRecord /\ "inflight" \in PCs
  BY Here DEF PCs
<1>1. /\ now' = now /\ proxies' = proxies
      /\ failureRun' = failureRun /\ Observe /\ call[c].pc = "bind"
      /\ call' = [call EXCEPT ![c] = r]
  BY Here DEF BindAccountProxy, Goto
<1>2. /\ r \in CallRecord /\ r.pc = "inflight" /\ r.preferred = call[c].preferred
      /\ r.proxy = call[c].proxy /\ r.since = 0
  BY <1>0, LocalsFields
<1>3. call[c].preferred = NoProxy /\ call[c].proxy \in ProxyIDs
  BY <1>1, Here DEF Rule
<1>4. proxy_id' \in [AccountIDs -> ProxyIDs \cup {NoProxy}]
  BY <1>3, Here DEF BindAccountProxy
<1>5. NoProxy \notin ProxyIDs
  BY ProxyStoreAssumption DEF NoProxy, ProxyIDs
<1>6. usableSince'[c] \subseteq ProxyIDs
  BY <1>1, ObserveWatched
<1> HIDE DEF r
<1>7. Rule(r, enabledSince'[c], usableSince'[c], proxies', now)
  BY <1>2, <1>3, <1>5, <1>6, Here DEF Rule
<1> QED
  BY <1>1, <1>2, <1>4, <1>7, Here, Moves

LEMMA ReadSafe ==
    ASSUME IInv, NEW c \in Callers, ReadProbedProxy(c)
    PROVE  IInv'
<1>1. /\ now' = now /\ proxies' = proxies /\ proxy_id' = proxy_id
      /\ failureRun' = failureRun /\ Observe /\ call[c].pc = "read"
  BY DEF ReadProbedProxy, poolVars
<1>2. CASE Done(c)
  BY <1>1, <1>2, Here, IdleInOrder, Moves DEF Done
<1>3. CASE LiveProxy(proxies, call[c].preferred)
  <2> DEFINE q == Locals(call[c], "inflight")
             r == [q EXCEPT !.proxy = call[c].preferred]
  <2>0. call[c] \in CallRecord /\ "inflight" \in PCs
    BY Here DEF PCs
  <2>1. call' = [call EXCEPT ![c] = r]
    BY <1>3, Here DEF ReadProbedProxy
  <2>2. q \in CallRecord /\ q.pc = "inflight" /\ q.probe = call[c].probe /\ q.since = 0
    BY <2>0, LocalsFields
  <2>3. call[c].preferred \in ProxyIDs \cup {NoProxy} /\ call[c].probe
    BY <1>1, <2>0, Here DEF CallRecord, Rule
  <2> HIDE DEF q
  <2>4. r \in CallRecord /\ r.pc = "inflight" /\ r.probe /\ r.since = 0
    BY <2>2, <2>3 DEF CallRecord
  <2> HIDE DEF r
  <2>5. Rule(r, enabledSince'[c], usableSince'[c], proxies', now)
    BY <2>4, Here DEF Rule
  <2> QED
    BY <1>1, <2>1, <2>4, <2>5, Here, Moves
<1> QED
  BY <1>2, <1>3 DEF ReadProbedProxy

LEMMA ReportSafe ==
    ASSUME IInv, NEW c \in Callers, NEW t \in ClockReadings(c), ReportProxyFor(c, t)
    PROVE  IInv'
<1>1. /\ now' = now /\ proxy_id' = proxy_id /\ Observe
      /\ proxies' = ReportProxy(proxies, call[c].proxy, call[c].ok, t)
      /\ call' = [call EXCEPT ![c] = Idle]
  BY DEF ReportProxyFor, Done
<1>2. call[c] \in CallRecord
  BY Here
<1>3. call[c].ok \in BOOLEAN /\ call[c].since \in Nat
  BY <1>2 DEF CallRecord
<1>4. t \in Nat /\ now - t <= MaxDelay
  BY <1>3, Here DEF ClockReadings
<1>5. Sound(proxies') /\ NoLater(proxies, proxies', now)
  <2>1. CASE call[c].proxy \in ProxyIDs
    BY <1>1, <1>3, <1>4, <2>1, Here, ReportSound
  <2>2. CASE call[c].proxy \notin ProxyIDs
    <3>1. proxies' = proxies
      BY <1>1, <2>2, Here DEF ReportProxy, Sound, Table
    <3> QED
      BY <3>1, Here
  <2> QED
    BY <2>1, <2>2
<1>6. failureRun' \in [ProxyIDs -> [length : Nat, last : Nat]]
  <2> DEFINE i == call[c].proxy
             run == IF ~LiveProxy(proxies, i) THEN failureRun[i]
                    ELSE IF call[c].ok THEN NoRun
                    ELSE [length |-> failureRun[i].length + 1,
                          last |-> IF failureRun[i].length + 1 < CircuitThreshold
                                   THEN 0 ELSE call[c].since]
  <2>1. failureRun' = [failureRun EXCEPT ![i] = run]
    BY DEF ReportProxyFor
  <2>2. CASE i \in ProxyIDs
    <3>1. failureRun[i] \in [length : Nat, last : Nat] /\ failureRun[i].length \in Nat
      BY <2>2, Here
    <3>2. run \in [length : Nat, last : Nat]
      BY <1>3, <3>1 DEF NoRun
    <3> HIDE DEF run
    <3> QED
      BY <2>1, <3>2, Here
  <2>3. CASE i \notin ProxyIDs
    <3> HIDE DEF run
    <3> QED
      BY <2>1, <2>3, Here
  <2> QED
    BY <2>2, <2>3
<1> QED
  BY <1>1, <1>5, <1>6, Here, IdleInOrder, Moves

LEMMA AdminSafe ==
    ASSUME IInv,
           \/ \E enabled \in BOOLEAN : AdminCreateProxy(enabled)
           \/ \E i \in ProxyIDs :
                 \/ \E enabled, urlChanged \in BOOLEAN : AdminUpdateProxy(i, enabled, urlChanged)
                 \/ AdminDeleteProxy(i)
                 \/ AdminResetProxy(i)
           \/ \E a \in AccountIDs, i \in ProxyIDs \cup {NoProxy} : AdminBind(a, i)
           \/ Tick
    PROVE  IInv'
<1>0. NoRun \in [length : Nat, last : Nat]
  BY DEF NoRun
<1>1. CASE \E enabled \in BOOLEAN : AdminCreateProxy(enabled)
  BY <1>1, Here, EditsSound, Edits DEF AdminCreateProxy
<1>2. CASE \E i \in ProxyIDs :
              \E enabled, urlChanged \in BOOLEAN : AdminUpdateProxy(i, enabled, urlChanged)
  <2>1. PICK i \in ProxyIDs, enabled \in BOOLEAN, urlChanged \in BOOLEAN :
           AdminUpdateProxy(i, enabled, urlChanged)
    BY <1>2
  <2>2. failureRun' \in [ProxyIDs -> [length : Nat, last : Nat]]
    BY <1>0, <2>1, Here DEF AdminUpdateProxy
  <2> QED
    BY <2>1, <2>2, Here, EditsSound, Edits DEF AdminUpdateProxy
<1>3. CASE \E i \in ProxyIDs : AdminDeleteProxy(i)
  <2>1. PICK i \in ProxyIDs : AdminDeleteProxy(i)
    BY <1>3
  <2>2. /\ failureRun' \in [ProxyIDs -> [length : Nat, last : Nat]]
        /\ proxy_id' \in [AccountIDs -> ProxyIDs \cup {NoProxy}]
    BY <1>0, <2>1, Here DEF AdminDeleteProxy, Unbind
  <2>3. TRUE \in BOOLEAN /\ now \in Nat
    BY Here
  <2>4. /\ Sound(DeleteProxy(proxies, i))
        /\ NoLater(proxies, DeleteProxy(proxies, i), now)
    BY <2>3, Here, EditsSound
  <2> QED
    BY <2>1, <2>2, <2>4, Here, Edits DEF AdminDeleteProxy
<1>4. CASE \E i \in ProxyIDs : AdminResetProxy(i)
  <2>1. PICK i \in ProxyIDs : AdminResetProxy(i)
    BY <1>4
  <2>2. failureRun' \in [ProxyIDs -> [length : Nat, last : Nat]]
    BY <1>0, <2>1, Here DEF AdminResetProxy
  <2>3. TRUE \in BOOLEAN /\ now \in Nat
    BY Here
  <2>4. /\ Sound(ResetProxy(proxies, i))
        /\ NoLater(proxies, ResetProxy(proxies, i), now)
    BY <2>3, Here, EditsSound
  <2> QED
    BY <2>1, <2>2, <2>4, Here, Edits DEF AdminResetProxy
<1>5. CASE \E a \in AccountIDs, i \in ProxyIDs \cup {NoProxy} : AdminBind(a, i)
  BY <1>5, Here, Edits DEF AdminBind
<1>6. CASE Tick
  BY <1>6, Here, Edits DEF Tick, poolVars
<1> QED
  BY <1>1, <1>2, <1>3, <1>4, <1>5, <1>6

-----------------------------------------------------------------------------
(* The theorems. *)

LEMMA InitInv == Init => IInv
<1> SUFFICES ASSUME Init PROVE IInv
  OBVIOUS
<1>1. call = [c \in Callers |-> Idle] /\ now = 0
  BY DEF Init
<1>2. Sound(proxies)
  <2>1. CASE proxies = NoProxies
    BY <2>1, NewRowSound DEF Sound, Table, NoProxies
  <2>2. CASE \E n \in ProxyIDs : proxies =
                [i \in ProxyIDs |-> IF i <= n THEN NewProxy(TRUE) ELSE AbsentProxy("unborn")]
    BY <2>2, NewRowSound DEF Sound, Table
  <2> QED
    BY <2>1, <2>2 DEF Init
<1>3. Idle \in CallRecord /\ \A E, U, P : Rule(Idle, E, U, P, 0)
  BY IdleInOrder
<1>4. NoRun \in [length : Nat, last : Nat]
  BY DEF NoRun
<1>5. TypeOK /\ CircuitConsistent
  BY <1>1, <1>2, <1>3, <1>4 DEF Init, TypeOK, CircuitConsistent, Sound, Table
<1>6. \A c \in Callers : Watched(c) /\ CallerRule(c)
  BY <1>1, <1>3 DEF Init, Watched, CallerRule
<1> QED
  BY <1>5, <1>6 DEF IInv

LEMMA NextInv == IInv /\ [Next]_vars => IInv'
<1> SUFFICES ASSUME IInv, [Next]_vars PROVE IInv'
  OBVIOUS
<1>1. CASE \E c \in Callers : BeginRequest(c) \/ BeginProbe(c)
  BY <1>1, BeginsSafe
<1>2. CASE \E c \in Callers : CountProxies(c)
  BY <1>2, CountSafe
<1>3. CASE \E c \in Callers : BindAccountProxy(c)
  BY <1>3, BindSafe
<1>4. CASE \E c \in Callers :
              \/ StoreError(c) \/ Refuse(c) \/ LoseReport(c)
              \/ \E outcome \in {"ok", "failed", "credential"} : Return(c, outcome)
  BY <1>4, ReturnsSafe
<1>5. CASE \E c \in Callers : ReadProbedProxy(c)
  BY <1>5, ReadSafe
<1>6. CASE \E c \in Callers : \E t \in ClockReadings(c) :
              \/ \E i \in ProxyIDs : PickProxyFor(c, i, t)
              \/ PickNoProxy(c, t)
              \/ ReportProxyFor(c, t)
  BY <1>6, PickProxySafe, PickNoProxySafe, ReportSafe
<1>7. CASE \/ \E enabled \in BOOLEAN : AdminCreateProxy(enabled)
           \/ \E i \in ProxyIDs :
                 \/ \E enabled, urlChanged \in BOOLEAN : AdminUpdateProxy(i, enabled, urlChanged)
                 \/ AdminDeleteProxy(i)
                 \/ AdminResetProxy(i)
           \/ \E a \in AccountIDs, i \in ProxyIDs \cup {NoProxy} : AdminBind(a, i)
           \/ Tick
  BY <1>7, AdminSafe
<1>8. CASE UNCHANGED vars
  BY <1>8 DEF vars, IInv, TypeOK, CircuitConsistent, Watched, CallerRule
<1> QED
  BY <1>1, <1>2, <1>3, <1>4, <1>5, <1>6, <1>7, <1>8 DEF Next

\* The tables and the callers' locals keep their types.
THEOREM TypeCorrect == Spec => []TypeOK
<1>1. IInv => TypeOK
  BY DEF IInv
<1> QED
  BY <1>1, InitInv, NextInv, PTL DEF Spec

\* Status, failure count and cooldown agree in every row, whatever late
\* reports, edits, resets and deletions interleave.
THEOREM CircuitAlwaysConsistent == Spec => []CircuitConsistent
<1>1. IInv => CircuitConsistent
  BY DEF IInv
<1> QED
  BY <1>1, InitInv, NextInv, PTL DEF Spec

\* No request goes out directly, unless allowed to, past a proxy that stayed
\* enabled while it was choosing.
THEOREM NeverSilentlyDirect == Spec => []DirectOnlyIfAllowed
<1>1. IInv => DirectOnlyIfAllowed
  BY DEF IInv, DirectOnlyIfAllowed, CallerRule, Rule
<1> QED
  BY <1>1, InitInv, NextInv, PTL DEF Spec

\* No request is refused while a proxy stayed usable: this needs the cooldown
\* to be longer than a statement may be delayed.
THEOREM NeverNeedlesslyRefused == Spec => []RefusedOnlyWhenExhausted
<1>1. IInv => RefusedOnlyWhenExhausted
  BY DEF IInv, RefusedOnlyWhenExhausted, CallerRule, Rule
<1> QED
  BY <1>1, InitInv, NextInv, PTL DEF Spec

\* A bound account never leaves a proxy that stayed usable.
THEOREM EgressStaysFixed == Spec => []FixedEgress
<1>1. IInv => FixedEgress
  BY DEF IInv, FixedEgress, CallerRule, Rule
<1> QED
  BY <1>1, InitInv, NextInv, PTL DEF Spec

-----------------------------------------------------------------------------
(* An open circuit rests.  The count of a row is at least the failures in  *)
(* a row that the history remembers, and a cooldown they started is long.  *)

RunOf(row, run) ==
    /\ row.failure_count >= run.length
    /\ row.life # "live" => run.length = 0
    /\ run.length >= CircuitThreshold => row.cooldown_until >= run.last + Cooldown

RunInv == \A i \in ProxyIDs : RunOf(proxies[i], failureRun[i])

\* Who has not picked yet holds no proxy.
EmptyHanded == \A c \in Callers : call[c].pc \in {"count", "pick"} => call[c].proxy = NoProxy

RestInv == IInv /\ RunInv /\ EmptyHanded

LEMMA NoRunHolds == \A row \in ProxyRow : RunOf(row, NoRun)
BY ProxyStoreAssumption DEF RunOf, NoRun, ProxyRow

\* A step that changes one row, or none.
LEMMA OneRow ==
    ASSUME IInv, RunInv, NEW i, NEW row, NEW run,
           \/ proxies' = proxies
           \/ i \in ProxyIDs /\ proxies' = [proxies EXCEPT ![i] = row],
           \/ failureRun' = failureRun
           \/ i \in ProxyIDs /\ failureRun' = [failureRun EXCEPT ![i] = run],
           i \in ProxyIDs => RunOf(proxies'[i], failureRun'[i])
    PROVE  RunInv'
<1>1. DOMAIN proxies = ProxyIDs /\ DOMAIN failureRun = ProxyIDs
  BY Here DEF Sound, Table
<1> SUFFICES ASSUME NEW j \in ProxyIDs PROVE RunOf(proxies'[j], failureRun'[j])
  BY DEF RunInv, RunOf
<1>2. CASE j = i
  BY <1>2
<1>3. CASE j # i
  <2>1. proxies'[j] = proxies[j] /\ failureRun'[j] = failureRun[j]
    BY <1>1, <1>3
  <2> QED
    BY <2>1 DEF RunInv
<1> QED
  BY <1>2, <1>3

LEMMA PickKeepsRuns ==
    ASSUME IInv, RunInv, NEW c \in Callers, NEW i \in ProxyIDs, NEW t, PickProxyFor(c, i, t)
    PROVE  RunInv'
<1> DEFINE row == [proxies[i] EXCEPT !.last_used_at = t]
<1>1. proxies[i] \in ProxyRow /\ DOMAIN proxies = ProxyIDs
  BY Here DEF Sound, Table
<1>2. /\ row.failure_count = proxies[i].failure_count
      /\ row.life = proxies[i].life
      /\ row.cooldown_until = proxies[i].cooldown_until
  BY <1>1 DEF ProxyRow
<1>3. proxies' = [proxies EXCEPT ![i] = row] /\ failureRun' = failureRun
  BY DEF PickProxyFor, PickProxy
<1> HIDE DEF row
<1>4. RunOf(proxies[i], failureRun[i])
  BY DEF RunInv
<1>5. proxies'[i] = row
  BY <1>1, <1>3
<1>6. RunOf(row, failureRun[i])
  BY <1>2, <1>4 DEF RunOf
<1> QED
  BY <1>3, <1>5, <1>6, OneRow

LEMMA ReportKeepsRuns ==
    ASSUME IInv, RunInv, NEW c \in Callers, NEW t \in ClockReadings(c), ReportProxyFor(c, t)
    PROVE  RunInv'
<1> DEFINE i == call[c].proxy
           row == proxies[i]
           run == failureRun[i]
           good == [row EXCEPT !.status = "healthy", !.failure_count = 0, !.cooldown_until = 0]
           bad == [row EXCEPT !.status = IF Trips(row) THEN "cooldown" ELSE "unhealthy",
                              !.failure_count = @ + 1,
                              !.cooldown_until = IF Trips(row) THEN t + Cooldown ELSE @]
           longer == [length |-> run.length + 1,
                      last |-> IF run.length + 1 < CircuitThreshold THEN 0 ELSE call[c].since]
<1>1. /\ proxies' = ReportProxy(proxies, i, call[c].ok, t)
      /\ failureRun' = [failureRun EXCEPT ![i] =
             IF ~LiveProxy(proxies, i) THEN run ELSE IF call[c].ok THEN NoRun ELSE longer]
  BY DEF ReportProxyFor
<1>2. call[c].since \in Nat /\ DOMAIN proxies = ProxyIDs
  BY Here DEF CallRecord, Sound, Table
<1>3. t \in Nat /\ t >= call[c].since
  BY <1>2, Here DEF ClockReadings
<1>4. CASE i \notin ProxyIDs
  <2>1. proxies' = proxies
    BY <1>1, <1>2, <1>4 DEF ReportProxy
  <2>2. failureRun' = failureRun
    <3> HIDE DEF i, longer
    <3> QED
      BY <1>1, <1>4, Here
  <2> QED
    BY <2>1, <2>2 DEF RunInv, RunOf
<1>5. CASE i \in ProxyIDs
  <2>1. /\ row \in ProxyRow /\ RunOf(row, run) /\ run \in [length : Nat, last : Nat]
        /\ DOMAIN failureRun = ProxyIDs
    BY <1>5, Here DEF Sound, Table, RunInv
  <2>2. CASE ~LiveProxy(proxies, i)
    <3>1. proxies' = proxies
      BY <1>1, <2>2 DEF ReportProxy, UpdateWhere
    <3>2. failureRun' = failureRun
      <4> HIDE DEF longer
      <4> QED
        BY <1>1, <1>5, <2>2, Here
    <3> QED
      BY <3>1, <3>2 DEF RunInv, RunOf
  <2>3. CASE LiveProxy(proxies, i) /\ call[c].ok
    <3>1. good \in ProxyRow
      BY <2>1 DEF ProxyRow
    <3>2. proxies' = [proxies EXCEPT ![i] = good] /\ failureRun' = [failureRun EXCEPT ![i] = NoRun]
      BY <1>1, <1>2, <1>5, <2>3 DEF ReportProxy, UpdateWhere
    <3> HIDE DEF good, row, run
    <3>3. proxies'[i] = good /\ failureRun'[i] = NoRun
      BY <1>2, <1>5, <2>1, <3>2
    <3> QED
      BY <3>1, <3>2, <3>3, <1>5, NoRunHolds, OneRow
  <2>4. CASE LiveProxy(proxies, i) /\ ~call[c].ok
    <3>1. /\ bad.failure_count = row.failure_count + 1 /\ bad.life = row.life
          /\ bad.cooldown_until = IF Trips(row) THEN t + Cooldown ELSE row.cooldown_until
      BY <2>1 DEF ProxyRow
    <3>2. proxies' = [proxies EXCEPT ![i] = bad] /\ failureRun' = [failureRun EXCEPT ![i] = longer]
      BY <1>1, <1>2, <1>5, <2>4 DEF ReportProxy, UpdateWhere
    <3>3. row.life = "live" /\ row.failure_count \in Nat
      BY <2>1, <2>4 DEF LiveProxy, ProxyRow
    <3>4. /\ longer.length = run.length + 1
          /\ longer.length >= CircuitThreshold => longer.last = call[c].since
      BY <2>1, ProxyStoreAssumption
    <3> HIDE DEF bad, row, run, longer
    <3>5. row.failure_count >= run.length /\ run.length \in Nat
      BY <2>1 DEF RunOf
    <3>6. longer.length >= CircuitThreshold => bad.cooldown_until >= longer.last + Cooldown
      <4> SUFFICES ASSUME longer.length >= CircuitThreshold
                   PROVE  bad.cooldown_until >= longer.last + Cooldown
        OBVIOUS
      <4>1. Trips(row)
        BY <3>3, <3>4, <3>5, ProxyStoreAssumption DEF Trips
      <4> QED
        BY <1>2, <1>3, <3>1, <3>4, <4>1, ProxyStoreAssumption
    <3>7. RunOf(bad, longer)
      BY <3>1, <3>3, <3>4, <3>5, <3>6 DEF RunOf
    <3>8. proxies'[i] = bad /\ failureRun'[i] = longer
      BY <1>2, <1>5, <2>1, <3>2
    <3> QED
      BY <3>2, <3>7, <3>8, <1>5, OneRow
  <2> QED
    BY <2>2, <2>3, <2>4
<1> QED
  BY <1>4, <1>5

LEMMA AdminKeepsRuns ==
    ASSUME IInv, RunInv,
           \/ \E enabled \in BOOLEAN : AdminCreateProxy(enabled)
           \/ \E i \in ProxyIDs :
                 \/ \E enabled, urlChanged \in BOOLEAN : AdminUpdateProxy(i, enabled, urlChanged)
                 \/ AdminDeleteProxy(i)
                 \/ AdminResetProxy(i)
    PROVE  RunInv'
<1>0. DOMAIN proxies = ProxyIDs /\ DOMAIN failureRun = ProxyIDs
  BY Here DEF Sound, Table
<1>1. ASSUME NEW enabled \in BOOLEAN, AdminCreateProxy(enabled) PROVE RunInv'
  <2>1. PICK i \in ProxyIDs : IsNextProxyID(proxies, i) /\ proxies' = CreateProxy(proxies, i, enabled)
    BY <1>1 DEF AdminCreateProxy
  <2>2. failureRun' = failureRun
    BY <1>1 DEF AdminCreateProxy
  <2>3. proxies'[i] = NewProxy(enabled)
    BY <1>0, <2>1 DEF CreateProxy
  <2>4. failureRun[i].length = 0 /\ failureRun[i] \in [length : Nat, last : Nat]
    BY <2>1, Here DEF IsNextProxyID, RunInv, RunOf
  <2>5. RunOf(NewProxy(enabled), failureRun[i])
    <3>1. NewProxy(enabled).failure_count = 0
      BY DEF NewProxy, Untouched
    <3> QED
      BY <2>4, <3>1, ProxyStoreAssumption DEF RunOf
  <2> QED
    BY <2>1, <2>2, <2>3, <2>5, OneRow DEF CreateProxy
<1>2. ASSUME NEW i \in ProxyIDs, NEW e \in BOOLEAN, NEW u \in BOOLEAN, AdminUpdateProxy(i, e, u)
      PROVE  RunInv'
  <2> DEFINE row == [proxies[i] EXCEPT !.enabled = e,
                                       !.status = IF u THEN "unknown" ELSE @,
                                       !.failure_count = IF u THEN 0 ELSE @,
                                       !.cooldown_until = IF u THEN 0 ELSE @]
  <2>1. proxies[i] \in ProxyRow /\ RunOf(proxies[i], failureRun[i])
    BY Here DEF Sound, Table, RunInv
  <2>2. proxies' = [proxies EXCEPT ![i] = row]
    BY <1>2 DEF AdminUpdateProxy, UpdateProxy, UpdateWhere
  <2>3. proxies'[i] = row
    BY <1>0, <2>2
  <2>4. CASE u
    <3>1. row \in ProxyRow
      BY <2>1, <2>4 DEF ProxyRow
    <3>2. failureRun' = [failureRun EXCEPT ![i] = NoRun]
      BY <1>2, <2>4 DEF AdminUpdateProxy
    <3> HIDE DEF row
    <3>3. failureRun'[i] = NoRun
      BY <1>0, <3>2
    <3> QED
      BY <2>2, <2>3, <3>1, <3>2, <3>3, NoRunHolds, OneRow
  <2>5. CASE ~u
    <3>1. /\ row.failure_count = proxies[i].failure_count /\ row.life = proxies[i].life
          /\ row.cooldown_until = proxies[i].cooldown_until
      BY <2>1, <2>5 DEF ProxyRow
    <3>2. failureRun' = failureRun
      BY <1>2, <2>5 DEF AdminUpdateProxy
    <3> HIDE DEF row
    <3>3. RunOf(row, failureRun[i])
      BY <2>1, <3>1 DEF RunOf
    <3> QED
      BY <2>2, <2>3, <3>2, <3>3, OneRow
  <2> QED
    BY <2>4, <2>5
<1>3. ASSUME NEW i \in ProxyIDs, AdminDeleteProxy(i) \/ AdminResetProxy(i) PROVE RunInv'
  <2>1. failureRun' = [failureRun EXCEPT ![i] = NoRun]
    BY <1>3 DEF AdminDeleteProxy, AdminResetProxy
  <2>2. PICK row : proxies' = [proxies EXCEPT ![i] = row]
    BY <1>3 DEF AdminDeleteProxy, AdminResetProxy, DeleteProxy, ResetProxy, UpdateWhere
  <2>3. Sound(proxies')
    <3>1. TRUE \in BOOLEAN /\ 0 \in Nat /\ Sound(proxies)
      BY Here
    <3> QED
      BY <1>3, <3>1, EditsSound, ZenonT(30) DEF AdminDeleteProxy, AdminResetProxy
  <2>4. proxies'[i] \in ProxyRow /\ failureRun'[i] = NoRun
    BY <1>0, <2>1, <2>3 DEF Sound, Table
  <2> QED
    BY <2>1, <2>2, <2>4, NoRunHolds, OneRow
<1> QED
  BY <1>1, <1>2, <1>3

\* What a caller holds after a step of its own: nothing while it chooses.
LEMMA OwnStep ==
    ASSUME IInv, EmptyHanded, NEW c \in Callers,
           \/ BeginRequest(c) \/ CountProxies(c) \/ BindAccountProxy(c)
           \/ StoreError(c) \/ Refuse(c) \/ BeginProbe(c) \/ ReadProbedProxy(c)
           \/ LoseReport(c)
           \/ \E t \in ClockReadings(c) :
                 \/ \E i \in ProxyIDs : PickProxyFor(c, i, t)
                 \/ PickNoProxy(c, t)
                 \/ ReportProxyFor(c, t)
           \/ \E outcome \in {"ok", "failed", "credential"} : Return(c, outcome)
    PROVE  EmptyHanded'
<1> DEFINE free(r) == r.pc \in {"count", "pick"} => r.proxy = NoProxy
<1>0. call \in [Callers -> CallRecord] /\ call[c] \in CallRecord
  BY Here
<1>1. free(Idle)
  BY DEF Idle
<1>2. \A pc \in PCs : call[c].proxy = NoProxy \/ pc \notin {"count", "pick"} => free(Locals(call[c], pc))
  BY <1>0, LocalsFields
<1>3. ASSUME NEW r, free(r), call' = [call EXCEPT ![c] = r] PROVE EmptyHanded'
  BY <1>0, <1>3 DEF EmptyHanded
<1>4. CASE BeginRequest(c)
  <2>1. \A a, p, d : free(Requesting(a, p, d))
    BY DEF Requesting
  <2> HIDE DEF free
  <2> QED
    BY <1>3, <1>4, <2>1 DEF BeginRequest
<1>5. CASE BeginProbe(c)
  <2>1. \A a, p : free(Probing(a, p))
    BY DEF Probing
  <2> HIDE DEF free
  <2> QED
    BY <1>3, <1>5, <2>1 DEF BeginProbe
<1>6. CASE CountProxies(c)
  <2>1. call[c].proxy = NoProxy
    BY <1>6 DEF CountProxies, EmptyHanded
  <2>2. PICK pc \in PCs : call' = [call EXCEPT ![c] = Locals(call[c], pc)]
    BY <1>6 DEF CountProxies, Goto, PCs
  <2> HIDE DEF free
  <2> QED
    BY <1>2, <1>3, <2>1, <2>2
<1>7. CASE BindAccountProxy(c) \/ \E t \in ClockReadings(c) : PickNoProxy(c, t)
  <2>1. \E pc \in {"inflight", "refused"} : call' = [call EXCEPT ![c] = Locals(call[c], pc)]
    BY <1>7 DEF BindAccountProxy, PickNoProxy, Goto
  <2>2. PICK pc \in {"inflight", "refused"} : call' = [call EXCEPT ![c] = Locals(call[c], pc)]
    BY <2>1
  <2>3. free(Locals(call[c], pc))
    BY <1>2 DEF PCs
  <2> HIDE DEF free
  <2> QED
    BY <1>3, <2>2, <2>3
<1>8. CASE ReadProbedProxy(c)
  <2> DEFINE r == [Locals(call[c], "inflight") EXCEPT !.proxy = call[c].preferred]
  <2>1. free(r)
    <3>1. Locals(call[c], "inflight") \in CallRecord /\ Locals(call[c], "inflight").pc = "inflight"
      BY <1>0, LocalsFields DEF PCs
    <3>2. r.pc = "inflight"
      BY <3>1 DEF CallRecord
    <3> QED
      BY <3>2
  <2>2. call' = [call EXCEPT ![c] = r] \/ call' = [call EXCEPT ![c] = Idle]
    BY <1>8 DEF ReadProbedProxy, Done
  <2> HIDE DEF free, r
  <2> QED
    BY <1>1, <1>3, <2>1, <2>2
<1>9. CASE \E t \in ClockReadings(c) : \E i \in ProxyIDs : PickProxyFor(c, i, t)
  <2>1. PICK t \in ClockReadings(c), i \in ProxyIDs : PickProxyFor(c, i, t)
    BY <1>9
  <2>2. PICK pc \in {"bind", "inflight"} :
           call' = [call EXCEPT ![c] = [Locals(call[c], pc) EXCEPT !.proxy = i]]
    BY <2>1 DEF PickProxyFor
  <2> DEFINE r == [Locals(call[c], pc) EXCEPT !.proxy = i]
  <2>3. free(r)
    <3>1. Locals(call[c], pc) \in CallRecord /\ Locals(call[c], pc).pc = pc
      BY <1>0, LocalsFields DEF PCs
    <3>2. r.pc = pc
      BY <3>1 DEF CallRecord
    <3> QED
      BY <3>2
  <2>4. call' = [call EXCEPT ![c] = r]
    BY <2>2
  <2> HIDE DEF free, r
  <2> QED
    BY <1>3, <2>3, <2>4
<1>10. CASE \/ StoreError(c) \/ Refuse(c) \/ LoseReport(c)
            \/ \E t \in ClockReadings(c) : ReportProxyFor(c, t)
            \/ \E outcome \in {"ok", "failed", "credential"} : Return(c, outcome)
  <2>1. \A i, ok : free(Reporting(i, ok))
    BY DEF Reporting
  <2>2. \/ call' = [call EXCEPT ![c] = Idle]
        \/ \E ok : call' = [call EXCEPT ![c] = Reporting(call[c].proxy, ok)]
    BY <1>10 DEF StoreError, Refuse, LoseReport, ReportProxyFor, Return, Done
  <2> HIDE DEF free
  <2> QED
    BY <1>1, <1>3, <2>1, <2>2
<1> QED
  BY <1>4, <1>5, <1>6, <1>7, <1>8, <1>9, <1>10

LEMMA RestStep == RestInv /\ [Next]_vars => RestInv'
<1> SUFFICES ASSUME IInv, RunInv, EmptyHanded, [Next]_vars PROVE RestInv'
  BY DEF RestInv
<1>1. IInv'
  BY NextInv
<1>2. RunInv'
  <2>1. CASE \/ UNCHANGED vars \/ Tick
             \/ \E a \in AccountIDs, i \in ProxyIDs \cup {NoProxy} : AdminBind(a, i)
             \/ \E c \in Callers :
                   \/ BeginRequest(c) \/ CountProxies(c) \/ BindAccountProxy(c)
                   \/ StoreError(c) \/ Refuse(c) \/ BeginProbe(c) \/ ReadProbedProxy(c)
                   \/ LoseReport(c)
                   \/ \E t \in ClockReadings(c) : PickNoProxy(c, t)
                   \/ \E outcome \in {"ok", "failed", "credential"} : Return(c, outcome)
    <3>1. proxies' = proxies /\ failureRun' = failureRun
      BY <2>1 DEF vars, poolVars, Tick, AdminBind, BeginRequest, CountProxies, BindAccountProxy,
         StoreError, Refuse, BeginProbe, ReadProbedProxy, LoseReport, PickNoProxy, Return
    <3> QED
      BY <3>1 DEF RunInv, RunOf
  <2>2. CASE \E c \in Callers : \E t \in ClockReadings(c) :
                \/ \E i \in ProxyIDs : PickProxyFor(c, i, t)
                \/ ReportProxyFor(c, t)
    BY <2>2, PickKeepsRuns, ReportKeepsRuns
  <2>3. CASE \/ \E enabled \in BOOLEAN : AdminCreateProxy(enabled)
             \/ \E i \in ProxyIDs :
                   \/ \E enabled, urlChanged \in BOOLEAN : AdminUpdateProxy(i, enabled, urlChanged)
                   \/ AdminDeleteProxy(i)
                   \/ AdminResetProxy(i)
    BY <2>3, AdminKeepsRuns
  <2> QED
    BY <2>1, <2>2, <2>3 DEF Next
<1>3. EmptyHanded'
  <2>1. CASE call' = call
    BY <2>1 DEF EmptyHanded
  <2>2. CASE ~(call' = call)
    BY <2>2, OwnStep DEF Next, vars, Tick, AdminBind, AdminCreateProxy, AdminUpdateProxy,
       AdminDeleteProxy, AdminResetProxy
  <2> QED
    BY <2>1, <2>2
<1> QED
  BY <1>1, <1>2, <1>3 DEF RestInv

LEMMA RestInduction == Spec => []RestInv
<1>1. Init => RestInv
  <2> SUFFICES ASSUME Init PROVE RestInv
    OBVIOUS
  <2>1. IInv
    BY InitInv
  <2>2. RunInv
    <3>1. \A i \in ProxyIDs : failureRun[i] = NoRun /\ proxies[i] \in ProxyRow
      BY <2>1, Here DEF Init, Sound, Table
    <3> QED
      BY <3>1, NoRunHolds DEF RunInv
  <2>3. EmptyHanded
    BY DEF Init, EmptyHanded, Idle
  <2> QED
    BY <2>1, <2>2, <2>3 DEF RestInv
<1> QED
  BY <1>1, RestStep, PTL DEF Spec

\* A proxy that CircuitThreshold reports in a row blamed is not served within
\* Cooldown of the return of the last call, for any number of callers whose
\* reports, edits and clock readings cross.
THEOREM OpenCircuitsRest == Spec => OpenCircuitRests
<1>1. ASSUME RestInv, [Next]_vars, NEW c \in Callers, NEW i \in ProxyIDs, Served(c, i),
             failureRun[i].length >= CircuitThreshold
      PROVE  now >= failureRun[i].last + Cooldown
  <2>1. call[c].pc = "pick" /\ call[c].proxy = NoProxy /\ call'[c].proxy = i /\ i # NoProxy
    BY <1>1 DEF RestInv, EmptyHanded, Served, ProxyIDs, NoProxy
  <2>2. call \in [Callers -> CallRecord]
    BY <1>1, Here DEF RestInv
  <2>3. \E t \in ClockReadings(c) : PickProxyFor(c, i, t)
    <3>1. ASSUME NEW d \in Callers, NEW r, call' = [call EXCEPT ![d] = r] PROVE d = c
      BY <2>1, <2>2, <3>1
    <3>2. call' # call
      BY <2>1
    <3>3. ASSUME NEW d \in Callers, NEW j \in ProxyIDs, NEW t, PickProxyFor(d, j, t)
          PROVE  d = c /\ j = i
      <4>1. d = c
        BY <3>1, <3>3 DEF PickProxyFor
      <4>2. PICK pc \in PCs : call' = [call EXCEPT ![c] = [Locals(call[c], pc) EXCEPT !.proxy = j]]
        BY <3>3, <4>1 DEF PickProxyFor, PCs
      <4>3. Locals(call[c], pc) \in CallRecord
        BY <2>2, LocalsFields
      <4>4. [Locals(call[c], pc) EXCEPT !.proxy = j].proxy = j
        BY <4>3 DEF CallRecord
      <4>5. call'[c].proxy = j
        BY <2>2, <4>2, <4>4
      <4> QED
        BY <2>1, <4>1, <4>5
    <3>4. ASSUME NEW d \in Callers, NEW pc \in PCs, Goto(d, pc) PROVE FALSE
      <4>1. d = c /\ call'[c] = Locals(call[c], pc)
        BY <2>2, <3>1, <3>4 DEF Goto
      <4>2. Locals(call[c], pc).proxy = NoProxy
        BY <2>1, <2>2, LocalsFields
      <4> QED
        BY <2>1, <4>1, <4>2
    <3>5. ASSUME NEW d \in Callers, Done(d) PROVE FALSE
      <4>1. d = c /\ call'[c] = Idle
        BY <2>2, <3>1, <3>5 DEF Done
      <4> QED
        BY <2>1, <4>1 DEF Idle
    <3>6. \A d \in Callers : ~CountProxies(d) /\ ~BindAccountProxy(d) /\ ~StoreError(d) /\ ~Refuse(d)
                             /\ ~LoseReport(d) /\ \A t : ~PickNoProxy(d, t) /\ ~ReportProxyFor(d, t)
      BY <3>4, <3>5 DEF CountProxies, BindAccountProxy, StoreError, Refuse, LoseReport, PickNoProxy,
         ReportProxyFor, PCs
    <3>7. \A d \in Callers : ~BeginRequest(d) /\ ~BeginProbe(d) /\ ~ReadProbedProxy(d)
                             /\ \A outcome : ~Return(d, outcome)
      BY <2>1, <3>1, <3>5 DEF BeginRequest, BeginProbe, ReadProbedProxy, Return
    <3>8. Next
      BY <1>1, <3>2 DEF vars
    <3>9. /\ ~Tick /\ \A a, j : ~AdminBind(a, j)
          /\ \A enabled : ~AdminCreateProxy(enabled)
          /\ \A j : ~AdminDeleteProxy(j) /\ ~AdminResetProxy(j)
          /\ \A j, enabled, urlChanged : ~AdminUpdateProxy(j, enabled, urlChanged)
      BY <3>2 DEF Tick, AdminBind, AdminCreateProxy, AdminUpdateProxy, AdminDeleteProxy,
         AdminResetProxy
    <3>10. \E d \in Callers : \E t \in ClockReadings(d) : \E j \in ProxyIDs : PickProxyFor(d, j, t)
      BY <3>6, <3>7, <3>8, <3>9, Zenon DEF Next
    <3> QED
      BY <3>3, <3>10
  <2>4. PICK t \in ClockReadings(c) : PickProxyFor(c, i, t)
    BY <2>3
  <2>5. proxies[i].cooldown_until <= t
    BY <2>4 DEF PickProxyFor, IsPickedProxy, UsableProxies
  <2>6. /\ call[c].since \in Nat /\ now \in Nat
        /\ proxies[i].cooldown_until \in Nat /\ failureRun[i].last \in Nat
    BY <1>1, Here DEF RestInv, CallRecord, Sound, Table, ProxyRow
  <2>7. t \in Nat /\ t <= now
    BY <2>6 DEF ClockReadings
  <2>8. proxies[i].cooldown_until >= failureRun[i].last + Cooldown
    BY <1>1 DEF RestInv, RunInv, RunOf
  <2> QED
    BY <2>5, <2>6, <2>7, <2>8, ProxyStoreAssumption
<1>2. RestInv /\ [Next]_vars
        => \A c \in Callers, i \in ProxyIDs :
              Served(c, i) /\ failureRun[i].length >= CircuitThreshold
                => now >= failureRun[i].last + Cooldown
  BY <1>1
<1> QED
  BY RestInduction, <1>2, PTL DEF Spec, OpenCircuitRests
=============================================================================
