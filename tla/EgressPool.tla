----------------------------- MODULE EgressPool -----------------------------
(***************************************************************************)
(* How requests and probes share the outbound proxies: pickProxy and the   *)
(* report that follows an upstream call (internal/gateway/service.go), the *)
(* account-to-proxy binding, and the administrator's edits of the pool.    *)
(* Every store statement is one atomic step; everything else interleaves.  *)
(***************************************************************************)
EXTENDS ProxyStore, FiniteSets

CONSTANTS Callers,      \* concurrent requests and probes
          AccountIDs,   \* accounts a caller may act for
          NoAccount,    \* an anonymous request, or a probe of a proxy only
          MaxTime,      \* bound: where the clock stops
          MaxDelay,     \* oldest clock reading a statement may still carry
          MaxFailures   \* bound: failures a proxy may accumulate

ASSUME EgressPoolAssumption ==
    /\ NoAccount \notin AccountIDs
    /\ MaxTime \in Nat /\ MaxDelay \in Nat /\ MaxFailures \in Nat
    /\ MaxDelay < Cooldown

VARIABLES proxies,      \* the proxies table
          proxy_id,     \* the proxy_id column of accounts
          now,          \* unixNow()
          call,         \* program counter and locals of each caller
          failureRun,   \* history: failing reports in a row, and when the last call failed
          enabledSince, \* history: proxies enabled ever since the caller began
          usableSince   \* history: proxies a pick could have returned ever since

poolVars == <<proxies, proxy_id>>
history == <<enabledSince, usableSince>>
vars == <<proxies, proxy_id, now, call, failureRun, enabledSince, usableSince>>

Idle == [pc |-> "idle", probe |-> FALSE, acct |-> NoAccount, preferred |-> NoProxy,
         direct |-> FALSE, proxy |-> NoProxy, ok |-> FALSE, since |-> 0]

CallRecord ==
    [pc : {"idle", "count", "pick", "bind", "read", "inflight", "refused", "report"},
     probe : BOOLEAN, acct : AccountIDs \cup {NoAccount},
     preferred : ProxyIDs \cup {NoProxy}, direct : BOOLEAN,
     proxy : ProxyIDs \cup {NoProxy}, ok : BOOLEAN, since : Nat]

Requesting(a, preferred, direct) ==
    [pc |-> "count", probe |-> FALSE, acct |-> a, preferred |-> preferred,
     direct |-> direct, proxy |-> NoProxy, ok |-> FALSE, since |-> now]

Probing(a, preferred) ==
    [pc |-> IF preferred = NoProxy THEN "inflight" ELSE "read", probe |-> TRUE,
     acct |-> a, preferred |-> preferred, direct |-> FALSE, proxy |-> NoProxy,
     ok |-> FALSE, since |-> now]

Reporting(i, ok) ==
    [pc |-> "report", probe |-> FALSE, acct |-> NoAccount, preferred |-> NoProxy,
     direct |-> FALSE, proxy |-> i, ok |-> ok, since |-> now]

NoRun == [length |-> 0, last |-> 0]

Init ==
    /\ \E P \in {NoProxies} \cup
                {[i \in ProxyIDs |-> IF i <= n THEN NewProxy(TRUE) ELSE AbsentProxy("unborn")]
                    : n \in ProxyIDs} : proxies = P
    /\ proxy_id = [a \in AccountIDs |-> NoProxy]
    /\ now = 0
    /\ call = [c \in Callers |-> Idle]
    /\ failureRun = [i \in ProxyIDs |-> NoRun]
    /\ enabledSince = [c \in Callers |-> {}]
    /\ usableSince = [c \in Callers |-> {}]

\* The history of "since this caller began": restarted when it leaves idle,
\* dropped when its call is over.
Began(c) == call[c].pc = "idle" /\ call'[c].pc # "idle"

SwitchedOn(P) == {i \in ProxyIDs : P[i].life = "live" /\ P[i].enabled}

Rested(P, t) == {i \in SwitchedOn(P) : ~ (P[i].cooldown_until > t)}

Chosen(c) == call'[c].pc \in {"idle", "report"}

Since(c, before, after) ==
    IF Chosen(c) THEN {} ELSE (IF Began(c) THEN ProxyIDs ELSE before) \cap after

Observe ==
    /\ enabledSince' = [c \in Callers |-> Since(c, enabledSince[c], SwitchedOn(proxies'))]
    /\ usableSince' = [c \in Callers |-> Since(c, usableSince[c], Rested(proxies', now'))]

\* unixNow() is read before the statement that uses it takes the database.
ClockReadings(c) == {t \in call[c].since..now : now - t <= MaxDelay}

\* The local readings a caller still needs once its call is sent.
Locals(r, pc) == IF pc = "inflight" THEN [r EXCEPT !.pc = pc, !.since = 0]
                 ELSE [r EXCEPT !.pc = pc]

Goto(c, pc) == call' = [call EXCEPT ![c] = Locals(@, pc)]

Done(c) == call' = [call EXCEPT ![c] = Idle]

-----------------------------------------------------------------------------
(* A request: Generate picks an account, then calls pickProxy. *)

BeginRequest(c) ==
    /\ call[c].pc = "idle"
    /\ \E a \in AccountIDs \cup {NoAccount}, direct \in BOOLEAN :
          call' = [call EXCEPT ![c] =
                     Requesting(a, IF a = NoAccount THEN NoProxy ELSE proxy_id[a], direct)]
    /\ UNCHANGED <<poolVars, now, failureRun>>
    /\ Observe

\* ProxyCounts: with no enabled proxy the call goes out directly.
CountProxies(c) ==
    /\ call[c].pc = "count"
    /\ Goto(c, IF EnabledProxies(proxies) = {} THEN "inflight" ELSE "pick")
    /\ UNCHANGED <<poolVars, now, failureRun>>
    /\ Observe

PickProxyFor(c, i, t) ==
    /\ call[c].pc = "pick"
    /\ IsPickedProxy(proxies, call[c].preferred, t, i)
    /\ proxies' = PickProxy(proxies, i, t)
    /\ call' = [call EXCEPT ![c] =
                   [Locals(@, IF @.acct # NoAccount /\ @.preferred = NoProxy
                              THEN "bind" ELSE "inflight") EXCEPT !.proxy = i]]
    /\ UNCHANGED <<proxy_id, now, failureRun>>
    /\ Observe

\* A slip: with no proxy at rest the request goes out directly, whatever the
\* settings say.
PickNoProxyGoesDirect(c, t) ==
    /\ call[c].pc = "pick"
    /\ UsableProxies(proxies, t) = {}
    /\ Goto(c, "inflight")
    /\ UNCHANGED <<poolVars, now, failureRun>>
    /\ Observe

\* No row: direct if the settings allow it, else ProxyUnavailableError.
PickNoProxy(c, t) ==
    /\ call[c].pc = "pick"
    /\ UsableProxies(proxies, t) = {}
    /\ Goto(c, IF call[c].direct THEN "inflight" ELSE "refused")
    /\ UNCHANGED <<poolVars, now, failureRun>>
    /\ Observe

\* BindAccountProxy writes without looking; its error is ignored.
BindAccountProxy(c) ==
    /\ call[c].pc = "bind"
    /\ \/ proxy_id' = [proxy_id EXCEPT ![call[c].acct] = call[c].proxy]
       \/ UNCHANGED proxy_id
    /\ Goto(c, "inflight")
    /\ UNCHANGED <<proxies, now, failureRun>>
    /\ Observe

\* ProxyCounts or PickProxy fails (canceled, busy, I/O): the request ends.
StoreError(c) ==
    /\ call[c].pc \in {"count", "pick", "read"}
    /\ Done(c)
    /\ UNCHANGED <<poolVars, now, failureRun>>
    /\ Observe

Refuse(c) ==
    /\ call[c].pc = "refused"
    /\ Done(c)
    /\ UNCHANGED <<poolVars, now, failureRun>>
    /\ Observe

-----------------------------------------------------------------------------
(* A probe: the proxy the administrator names, or else the account's, and   *)
(* no pool.                                                                 *)

BeginProbe(c) ==
    /\ call[c].pc = "idle"
    /\ \E a \in AccountIDs \cup {NoAccount}, i \in ProxyIDs \cup {NoProxy} :
          /\ a # NoAccount \/ i # NoProxy
          /\ call' = [call EXCEPT ![c] =
                        Probing(a, IF i = NoProxy THEN proxy_id[a] ELSE i)]
    /\ UNCHANGED <<poolVars, now, failureRun>>
    /\ Observe

\* Store.Proxy reads the row whatever its state; a missing row ends the probe.
ReadProbedProxy(c) ==
    /\ call[c].pc = "read"
    /\ IF LiveProxy(proxies, call[c].preferred)
       THEN call' = [call EXCEPT ![c] =
                       [Locals(@, "inflight") EXCEPT !.proxy = call[c].preferred]]
       ELSE Done(c)
    /\ UNCHANGED <<poolVars, now, failureRun>>
    /\ Observe

-----------------------------------------------------------------------------
(* The upstream call comes back; a credential error is not the proxy's.     *)

Return(c, outcome) ==
    /\ call[c].pc = "inflight"
    /\ outcome = "failed" /\ call[c].proxy # NoProxy =>
          proxies[call[c].proxy].failure_count < MaxFailures
    /\ IF outcome = "credential" \/ call[c].proxy = NoProxy
       THEN Done(c)
       ELSE call' = [call EXCEPT ![c] = Reporting(call[c].proxy, outcome = "ok")]
    /\ UNCHANGED <<poolVars, now, failureRun>>
    /\ Observe

ReportProxyFor(c, t) ==
    /\ call[c].pc = "report"
    /\ LET i == call[c].proxy IN
       /\ proxies' = ReportProxy(proxies, i, call[c].ok, t)
       /\ failureRun' = [failureRun EXCEPT ![i] =
             IF ~LiveProxy(proxies, i) THEN @
             ELSE IF call[c].ok THEN NoRun
             ELSE [length |-> @.length + 1,
                   last |-> IF @.length + 1 < CircuitThreshold THEN 0 ELSE call[c].since]]
    /\ Done(c)
    /\ UNCHANGED <<proxy_id, now>>
    /\ Observe

\* The error of ReportProxy is ignored.
LoseReport(c) ==
    /\ call[c].pc = "report"
    /\ Done(c)
    /\ UNCHANGED <<poolVars, now, failureRun>>
    /\ Observe

-----------------------------------------------------------------------------
(* The administrator, and the clock. *)

AdminCreateProxy(enabled) ==
    /\ \E i \in ProxyIDs :
          IsNextProxyID(proxies, i) /\ proxies' = CreateProxy(proxies, i, enabled)
    /\ UNCHANGED <<proxy_id, now, call, failureRun>>
    /\ Observe

AdminUpdateProxy(i, enabled, urlChanged) ==
    /\ LiveProxy(proxies, i)
    /\ proxies' = UpdateProxy(proxies, i, enabled, urlChanged)
    /\ failureRun' = IF urlChanged THEN [failureRun EXCEPT ![i] = NoRun] ELSE failureRun
    /\ UNCHANGED <<proxy_id, now, call>>
    /\ Observe

AdminDeleteProxy(i) ==
    /\ LiveProxy(proxies, i)
    /\ proxies' = DeleteProxy(proxies, i)
    /\ proxy_id' = Unbind(proxy_id, i)
    /\ failureRun' = [failureRun EXCEPT ![i] = NoRun]
    /\ UNCHANGED <<now, call>>
    /\ Observe

AdminResetProxy(i) ==
    /\ LiveProxy(proxies, i)
    /\ proxies' = ResetProxy(proxies, i)
    /\ failureRun' = [failureRun EXCEPT ![i] = NoRun]
    /\ UNCHANGED <<proxy_id, now, call>>
    /\ Observe

\* UpdateAccount stores the proxy_id of the form, unchecked.
AdminBind(a, i) ==
    /\ proxy_id' = [proxy_id EXCEPT ![a] = i]
    /\ UNCHANGED <<proxies, now, call, failureRun>>
    /\ Observe

\* A statement that carries an older reading than MaxDelay never runs.
Tick ==
    /\ now < MaxTime
    /\ now' = now + 1
    /\ UNCHANGED <<poolVars, call, failureRun>>
    /\ Observe

Next ==
    \/ \E c \in Callers :
          \/ BeginRequest(c) \/ CountProxies(c) \/ BindAccountProxy(c)
          \/ StoreError(c) \/ Refuse(c) \/ BeginProbe(c) \/ ReadProbedProxy(c)
          \/ LoseReport(c)
          \/ \E t \in ClockReadings(c) :
                \/ \E i \in ProxyIDs : PickProxyFor(c, i, t)
                \/ PickNoProxy(c, t)
                \/ ReportProxyFor(c, t)
          \/ \E outcome \in {"ok", "failed", "credential"} : Return(c, outcome)
    \/ \E enabled \in BOOLEAN : AdminCreateProxy(enabled)
    \/ \E i \in ProxyIDs :
          \/ \E enabled, urlChanged \in BOOLEAN : AdminUpdateProxy(i, enabled, urlChanged)
          \/ AdminDeleteProxy(i)
          \/ AdminResetProxy(i)
    \/ \E a \in AccountIDs, i \in ProxyIDs \cup {NoProxy} : AdminBind(a, i)
    \/ Tick

Spec == Init /\ [][Next]_vars

-----------------------------------------------------------------------------
(* Properties *)

\* The tables and the callers' locals keep their shape.
TypeOK ==
    /\ proxies \in [ProxyIDs -> ProxyRow]
    /\ proxy_id \in [AccountIDs -> ProxyIDs \cup {NoProxy}]
    /\ now \in Nat
    /\ call \in [Callers -> CallRecord]
    /\ failureRun \in [ProxyIDs -> [length : Nat, last : Nat]]
    /\ enabledSince \in [Callers -> SUBSET ProxyIDs]
    /\ usableSince \in [Callers -> SUBSET ProxyIDs]

\* Status, failure count and cooldown of a proxy tell one story after any
\* interleaving of late reports, edits, resets and deletions: the circuit is
\* open exactly when the count reached the threshold, only an open circuit
\* carries a cooldown, and a good status means no failure is remembered.
ConsistentCircuit(row) ==
    /\ row.status = "cooldown" <=> row.failure_count >= CircuitThreshold
    /\ row.cooldown_until > 0 <=> row.failure_count >= CircuitThreshold
    /\ row.status \in {"unknown", "healthy"} <=> row.failure_count = 0

CircuitConsistent == \A i \in ProxyIDs : ConsistentCircuit(proxies[i])

\* A request leaves the pool for a direct connection only if the settings it
\* read allow that, or no proxy stayed enabled while it was choosing.
DirectOnlyIfAllowed ==
    \A c \in Callers :
        /\ call[c].pc = "inflight" /\ ~call[c].probe
        /\ call[c].proxy = NoProxy /\ ~call[c].direct
        => enabledSince[c] = {}

\* A request is refused only if no proxy stayed usable while it was choosing:
\* a stale clock reading or a late report never hides a rested proxy.
RefusedOnlyWhenExhausted ==
    \A c \in Callers : call[c].pc = "refused" => usableSince[c] = {}

\* An account bound to a proxy that stayed usable goes out by that proxy.
FixedEgress ==
    \A c \in Callers :
        /\ call[c].pc = "inflight" /\ ~call[c].probe
        /\ call[c].preferred \in usableSince[c]
        => call[c].proxy = call[c].preferred

\* Once CircuitThreshold reports in a row blamed a proxy, no request gets it
\* within Cooldown of the return of the last failing call, unless a success,
\* a reset or a new URL came in between.
Served(c, i) == call[c].pc = "pick" /\ call'[c].proxy = i

OpenCircuitRests ==
    [][\A c \in Callers, i \in ProxyIDs :
          Served(c, i) /\ failureRun[i].length >= CircuitThreshold
            => now >= failureRun[i].last + Cooldown]_vars

\* A request never binds its account to a proxy that is already deleted.
AutoBindingIsLive ==
    [][\A c \in Callers : call[c].pc = "bind" =>
          \A a \in AccountIDs :
              proxy_id'[a] # proxy_id[a] /\ call'[c].pc = "inflight"
                => LiveProxy(proxies, proxy_id'[a])]_vars
=============================================================================
