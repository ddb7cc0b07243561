----------------------------- MODULE ProxyStore -----------------------------
(***************************************************************************)
(* The proxies table of internal/store/proxies.go: one row per proxy id    *)
(* and one operator per statement of the store.  A table P is a function   *)
(* from ids to rows; the operators are pure, so that EgressPool and        *)
(* Gateway run the same statements.  URL, label and last_error are left    *)
(* out; what an edit does to the URL is the flag urlChanged.               *)
(***************************************************************************)
EXTENDS Integers

CONSTANTS MaxProxyID,        \* bound: ids the AUTOINCREMENT column may issue
          CircuitThreshold,  \* proxyCircuitThreshold, 5 in the code
          Cooldown           \* length of the cooldown, 300 seconds in the code

ASSUME ProxyStoreAssumption ==
    /\ MaxProxyID \in Nat
    /\ CircuitThreshold \in Nat \ {0}
    /\ Cooldown \in Nat \ {0}

ProxyIDs == 1..MaxProxyID
NoProxy == 0

\* An id that was never issued is "unborn"; a deleted id is never issued again.
ProxyRow == [life : {"unborn", "live", "deleted"},
             enabled : BOOLEAN,
             status : {"unknown", "healthy", "unhealthy", "cooldown"},
             failure_count : Nat,
             cooldown_until : Nat,
             last_used_at : Nat]

Untouched(life, enabled) ==
    [life |-> life, enabled |-> enabled, status |-> "unknown",
     failure_count |-> 0, cooldown_until |-> 0, last_used_at |-> 0]

NewProxy(enabled) == Untouched("live", enabled)

AbsentProxy(life) == Untouched(life, FALSE)

NoProxies == [i \in ProxyIDs |-> AbsentProxy("unborn")]

LiveProxy(P, i) == i \in DOMAIN P /\ P[i].life = "live"

\* The id SQLite gives the next INSERT.
IsNextProxyID(P, i) ==
    /\ i \in ProxyIDs
    /\ P[i].life = "unborn"
    /\ \A j \in ProxyIDs : j < i => P[j].life # "unborn"

\* UPDATE ... WHERE id = i : no row, no effect.
UpdateWhere(P, i, row) == IF LiveProxy(P, i) THEN [P EXCEPT ![i] = row] ELSE P

CreateProxy(P, i, enabled) == [P EXCEPT ![i] = NewProxy(enabled)]

\* A slip: a new URL clears the status and the cooldown, but not the count.
UpdateProxyKeepsCount(P, i, enabled, urlChanged) ==
    UpdateWhere(P, i,
        [P[i] EXCEPT !.enabled = enabled,
                     !.status = IF urlChanged THEN "unknown" ELSE @,
                     !.cooldown_until = IF urlChanged THEN 0 ELSE @])

UpdateProxy(P, i, enabled, urlChanged) ==
    UpdateWhere(P, i,
        [P[i] EXCEPT !.enabled = enabled,
                     !.status = IF urlChanged THEN "unknown" ELSE @,
                     !.failure_count = IF urlChanged THEN 0 ELSE @,
                     !.cooldown_until = IF urlChanged THEN 0 ELSE @])

DeleteProxy(P, i) == [P EXCEPT ![i] = AbsentProxy("deleted")]

\* The first statement of DeleteProxy, over the accounts' proxy_id column.
Unbind(binding, i) ==
    [a \in DOMAIN binding |-> IF binding[a] = i THEN NoProxy ELSE binding[a]]

ResetProxy(P, i) ==
    UpdateWhere(P, i, [P[i] EXCEPT !.status = "unknown", !.failure_count = 0,
                                   !.cooldown_until = 0])

EnabledProxies(P) == {i \in DOMAIN P : P[i].life = "live" /\ P[i].enabled}

\* A slip: a cooldown that ends now still counts.
UsableProxiesStrictly(P, t) == {i \in EnabledProxies(P) : P[i].cooldown_until < t}

UsableProxies(P, t) == {i \in EnabledProxies(P) : P[i].cooldown_until <= t}

\* A slip: the preferred proxy only breaks ties.
PicksBeforeByAge(P, preferred, i, j) ==
    \/ P[i].last_used_at < P[j].last_used_at
    \/ /\ P[i].last_used_at = P[j].last_used_at
       /\ i = preferred \/ (j # preferred /\ i < j)

\* ORDER BY (id = preferred) first, last_used_at, id.
PicksBefore(P, preferred, i, j) ==
    \/ i = preferred /\ j # preferred
    \/ /\ (i = preferred) = (j = preferred)
       /\ \/ P[i].last_used_at < P[j].last_used_at
          \/ P[i].last_used_at = P[j].last_used_at /\ i < j

\* i is the row PickProxy selects when its clock reads t.
IsPickedProxy(P, preferred, t, i) ==
    /\ i \in UsableProxies(P, t)
    /\ \A j \in UsableProxies(P, t) : j # i => PicksBefore(P, preferred, i, j)

PickProxy(P, i, t) == [P EXCEPT ![i].last_used_at = t]

Trips(row) == row.failure_count + 1 >= CircuitThreshold

\* A slip: a success pays back one failure.
ReportProxyDecays(P, i, success, t) ==
    IF i \notin DOMAIN P THEN P
    ELSE UpdateWhere(P, i, [P[i] EXCEPT !.status = "healthy", !.cooldown_until = 0,
                                        !.failure_count = IF success THEN @ - 1 ELSE @ + 1])

\* A slip: the cooldown starts once and is not renewed by a later failure.
ReportProxyCoolsOnce(P, i, success, t) ==
    IF i \notin DOMAIN P THEN P
    ELSE UpdateWhere(P, i,
           IF success
           THEN [P[i] EXCEPT !.status = "healthy", !.failure_count = 0,
                             !.cooldown_until = 0]
           ELSE [P[i] EXCEPT !.status = IF Trips(P[i]) THEN "cooldown" ELSE "unhealthy",
                             !.failure_count = @ + 1,
                             !.cooldown_until = IF Trips(P[i]) /\ @ = 0 THEN t + Cooldown
                                                ELSE @])

ReportProxy(P, i, success, t) ==
    IF i \notin DOMAIN P THEN P
    ELSE UpdateWhere(P, i,
           IF success
           THEN [P[i] EXCEPT !.status = "healthy", !.failure_count = 0,
                             !.cooldown_until = 0]
           ELSE [P[i] EXCEPT !.status = IF Trips(P[i]) THEN "cooldown" ELSE "unhealthy",
                             !.failure_count = @ + 1,
                             !.cooldown_until = IF Trips(P[i]) THEN t + Cooldown ELSE @])
=============================================================================
