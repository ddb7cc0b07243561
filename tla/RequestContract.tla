--------------------------- MODULE RequestContract --------------------------
(***************************************************************************)
(* What the gateway promises the caller of one chat request, whatever the  *)
(* accounts and the upstream do: the prompt is sent under each identity at *)
(* most once, under few accounts, without an identity only last, and never *)
(* again once the caller has been given a piece of an answer.              *)
(* Abstract specification; Gateway implements it.                          *)
(***************************************************************************)
EXTENDS Integers, FiniteSets

CONSTANTS Requests,    \* concurrent requests
          Accounts,    \* identities the prompt may be sent under
          Anonymous,   \* no identity
          MaxAccounts  \* accounts one request may use

VARIABLES open,      \* the caller waits for this request
          tried,     \* identities its prompt was sent under
          delivered  \* the caller has seen part of an answer

vars == <<open, tried, delivered>>

Init ==
    /\ open = [r \in Requests |-> FALSE]
    /\ tried = [r \in Requests |-> {}]
    /\ delivered = [r \in Requests |-> FALSE]

Start(r) ==
    /\ ~ open[r] /\ tried[r] = {} /\ ~ delivered[r]
    /\ open' = [open EXCEPT ![r] = TRUE]
    /\ UNCHANGED <<tried, delivered>>

Try(r, i) ==
    /\ open[r] /\ ~ delivered[r]
    /\ i \notin tried[r] /\ Anonymous \notin tried[r]
    /\ i # Anonymous => Cardinality(tried[r]) < MaxAccounts
    /\ tried' = [tried EXCEPT ![r] = @ \cup {i}]
    /\ UNCHANGED <<open, delivered>>

Deliver(r) ==
    /\ open[r] /\ tried[r] # {}
    /\ delivered' = [delivered EXCEPT ![r] = TRUE]
    /\ UNCHANGED <<open, tried>>

Finish(r) ==
    /\ open[r]
    /\ open' = [open EXCEPT ![r] = FALSE]
    /\ UNCHANGED <<tried, delivered>>

\* The request is over: the next one starts afresh.
Forget(r) ==
    /\ ~ open[r]
    /\ tried' = [tried EXCEPT ![r] = {}]
    /\ delivered' = [delivered EXCEPT ![r] = FALSE]
    /\ UNCHANGED open

Next ==
    \E r \in Requests :
        \/ Start(r) \/ Deliver(r) \/ Finish(r) \/ Forget(r)
        \/ \E i \in Accounts \cup {Anonymous} : Try(r, i)

Spec == Init /\ [][Next]_vars
=============================================================================
