--------------------------- MODULE AccountRotation --------------------------
(***************************************************************************)
(* The order in which PickAccountExcluding hands out the accounts          *)
(* (internal/store/accounts.go): last_used_at counts whole seconds, many   *)
(* requests pick concurrently, each never the same account twice, and the  *)
(* administrator adds, switches and deletes accounts meanwhile.            *)
(***************************************************************************)
EXTENDS AccountStore

CONSTANTS Requests,  \* concurrent requests
          MaxTime    \* bound: where the clock stops

ASSUME AccountRotationAssumption == MaxTime \in Nat

VARIABLES accounts,  \* the accounts table
          now,       \* unixNow(), in seconds
          excluded,  \* per request: the accounts it already picked
          waiting    \* history, per account a: the others enabled, and not
                     \* picked, ever since a was last picked

vars == <<accounts, now, excluded, waiting>>

Init ==
    /\ \E n \in 0..MaxAccountID :
          accounts = [a \in AccountIDs |->
                         IF a <= n THEN NewAccount(TRUE) ELSE AbsentAccount("unborn")]
    /\ now = 1
    /\ excluded = [c \in Requests |-> {}]
    /\ waiting = [a \in AccountIDs |-> {}]

Leaves(b) == waiting' = [a \in AccountIDs |-> waiting[a] \ {b}]

\* The transaction of PickAccountExcluding: the selection, the clock and the
\* update take one snapshot, or the commit fails and nothing happened.
Pick(c, a) ==
    /\ IsPickedAccount(accounts, excluded[c], a)
    /\ accounts' = PickAccount(accounts, a, now)
    /\ excluded' = [excluded EXCEPT ![c] = @ \cup {a}]
    /\ waiting' = [b \in AccountIDs |->
                      IF b = a THEN EnabledAccounts(accounts) \ {a} ELSE waiting[b] \ {a}]
    /\ UNCHANGED now

\* A slip: the zero account of an empty result is excluded like a picked one.
PickNothingExcludesZero(c) ==
    /\ EnabledAccounts(accounts) \subseteq excluded[c]
    /\ excluded' = [excluded EXCEPT ![c] = @ \cup {NoAccount}]
    /\ UNCHANGED <<accounts, now, waiting>>

\* No row: the caller decides, the table stays as it is.
PickNothing(c) ==
    /\ EnabledAccounts(accounts) \subseteq excluded[c]
    /\ UNCHANGED vars

NewRequest(c) ==
    /\ excluded[c] # {}
    /\ excluded' = [excluded EXCEPT ![c] = {}]
    /\ UNCHANGED <<accounts, now, waiting>>

AdminCreate(enabled) ==
    /\ \E a \in AccountIDs :
          IsNextAccountID(accounts, a) /\ accounts' = CreateAccount(accounts, a, enabled)
    /\ UNCHANGED <<now, excluded, waiting>>

AdminUpdate(a, enabled, cookieChanged) ==
    /\ LiveAccount(accounts, a)
    /\ accounts' = UpdateAccount(accounts, a, enabled, cookieChanged)
    /\ IF enabled THEN UNCHANGED waiting ELSE Leaves(a)
    /\ UNCHANGED <<now, excluded>>

AdminDelete(a) ==
    /\ LiveAccount(accounts, a)
    /\ accounts' = DeleteAccount(accounts, a)
    /\ waiting' = [b \in AccountIDs |-> IF b = a THEN {} ELSE waiting[b] \ {a}]
    /\ UNCHANGED <<now, excluded>>

Tick ==
    /\ now < MaxTime
    /\ now' = now + 1
    /\ UNCHANGED <<accounts, excluded, waiting>>

Next ==
    \/ \E c \in Requests :
          \/ \E a \in AccountIDs : Pick(c, a)
          \/ PickNothing(c)
          \/ NewRequest(c)
    \/ \E enabled \in BOOLEAN : AdminCreate(enabled)
    \/ \E a \in AccountIDs :
          \/ \E enabled, cookieChanged \in BOOLEAN : AdminUpdate(a, enabled, cookieChanged)
          \/ AdminDelete(a)
    \/ Tick

Spec == Init /\ [][Next]_vars

-----------------------------------------------------------------------------
(* Properties *)

TypeOK ==
    /\ accounts \in [AccountIDs -> AccountRow]
    /\ now \in Nat
    /\ excluded \in [Requests -> SUBSET AccountIDs]
    /\ waiting \in [AccountIDs -> SUBSET AccountIDs]

\* An account that waits behind another was not used later than it, whatever
\* edits and picks of other requests came in between.
WaitersAreOlder ==
    \A a, b \in AccountIDs :
        b \in waiting[a] => accounts[b].last_used_at <= accounts[a].last_used_at

\* An account is picked again, past one that a request could use and that has
\* waited since, only if both were last used in the same second.
OvertakesOnlyOnATie ==
    [][\A c \in Requests, a, b \in AccountIDs :
          Pick(c, a) /\ b \in waiting[a] \ excluded[c]
            => accounts[a].last_used_at = accounts[b].last_used_at]_vars
=============================================================================
