---------------------------- MODULE AccountStore ----------------------------
(***************************************************************************)
(* The accounts table of internal/store/accounts.go: one row per account   *)
(* id, one pure operator per statement.  The cookie and proxy_id columns   *)
(* are variables of the modules that need them; label, note and last_error *)
(* are left out.                                                           *)
(***************************************************************************)
EXTENDS Integers

CONSTANT MaxAccountID   \* bound: ids the AUTOINCREMENT column may issue

ASSUME AccountStoreAssumption == MaxAccountID \in Nat

AccountIDs == 1..MaxAccountID
NoAccount == 0

AccountRow == [life : {"unborn", "live", "deleted"},
               enabled : BOOLEAN,
               status : {"unknown", "healthy", "unhealthy"},
               failure_count : Nat,
               last_used_at : Nat]

AccountWith(life, enabled) ==
    [life |-> life, enabled |-> enabled, status |-> "unknown",
     failure_count |-> 0, last_used_at |-> 0]

NewAccount(enabled) == AccountWith("live", enabled)

AbsentAccount(life) == AccountWith(life, FALSE)

LiveAccount(A, a) == a \in DOMAIN A /\ A[a].life = "live"

EnabledAccounts(A) == {a \in DOMAIN A : A[a].life = "live" /\ A[a].enabled}

\* A slip: the id of a deleted row may come back.
IsReusedAccountID(A, a) ==
    /\ a \in AccountIDs
    /\ A[a].life # "live"
    /\ \A b \in AccountIDs : b < a => A[b].life = "live"

\* The id SQLite gives the next INSERT.
IsNextAccountID(A, a) ==
    /\ a \in AccountIDs
    /\ A[a].life = "unborn"
    /\ \A b \in AccountIDs : b < a => A[b].life # "unborn"

\* UPDATE ... WHERE id = a : no row, no effect.
UpdateAccountWhere(A, a, row) == IF LiveAccount(A, a) THEN [A EXCEPT ![a] = row] ELSE A

CreateAccount(A, a, enabled) == [A EXCEPT ![a] = NewAccount(enabled)]

\* A slip: a new cookie clears the status, but not the count.
UpdateAccountKeepsCount(A, a, enabled, cookieChanged) ==
    UpdateAccountWhere(A, a,
        [A[a] EXCEPT !.enabled = enabled,
                     !.status = IF cookieChanged THEN "unknown" ELSE @])

\* A slip: a new cookie makes the account look never used.
UpdateAccountForgetsUse(A, a, enabled, cookieChanged) ==
    UpdateAccountWhere(A, a,
        [A[a] EXCEPT !.enabled = enabled,
                     !.last_used_at = IF cookieChanged THEN 0 ELSE @])

UpdateAccount(A, a, enabled, cookieChanged) ==
    UpdateAccountWhere(A, a,
        [A[a] EXCEPT !.enabled = enabled,
                     !.status = IF cookieChanged THEN "unknown" ELSE @,
                     !.failure_count = IF cookieChanged THEN 0 ELSE @])

DeleteAccount(A, a) == [A EXCEPT ![a] = AbsentAccount("deleted")]

\* ORDER BY last_used_at, id.
UsedBefore(A, a, b) ==
    \/ A[a].last_used_at < A[b].last_used_at
    \/ A[a].last_used_at = A[b].last_used_at /\ a < b

\* A slip: the lowest id that is not excluded.
IsFirstAccount(A, excluded, a) ==
    /\ a \in EnabledAccounts(A) \ excluded
    /\ \A b \in EnabledAccounts(A) \ excluded : a <= b

\* a is the row PickAccountExcluding selects.
IsPickedAccount(A, excluded, a) ==
    /\ a \in EnabledAccounts(A) \ excluded
    /\ \A b \in EnabledAccounts(A) \ excluded : b # a => UsedBefore(A, a, b)

PickAccount(A, a, t) == [A EXCEPT ![a].last_used_at = t]

\* A slip: a success pays back one failure.
ReportAccountDecays(A, a, success) ==
    IF a \notin DOMAIN A THEN A
    ELSE UpdateAccountWhere(A, a,
           [A[a] EXCEPT !.status = IF success THEN "healthy" ELSE "unhealthy",
                        !.failure_count = IF success THEN @ - 1 ELSE @ + 1])

ReportAccount(A, a, success) ==
    IF a \notin DOMAIN A THEN A
    ELSE UpdateAccountWhere(A, a,
           IF success
           THEN [A[a] EXCEPT !.status = "healthy", !.failure_count = 0]
           ELSE [A[a] EXCEPT !.status = "unhealthy", !.failure_count = @ + 1])
=============================================================================
