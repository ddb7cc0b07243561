--------------------------- MODULE GatewayProofs ----------------------------
(***************************************************************************)
(* For any number of requests, accounts, attempts and cookies: a request   *)
(* keeps RequestContract, runs out of accounts only by an edit, and no     *)
(* cookie strays to another account.                                       *)
(***************************************************************************)
EXTENDS Gateway, FiniteSetTheorems, TLAPS

Table == [AccountIDs -> AccountRow]

Sane(row) == (row.failure_count > 0) <=> (row.status = "unhealthy")

\* A statement that changes columns of rows, but adds and removes none.
Touches(A, B) ==
    /\ B \in Table
    /\ \A a \in AccountIDs : B[a].life = A[a].life
    /\ \A a \in AccountIDs : Sane(A[a]) => Sane(B[a])

-----------------------------------------------------------------------------
(* The statements of AccountStore. *)

LEMMA PickTouches ==
    ASSUME NEW A \in Table, NEW a \in AccountIDs, NEW t \in Nat
    PROVE  Touches(A, PickAccount(A, a, t))
<1> DEFINE row(r) == [r EXCEPT !.last_used_at = t]
<1>1. PickAccount(A, a, t) = [A EXCEPT ![a] = row(A[a])]
  BY DEF PickAccount, Table
<1>2. ASSUME NEW r \in AccountRow
      PROVE  row(r) \in AccountRow /\ row(r).life = r.life /\ (Sane(r) => Sane(row(r)))
  BY DEF AccountRow, Sane
<1> HIDE DEF row
<1> QED
  BY <1>1, <1>2 DEF Touches, Table

LEMMA UpdateTouches ==
    ASSUME NEW A \in Table, NEW a \in AccountIDs, NEW e \in BOOLEAN, NEW k \in BOOLEAN
    PROVE  Touches(A, UpdateAccount(A, a, e, k))
<1> DEFINE row(r) == [r EXCEPT !.enabled = e,
                               !.status = IF k THEN "unknown" ELSE @,
                               !.failure_count = IF k THEN 0 ELSE @]
<1>1. \/ UpdateAccount(A, a, e, k) = A
      \/ UpdateAccount(A, a, e, k) = [A EXCEPT ![a] = row(A[a])]
  BY DEF UpdateAccount, UpdateAccountWhere
<1>2. ASSUME NEW r \in AccountRow
      PROVE  row(r) \in AccountRow /\ row(r).life = r.life /\ (Sane(r) => Sane(row(r)))
  <2>1. row(r) \in AccountRow
    BY DEF AccountRow
  <2>2. /\ row(r).life = r.life
        /\ row(r).status = IF k THEN "unknown" ELSE r.status
        /\ row(r).failure_count = IF k THEN 0 ELSE r.failure_count
    BY DEF AccountRow
  <2> QED
    BY <2>1, <2>2 DEF Sane
<1> HIDE DEF row
<1> QED
  BY <1>1, <1>2 DEF Touches, Table

LEMMA ReportTouches ==
    ASSUME NEW A \in Table, NEW a, NEW ok \in BOOLEAN
    PROVE  Touches(A, ReportAccount(A, a, ok))
<1> DEFINE good(r) == [r EXCEPT !.status = "healthy", !.failure_count = 0]
           bad(r) == [r EXCEPT !.status = "unhealthy", !.failure_count = @ + 1]
<1>1. \/ ReportAccount(A, a, ok) = A
      \/ a \in AccountIDs /\ ReportAccount(A, a, ok) = [A EXCEPT ![a] = good(A[a])]
      \/ a \in AccountIDs /\ ReportAccount(A, a, ok) = [A EXCEPT ![a] = bad(A[a])]
  BY DEF ReportAccount, UpdateAccountWhere, Table
<1>2. ASSUME NEW r \in AccountRow
      PROVE  /\ good(r) \in AccountRow /\ good(r).life = r.life /\ Sane(good(r))
             /\ bad(r) \in AccountRow /\ bad(r).life = r.life /\ Sane(bad(r))
  <2>0. r.failure_count + 1 \in Nat
    BY DEF AccountRow
  <2>1. good(r) \in AccountRow
    BY DEF AccountRow
  <2>5. bad(r) \in AccountRow
    BY <2>0 DEF AccountRow
  <2>2. good(r).life = r.life /\ good(r).status = "healthy" /\ good(r).failure_count = 0
    BY DEF AccountRow
  <2>3. bad(r).life = r.life /\ bad(r).status = "unhealthy"
    BY DEF AccountRow
  <2>4. bad(r).failure_count > 0
    BY DEF AccountRow
  <2> QED
    BY <2>1, <2>2, <2>3, <2>4, <2>5 DEF Sane
<1> HIDE DEF good, bad
<1> QED
  BY <1>1, <1>2 DEF Touches, Table

LEMMA FreshRow ==
    ASSUME NEW life \in {"unborn", "live", "deleted"}, NEW e \in BOOLEAN
    PROVE  /\ AccountWith(life, e) \in AccountRow
           /\ AccountWith(life, e).life = life
           /\ Sane(AccountWith(life, e))
BY DEF AccountWith, AccountRow, Sane

\* What a report of Gateway stores, or loses.
LEMMA ReportsTouch ==
    ASSUME accounts \in Table, NEW a, NEW ok \in BOOLEAN, Reports(a, ok)
    PROVE  Touches(accounts, accounts')
<1>1. CASE accounts' = accounts
  BY <1>1 DEF Touches
<1>2. CASE accounts' = ReportAccount(accounts, a, ok)
  BY <1>2, ReportTouches
<1> QED
  BY <1>1, <1>2 DEF Reports

LEMMA Subsets ==
    ASSUME NEW S \in SUBSET (AccountIDs \cup {NoAccount})
    PROVE  IsFiniteSet(S) /\ Cardinality(S) \in Nat
<1>1. IsFiniteSet(0..MaxAccountID)
  BY FS_Interval, AccountStoreAssumption
<1>2. S \subseteq 0..MaxAccountID
  BY AccountStoreAssumption DEF AccountIDs, NoAccount
<1> QED
  BY <1>1, <1>2, FS_Subset, FS_CardinalityType

-----------------------------------------------------------------------------
(* Every step keeps the table of accounts in shape. *)

AllSane(A) == \A a \in AccountIDs : Sane(A[a])

LEMMA TableInit == Init => accounts \in Table /\ AllSane(accounts)
<1> SUFFICES ASSUME Init PROVE accounts \in Table /\ AllSane(accounts)
  OBVIOUS
<1>1. PICK n \in 0..MaxAccountID :
         accounts = [a \in AccountIDs |->
                        IF a <= n THEN NewAccount(TRUE) ELSE AbsentAccount("unborn")]
  BY DEF Init
<1>2. \A a \in AccountIDs : accounts[a] \in AccountRow /\ Sane(accounts[a])
  BY <1>1, FreshRow DEF NewAccount, AbsentAccount
<1> QED
  BY <1>1, <1>2 DEF Table, AllSane

LEMMA TouchStep ==
    ASSUME accounts \in Table, Touches(accounts, accounts')
    PROVE  accounts' \in Table /\ (AllSane(accounts) => AllSane(accounts)')
BY DEF Touches, AllSane

LEMMA RowStep ==
    ASSUME accounts \in Table, NEW a \in AccountIDs, NEW row \in AccountRow, Sane(row),
           accounts' = [accounts EXCEPT ![a] = row]
    PROVE  accounts' \in Table /\ (AllSane(accounts) => AllSane(accounts)')
BY DEF Table, AllSane

\* Only the administrator adds or removes a row.
LEMMA RowsStay ==
    ASSUME TypeOK, [Next]_vars,
           \A a \in AccountIDs : ~ AdminDelete(a) /\ \A e \in BOOLEAN : ~ AdminCreate(a, e)
    PROVE  Touches(accounts, accounts')
<1>0. accounts \in Table
  BY DEF TypeOK, Table
<1>1. accounts' = accounts => Touches(accounts, accounts')
  BY <1>0 DEF Touches
<1>2. ASSUME NEW a, NEW ok \in BOOLEAN, Reports(a, ok) PROVE Touches(accounts, accounts')
  BY <1>0, <1>2, ReportsTouch
<1>3. ASSUME NEW r \in Requests, Begin(r) \/ Serve(r) \/ Emit(r) \/ Leave(r)
      PROVE  Touches(accounts, accounts')
  <2>1. CASE Begin(r) \/ Emit(r) \/ Leave(r)
    BY <1>1, <2>1 DEF Begin, Emit, Leave, store
  <2>2. CASE Abort(r) \/ Count(r) \/ Send(r) \/ Return(r) \/ PickNothing(r) \/ StoreCookie(r)
    BY <1>1, <2>2 DEF Abort, Count, Send, Return, PickNothing, StoreCookie, store
  <2>3. ASSUME NEW a \in AccountIDs, Pick(r, a) PROVE Touches(accounts, accounts')
    <3>1. PICK t \in Nat : accounts' = PickAccount(accounts, a, t)
      BY <2>3, GatewayAssumption DEF Pick, Seconds
    <3> QED
      BY <1>0, <3>1, PickTouches
  <2>4. CASE ReportSuccess(r) \/ ReportFailure(r)
    BY <1>2, <2>4 DEF ReportSuccess, ReportFailure
  <2> QED
    BY <1>3, <2>1, <2>2, <2>3, <2>4 DEF Serve
<1>4. ASSUME NEW a \in AccountIDs, BeginProbe(a) PROVE Touches(accounts, accounts')
  BY <1>1, <1>4 DEF BeginProbe, store
<1>5. ASSUME NEW a \in AccountIDs, NEW e \in BOOLEAN, NEW b \in BOOLEAN, BeginEdit(a, e, b)
      PROVE  Touches(accounts, accounts')
  BY <1>1, <1>5 DEF BeginEdit, store
<1>6. ASSUME NEW ok \in BOOLEAN, EndProbe(ok) PROVE Touches(accounts, accounts')
  BY <1>2, <1>6 DEF EndProbe
<1>7. CASE EndEdit
  <2>1. CASE accounts' = accounts
    BY <1>1, <2>1
  <2>2. CASE /\ LiveAccount(accounts, edit.acct)
             /\ accounts' = UpdateAccount(accounts, edit.acct, edit.enabled, edit.new # edit.read)
    <3>1. edit.acct \in AccountIDs /\ edit.enabled \in BOOLEAN /\ (edit.new # edit.read) \in BOOLEAN
      BY <1>0, <2>2 DEF LiveAccount, Table, TypeOK
    <3>2. Touches(accounts, UpdateAccount(accounts, edit.acct, edit.enabled, edit.new # edit.read))
      BY <1>0, <3>1, UpdateTouches
    <3> QED
      BY <2>2, <3>2
  <2> QED
    BY <1>7, <2>1, <2>2 DEF EndEdit
<1>8. CASE UNCHANGED vars
  BY <1>1, <1>8 DEF vars, store
<1> QED
  BY <1>3, <1>4, <1>5, <1>6, <1>7, <1>8 DEF Next

LEMMA TableStep ==
    ASSUME TypeOK, [Next]_vars
    PROVE  accounts' \in Table /\ (AllSane(accounts) => AllSane(accounts)')
<1>0. accounts \in Table
  BY DEF TypeOK, Table
<1>1. CASE \E a \in AccountIDs : AdminDelete(a)
  <2>1. PICK a \in AccountIDs : accounts' = [accounts EXCEPT ![a] = AccountWith("deleted", FALSE)]
    BY <1>1 DEF AdminDelete, DeleteAccount, AbsentAccount
  <2> QED
    BY <1>0, <2>1, FreshRow, RowStep
<1>2. CASE \E a \in AccountIDs, e \in BOOLEAN : AdminCreate(a, e)
  <2>1. PICK a \in AccountIDs, e \in BOOLEAN :
           accounts' = [accounts EXCEPT ![a] = AccountWith("live", e)]
    BY <1>2 DEF AdminCreate, CreateAccount, NewAccount
  <2> QED
    BY <1>0, <2>1, FreshRow, RowStep
<1> QED
  BY <1>0, <1>1, <1>2, RowsStay, TouchStep

-----------------------------------------------------------------------------
(* Types. *)

LEMMA Facts ==
    /\ NoAccount \notin AccountIDs
    /\ NoCookie \in Cookie
    /\ NoAnswer \in Answer
    /\ NoSetting \in [fallback : BOOLEAN, auth : BOOLEAN]
BY AccountStoreAssumption, GatewayAssumption
   DEF NoAccount, AccountIDs, NoCookie, Cookie, NoAnswer, Answer, NoSetting

\* A cookie the administrator enters, and one the upstream renews.
LEMMA Cookies ==
    /\ \A n \in 0..MaxLogin : Login(n) \in Cookie
    /\ \A c \in Cookie : c.turn < MaxTurn
          => [login |-> c.login, turn |-> c.turn + 1] \in Cookie
BY GatewayAssumption DEF Cookie, Login

LEMMA TypeInit == Init => TypeOK
<1> SUFFICES ASSUME Init PROVE TypeOK
  OBVIOUS
<1>1. accounts \in [AccountIDs -> AccountRow]
  BY TableInit DEF Table
<1>2. PICK n \in 0..MaxAccountID : n <= MaxLogin /\ logins = n
  BY DEF Init
<1>3. logins \in 0..MaxLogin
  BY <1>2, AccountStoreAssumption, GatewayAssumption
<1>4. cookie \in [AccountIDs -> Cookie]
  <2>1. \A a \in AccountIDs : a <= logins => a \in 0..MaxLogin
    BY <1>3, GatewayAssumption, AccountStoreAssumption DEF AccountIDs
  <2> QED
    BY <2>1, Facts, Cookies DEF Init
<1>5. granted \in [AccountIDs -> SUBSET (0..MaxLogin)]
  BY <1>3, GatewayAssumption, AccountStoreAssumption DEF Init, AccountIDs
<1>6. NoEdit \in [acct : AccountIDs \cup {NoAccount}, read : Cookie, new : Cookie, enabled : BOOLEAN]
  BY Facts DEF NoEdit
<1> QED
  BY <1>1, <1>3, <1>4, <1>5, <1>6, Facts DEF Init, TypeOK

LEMMA TypeStep == TypeOK /\ [Next]_vars => TypeOK'
<1> SUFFICES ASSUME TypeOK, [Next]_vars PROVE TypeOK'
  OBVIOUS
<1>0. accounts' \in [AccountIDs -> AccountRow]
  BY TableStep DEF Table
<1>1. ASSUME NEW r \in Requests, Begin(r) PROVE TypeOK'
  BY <1>0, <1>1 DEF TypeOK, Begin, Goto, store, others
<1>2. ASSUME NEW r \in Requests, Emit(r) PROVE TypeOK'
  BY <1>0, <1>2 DEF TypeOK, Emit, locals, store, others
<1>3. ASSUME NEW r \in Requests, Leave(r) PROVE TypeOK'
  BY <1>0, <1>3, Facts DEF TypeOK, Leave, Goto, store, others
<1>4. ASSUME NEW r \in Requests, Abort(r) PROVE TypeOK'
  BY <1>0, <1>4 DEF TypeOK, Abort, Goto, locals, store, others
<1>5. ASSUME NEW r \in Requests, Count(r) PROVE TypeOK'
  <2>1. EnabledAccounts(accounts) \in SUBSET AccountIDs
    BY DEF TypeOK, EnabledAccounts
  <2> QED
    BY <1>0, <1>5, <2>1 DEF TypeOK, Count, Goto, store, others
<1>6. ASSUME NEW r \in Requests, Send(r) PROVE TypeOK'
  BY <1>0, <1>6 DEF TypeOK, Send, Goto, locals, store, others
<1>7. ASSUME NEW r \in Requests, Return(r) PROVE TypeOK'
  <2>1. \A ok, credential \in BOOLEAN : AfterAnswer(r, ok, credential) \in {"report", "done"}
    BY DEF AfterAnswer
  <2>2. CASE pc[r] = "anonymous"
    BY <1>0, <1>7, <2>2 DEF TypeOK, Return, Goto, locals, store, others
  <2>3. CASE pc[r] = "sending"
    <3>1. PICK ok, credential, rotated \in BOOLEAN :
             /\ answer' = [answer EXCEPT ![r] = [ok |-> ok, rotated |-> rotated]]
             /\ Goto(r, AfterAnswer(r, ok, credential))
      BY <1>7, <2>3 DEF Return
    <3>2. [ok |-> ok, rotated |-> rotated] \in Answer
      BY DEF Answer
    <3>3. UNCHANGED <<store, setting, snapshot, attempt, excluded, acct, held, emitted, others, sent>>
      BY <1>7, <2>3 DEF Return
    <3> QED
      BY <1>0, <2>1, <3>1, <3>2, <3>3 DEF TypeOK, Goto, store, others
  <2> QED
    BY <1>7, <2>2, <2>3 DEF Return
<1>8. ASSUME NEW r \in Requests, NEW a \in AccountIDs, Pick(r, a) PROVE TypeOK'
  BY <1>0, <1>8 DEF TypeOK, Pick, Goto, others
<1>9. ASSUME NEW r \in Requests, PickNothing(r) PROVE TypeOK'
  BY <1>0, <1>9 DEF TypeOK, PickNothing, Goto, store, others
<1>10. ASSUME NEW r \in Requests, ReportSuccess(r) PROVE TypeOK'
  BY <1>0, <1>10 DEF TypeOK, ReportSuccess, Goto, locals, others
<1>11. ASSUME NEW r \in Requests, ReportFailure(r) PROVE TypeOK'
  <2>1. attempt' \in [Requests -> Nat] /\ excluded' \in [Requests -> SUBSET AccountIDs]
    BY <1>11 DEF TypeOK, ReportFailure, NextAttempt
  <2>2. pc' = [pc EXCEPT ![r] = "pick"] \/ pc' = [pc EXCEPT ![r] = "anonymous"]
          \/ pc' = [pc EXCEPT ![r] = "done"]
    BY <1>11 DEF ReportFailure, NextAttempt, Goto
  <2>3. /\ acct' \in [Requests -> AccountIDs \cup {NoAccount}]
        /\ sent' \in [Requests -> SUBSET (AccountIDs \cup {NoAccount})]
    <3>1. acct' = acct \/ acct' = [acct EXCEPT ![r] = NoAccount]
      BY <1>11 DEF ReportFailure
    <3>2. sent' = sent \/ sent' = [sent EXCEPT ![r] = @ \cup {NoAccount}]
      BY <1>11 DEF ReportFailure
    <3> QED
      BY <3>1, <3>2, SMTT(30) DEF TypeOK
  <2>4. UNCHANGED <<cookie, setting, snapshot, held, answer, emitted, others>>
    BY <1>11 DEF ReportFailure
  <2> QED
    BY <1>0, <2>1, <2>2, <2>3, <2>4 DEF TypeOK, others
<1>12. ASSUME NEW r \in Requests, StoreCookie(r) PROVE TypeOK'
  <2>1. cookie' \in [AccountIDs -> Cookie]
    BY <1>12, Cookies, SMTT(30) DEF TypeOK, StoreCookie
  <2> QED
    BY <1>0, <1>12, <2>1 DEF TypeOK, StoreCookie, Goto, locals, others
<1>13. ASSUME NEW a \in AccountIDs, BeginProbe(a) PROVE TypeOK'
  BY <1>0, <1>13 DEF TypeOK, BeginProbe, locals, store
<1>14. ASSUME NEW ok \in BOOLEAN, EndProbe(ok) PROVE TypeOK'
  BY <1>0, <1>14 DEF TypeOK, EndProbe, locals
<1>15. ASSUME NEW a \in AccountIDs, AdminDelete(a) PROVE TypeOK'
  BY <1>0, <1>15, Facts DEF TypeOK, AdminDelete, locals
<1>16. ASSUME NEW a \in AccountIDs, NEW e \in BOOLEAN, AdminCreate(a, e) PROVE TypeOK'
  <2>1. logins + 1 \in 0..MaxLogin
    BY <1>16, GatewayAssumption DEF TypeOK, AdminCreate
  <2> QED
    BY <1>0, <1>16, <2>1, Cookies DEF TypeOK, AdminCreate, locals
<1>17. ASSUME NEW a \in AccountIDs, NEW e \in BOOLEAN, NEW b \in BOOLEAN, BeginEdit(a, e, b)
       PROVE  TypeOK'
  <2>1. logins' \in 0..MaxLogin /\ (~ b => logins + 1 \in 0..MaxLogin)
    BY <1>17, GatewayAssumption DEF TypeOK, BeginEdit
  <2>2. (IF b THEN cookie[a] ELSE Login(logins + 1)) \in Cookie
    BY <2>1, Cookies DEF TypeOK
  <2> QED
    BY <1>0, <1>17, <2>1, <2>2 DEF TypeOK, BeginEdit, locals, store
<1>18. CASE EndEdit
  <2>1. NoEdit \in [acct : AccountIDs \cup {NoAccount}, read : Cookie, new : Cookie, enabled : BOOLEAN]
    BY Facts DEF NoEdit
  <2>2. cookie' \in [AccountIDs -> Cookie] /\ granted' \in [AccountIDs -> SUBSET (0..MaxLogin)]
    <3>1. edit.new \in Cookie /\ edit.new.login \in 0..MaxLogin
      BY DEF TypeOK, Cookie
    <3>2. cookie' = cookie \/ cookie' = [cookie EXCEPT ![edit.acct] = edit.new]
      BY <1>18 DEF EndEdit
    <3>3. \/ granted' = granted
          \/ granted' = [granted EXCEPT ![edit.acct] = @ \cup {edit.new.login}]
      BY <1>18 DEF EndEdit
    <3>4. cookie' \in [AccountIDs -> Cookie]
      BY <3>1, <3>2 DEF TypeOK
    <3> QED
      BY <3>1, <3>3, <3>4 DEF TypeOK
  <2> QED
    BY <1>0, <1>18, <2>1, <2>2 DEF TypeOK, EndEdit, locals
<1>19. CASE UNCHANGED vars
  BY <1>0, <1>19 DEF TypeOK, vars, locals, store, others
<1> QED
  BY <1>1, <1>2, <1>3, <1>4, <1>5, <1>6, <1>7, <1>8, <1>9, <1>10, <1>11, <1>12, <1>13, <1>14,
     <1>15, <1>16, <1>17, <1>18, <1>19 DEF Next, Serve

\* Every variable keeps its type, whatever the bounds.
THEOREM TypeCorrect == Spec => []TypeOK
BY TypeInit, TypeStep, PTL DEF Spec

\* HealthMatchesFailures: reports that arrive late, are lost, or meet an edit
\* or a deletion never tear status and failure_count apart (accounts.go:195).
THEOREM HealthConsistent == Spec => []HealthMatchesFailures
<1> DEFINE IInv == TypeOK /\ AllSane(accounts)
<1>1. Init => IInv
  BY TypeInit, TableInit
<1>2. IInv /\ [Next]_vars => IInv'
  BY TypeStep, TableStep
<1>3. IInv => HealthMatchesFailures
  BY DEF AllSane, Sane, HealthMatchesFailures
<1> QED
  BY <1>1, <1>2, <1>3, PTL DEF Spec

-----------------------------------------------------------------------------
(* Cookies. *)

\* The account a request picked had been created, and while it lives the
\* cookie the request holds was entered for it.
HeldFits(r) ==
    acct[r] # NoAccount =>
        /\ accounts[acct[r]].life # "unborn"
        /\ LiveAccount(accounts, acct[r]) => held[r].login \in granted[acct[r]]

CookieInv == CookieStaysWithAccount /\ \A r \in Requests : HeldFits(r)

LEMMA CookieInit == Init => CookieInv
<1> SUFFICES ASSUME Init PROVE CookieInv
  OBVIOUS
<1>1. \A a \in AccountIDs : accounts[a].life = IF a <= logins THEN "live" ELSE "unborn"
  BY DEF Init, NewAccount, AbsentAccount, AccountWith
<1> QED
  BY <1>1 DEF Init, CookieInv, CookieStaysWithAccount, HeldFits, LiveAccount, Login

\* What a step must show: the rows that stay or become live, and the requests
\* that stay with or come to an account.
LEMMA CookieNext ==
    ASSUME TypeOK, TypeOK', CookieInv,
           \A a \in AccountIDs : accounts'[a].life = "live" =>
              \/ cookie'[a].login \in granted'[a]
              \/ /\ accounts[a].life = "live" /\ cookie'[a] = cookie[a]
                 /\ granted[a] \subseteq granted'[a],
           \A r \in Requests : acct'[r] # NoAccount =>
              \/ /\ acct'[r] = acct[r] /\ held'[r] = held[r]
                 /\ accounts'[acct[r]].life = "unborn" => accounts[acct[r]].life = "unborn"
                 /\ accounts'[acct[r]].life = "live" =>
                       \/ accounts[acct[r]].life = "unborn"
                       \/ /\ accounts[acct[r]].life = "live"
                          /\ granted[acct[r]] \subseteq granted'[acct[r]]
              \/ /\ accounts'[acct'[r]].life = "live"
                 /\ held'[r].login \in granted'[acct'[r]]
    PROVE  CookieInv'
<1>1. \A a : /\ LiveAccount(accounts, a) <=> a \in AccountIDs /\ accounts[a].life = "live"
             /\ LiveAccount(accounts', a) <=> a \in AccountIDs /\ accounts'[a].life = "live"
  BY DEF TypeOK, LiveAccount
<1>2. CookieStaysWithAccount'
  BY <1>1 DEF CookieInv, CookieStaysWithAccount
<1>3. ASSUME NEW r \in Requests PROVE HeldFits(r)'
  <2>1. HeldFits(r)
    BY DEF CookieInv
  <2>2. acct[r] \in AccountIDs \cup {NoAccount} /\ acct'[r] \in AccountIDs \cup {NoAccount}
    BY DEF TypeOK
  <2> QED
    BY <1>1, <2>1, <2>2 DEF HeldFits
<1> QED
  BY <1>2, <1>3 DEF CookieInv

LEMMA CookieStep ==
    ASSUME TypeOK, TypeOK', CookieInv, [Next]_vars
    PROVE  CookieInv'
<1>0. accounts \in Table /\ accounts' \in Table
  BY DEF TypeOK, Table
<1>1. ASSUME NEW a \in AccountIDs, AdminDelete(a) PROVE CookieInv'
  <2>1. \A b \in AccountIDs : accounts'[b].life = IF b = a THEN "deleted" ELSE accounts[b].life
    BY <1>0, <1>1 DEF AdminDelete, DeleteAccount, AbsentAccount, AccountWith, Table
  <2>2. \A b \in AccountIDs \ {a} : cookie'[b] = cookie[b] /\ granted'[b] = granted[b]
    BY <1>1 DEF AdminDelete, TypeOK
  <2>3. UNCHANGED <<acct, held>>
    BY <1>1 DEF AdminDelete, locals
  <2>4. \A r \in Requests : acct[r] # NoAccount => acct[r] \in AccountIDs
    BY DEF TypeOK
  <2>5. \A b \in AccountIDs : accounts[b].life = "live" => cookie[b].login \in granted[b]
    BY DEF TypeOK, CookieInv, CookieStaysWithAccount, LiveAccount
  <2> QED
    BY <2>1, <2>2, <2>3, <2>4, <2>5, CookieNext
<1>2. ASSUME NEW a \in AccountIDs, NEW e \in BOOLEAN, AdminCreate(a, e) PROVE CookieInv'
  <2>1. \A b \in AccountIDs : accounts'[b].life = IF b = a THEN "live" ELSE accounts[b].life
    BY <1>0, <1>2 DEF AdminCreate, CreateAccount, NewAccount, AccountWith, Table
  <2>2. \A b \in AccountIDs \ {a} : cookie'[b] = cookie[b] /\ granted'[b] = granted[b]
    BY <1>2 DEF AdminCreate, TypeOK
  <2>3. cookie'[a].login \in granted'[a] /\ accounts[a].life = "unborn"
    BY <1>2 DEF AdminCreate, TypeOK, Login, IsNextAccountID
  <2>4. UNCHANGED <<acct, held>>
    BY <1>2 DEF AdminCreate, locals
  <2>5. \A r \in Requests : acct[r] # NoAccount => acct[r] \in AccountIDs
    BY DEF TypeOK
  <2> QED
    BY <2>1, <2>2, <2>3, <2>4, <2>5, CookieNext
<1>3. ASSUME \A a \in AccountIDs : ~ AdminDelete(a) /\ \A e \in BOOLEAN : ~ AdminCreate(a, e)
      PROVE  CookieInv'
  <2>0. \A a \in AccountIDs : accounts'[a].life = accounts[a].life
    BY <1>3, RowsStay DEF Touches
  <2>A. \A r \in Requests : acct[r] # NoAccount => acct[r] \in AccountIDs
    BY DEF TypeOK
  <2>1. ASSUME UNCHANGED <<cookie, granted>>,
               \A r \in Requests : acct'[r] = NoAccount \/ (acct'[r] = acct[r] /\ held'[r] = held[r])
        PROVE  CookieInv'
    BY <2>0, <2>A, <2>1, CookieNext
  <2>2. ASSUME NEW r \in Requests, Begin(r) \/ Emit(r) PROVE CookieInv'
    BY <2>1, <2>2 DEF Begin, Emit, store, locals, others
  <2>B. ASSUME NEW r \in Requests, Leave(r) PROVE CookieInv'
    <3>1. UNCHANGED <<cookie, granted>>
      BY <2>B DEF Leave, store, others
    <3>2. /\ acct' = [acct EXCEPT ![r] = NoAccount]
          /\ held' = [held EXCEPT ![r] = NoCookie]
      BY <2>B DEF Leave
    <3>3. acct'[r] = NoAccount /\ \A q \in Requests \ {r} : acct'[q] = acct[q]
      BY <3>2 DEF TypeOK
    <3>4. \A q \in Requests \ {r} : held'[q] = held[q]
      BY <3>2 DEF TypeOK
    <3>5. \A q \in Requests :
             acct'[q] = NoAccount \/ (acct'[q] = acct[q] /\ held'[q] = held[q])
      BY <3>3, <3>4
    <3> QED
      BY <2>1, <3>1, <3>5
  <2>3. ASSUME NEW r \in Requests, Abort(r) \/ Count(r) \/ Send(r) \/ Return(r) PROVE CookieInv'
    BY <2>1, <2>3 DEF Abort, Count, Send, Return, store, locals, others
  <2>4. ASSUME NEW r \in Requests, PickNothing(r) \/ ReportSuccess(r) \/ ReportFailure(r)
        PROVE  CookieInv'
    BY <2>1, <2>4 DEF PickNothing, ReportSuccess, ReportFailure, TypeOK, store, locals, others
  <2>5. ASSUME NEW r \in Requests, NEW a \in AccountIDs, Pick(r, a) PROVE CookieInv'
    <3>1. LiveAccount(accounts, a) /\ cookie[a].login \in granted[a]
      BY <2>5 DEF Pick, IsPickedAccount, EnabledAccounts, LiveAccount, CookieInv, CookieStaysWithAccount
    <3>2. acct'[r] = a /\ held'[r] = cookie[a] /\ UNCHANGED <<cookie, granted>>
      BY <2>5 DEF Pick, TypeOK, others
    <3>3. \A q \in Requests \ {r} : acct'[q] = acct[q] /\ held'[q] = held[q]
      BY <2>5 DEF Pick, TypeOK
    <3> QED
      BY <2>0, <2>A, <3>1, <3>2, <3>3, CookieNext DEF LiveAccount
  <2>6. ASSUME NEW r \in Requests, StoreCookie(r) PROVE CookieInv'
    <3>1. UNCHANGED <<acct, held, granted>>
      BY <2>6 DEF StoreCookie, locals, others
    <3>2. CASE cookie' = cookie
      BY <2>1, <3>1, <3>2
    <3>3. CASE /\ LiveAccount(accounts, acct[r])
               /\ cookie' = [cookie EXCEPT ![acct[r]] =
                                [login |-> held[r].login, turn |-> held[r].turn + 1]]
      <4>1. acct[r] \in AccountIDs
        BY <1>0, <3>3 DEF LiveAccount, Table
      <4>2. held[r].login \in granted[acct[r]]
        BY <3>3, <4>1, Facts DEF CookieInv, HeldFits
      <4>3. cookie'[acct[r]].login = held[r].login
        BY <3>3, <4>1 DEF TypeOK
      <4>4. \A b \in AccountIDs \ {acct[r]} : cookie'[b] = cookie[b]
        BY <3>3 DEF TypeOK
      <4> QED
        BY <2>0, <2>A, <3>1, <4>1, <4>2, <4>3, <4>4, CookieNext
    <3> QED
      BY <2>6, <3>2, <3>3 DEF StoreCookie
  <2>7. ASSUME NEW a \in AccountIDs, BeginProbe(a) PROVE CookieInv'
    BY <2>1, <2>7 DEF BeginProbe, store, locals
  <2>8. ASSUME NEW a \in AccountIDs, NEW e \in BOOLEAN, NEW b \in BOOLEAN, BeginEdit(a, e, b)
        PROVE  CookieInv'
    BY <2>1, <2>8 DEF BeginEdit, store, locals
  <2>9. ASSUME NEW ok \in BOOLEAN, EndProbe(ok) PROVE CookieInv'
    BY <2>1, <2>9 DEF EndProbe, locals
  <2>10. CASE EndEdit
    <3>1. UNCHANGED <<acct, held>>
      BY <2>10 DEF EndEdit, locals
    <3>2. CASE UNCHANGED <<cookie, granted>>
      BY <2>1, <3>1, <3>2
    <3>3. CASE /\ LiveAccount(accounts, edit.acct)
               /\ cookie' = [cookie EXCEPT ![edit.acct] = edit.new]
               /\ granted' = [granted EXCEPT ![edit.acct] = @ \cup {edit.new.login}]
      <4>1. edit.acct \in AccountIDs
        BY <1>0, <3>3 DEF LiveAccount, Table
      <4>2. cookie'[edit.acct].login \in granted'[edit.acct]
        BY <3>3, <4>1 DEF TypeOK
      <4>3. \A b \in AccountIDs \ {edit.acct} : cookie'[b] = cookie[b] /\ granted'[b] = granted[b]
        BY <3>3 DEF TypeOK
      <4>4. \A b \in AccountIDs : granted[b] \subseteq granted'[b]
        BY <3>3 DEF TypeOK
      <4> QED
        BY <2>0, <2>A, <3>1, <4>1, <4>2, <4>3, <4>4, CookieNext
    <3> QED
      BY <2>10, <3>2, <3>3 DEF EndEdit
  <2>11. CASE UNCHANGED vars
    BY <2>1, <2>11 DEF vars, store, locals, others
  <2> QED
    BY <1>3, <2>2, <2>B, <2>3, <2>4, <2>5, <2>6, <2>7, <2>8, <2>9, <2>10, <2>11 DEF Next, Serve
<1> QED
  BY <1>1, <1>2, <1>3

\* CookieStaysWithAccount: whichever rotations, edits and deletions cross, a
\* row keeps a cookie that was entered for it (accounts.go:186).
THEOREM CookieStays == Spec => []CookieStaysWithAccount
<1> DEFINE IInv == TypeOK /\ CookieInv
<1>1. Init => IInv
  BY TypeInit, CookieInit
<1>2. IInv /\ [Next]_vars => IInv'
  BY TypeStep, CookieStep
<1>3. IInv => CookieStaysWithAccount
  BY DEF CookieInv
<1> QED
  BY <1>1, <1>2, <1>3, PTL DEF Spec

-----------------------------------------------------------------------------
(* The loop of Generate, and what it promises the caller. *)

Waits(r) == pc[r] \notin {"idle", "done"}

\* What the loop knows at each place.
Loop(r) ==
    /\ pc[r] \in {"idle", "count"} =>
          attempt[r] = 0 /\ excluded[r] = {} /\ sent[r] = {} /\ ~ emitted[r]
    /\ pc[r] = "pick" =>
          /\ ~ emitted[r] /\ sent[r] = excluded[r]
          /\ Cardinality(sent[r]) = attempt[r] /\ attempt[r] < maxAccountAttempts
          /\ snapshot[r] # {} => Cardinality(excluded[r]) < Cardinality(snapshot[r])
    /\ pc[r] = "egress" =>
          /\ ~ emitted[r] /\ NoAccount \notin sent[r]
          /\ acct[r] # NoAccount =>
                acct[r] \notin sent[r] /\ excluded[r] = sent[r] \cup {acct[r]}
          /\ Cardinality(sent[r]) = attempt[r] /\ attempt[r] < maxAccountAttempts
    /\ pc[r] \in {"sending", "report", "cookie"} /\ acct[r] # NoAccount =>
          sent[r] = excluded[r] /\ Cardinality(sent[r]) = attempt[r] + 1
    /\ pc[r] \in {"sending", "anonymous"} => acct[r] \in sent[r]
    /\ pc[r] = "report" => acct[r] # NoAccount /\ (~ answer[r].ok => ~ emitted[r])

LoopInv == \A r \in Requests : Loop(r)

LEMMA LoopInit == Init => LoopInv
BY DEF Init, LoopInv, Loop

\* The variables of a request that is not the one that moves.
Moves(r) ==
    \A q \in Requests \ {r} :
        /\ pc'[q] = pc[q] /\ attempt'[q] = attempt[q] /\ excluded'[q] = excluded[q]
        /\ snapshot'[q] = snapshot[q] /\ sent'[q] = sent[q] /\ emitted'[q] = emitted[q]
        /\ acct'[q] = acct[q] /\ answer'[q] = answer[q]

LEMMA Others ==
    ASSUME LoopInv, NEW r \in Requests, Moves(r), Loop(r)'
    PROVE  LoopInv'
BY DEF LoopInv, Loop, Moves

LEMMA LoopStep ==
    ASSUME TypeOK, TypeOK', LoopInv, [Next]_vars
    PROVE  LoopInv'
<1>0. \A r \in Requests : Loop(r)
  BY DEF LoopInv
<1>C. \A r \in Requests :
         /\ IsFiniteSet(excluded[r]) /\ IsFiniteSet(sent[r]) /\ IsFiniteSet(snapshot[r])
         /\ Cardinality(excluded[r]) \in Nat /\ Cardinality(sent[r]) \in Nat
         /\ Cardinality(snapshot[r]) \in Nat
         /\ NoAccount \notin excluded[r]
  BY Subsets, Facts DEF TypeOK
<1>1. ASSUME UNCHANGED <<pc, snapshot, attempt, excluded, acct, answer, emitted, sent>>
      PROVE  LoopInv'
  BY <1>0, <1>1 DEF LoopInv, Loop
<1>2. ASSUME NEW r \in Requests, Begin(r) PROVE LoopInv'
  <2>1. Moves(r)
    BY <1>2 DEF Begin, Goto, Moves, TypeOK
  <2>2. Loop(r)'
    BY <1>0, <1>2 DEF Begin, Goto, Loop, TypeOK
  <2> QED
    BY <2>1, <2>2, Others
<1>3. ASSUME NEW r \in Requests, Emit(r) PROVE LoopInv'
  <2>1. Moves(r)
    BY <1>3 DEF Emit, Moves, TypeOK, locals
  <2>2. Loop(r)'
    BY <1>0, <1>3 DEF Emit, Loop, TypeOK, locals
  <2> QED
    BY <2>1, <2>2, Others
<1>4. ASSUME NEW r \in Requests, Leave(r) PROVE LoopInv'
  <2>1. Moves(r)
    BY <1>4 DEF Leave, Goto, Moves, TypeOK
  <2>2. Loop(r)'
    BY <1>4 DEF Leave, Goto, Loop, TypeOK
  <2> QED
    BY <2>1, <2>2, Others
<1>5. ASSUME NEW r \in Requests, Abort(r) PROVE LoopInv'
  <2>1. Moves(r)
    BY <1>5 DEF Abort, Goto, Moves, TypeOK, locals
  <2>2. Loop(r)'
    BY <1>5 DEF Abort, Goto, Loop, TypeOK, locals
  <2> QED
    BY <2>1, <2>2, Others
<1>6. ASSUME NEW r \in Requests, Count(r) PROVE LoopInv'
  <2>1. Moves(r)
    BY <1>6 DEF Count, Goto, Moves, TypeOK
  <2>2. snapshot'[r] \in SUBSET AccountIDs /\ IsFiniteSet(snapshot'[r])
    BY Subsets DEF TypeOK
  <2>3. snapshot'[r] # {} => Cardinality(snapshot'[r]) \in Nat /\ Cardinality(snapshot'[r]) # 0
    BY <2>2, FS_EmptySet, FS_CardinalityType
  <2>4. attempt'[r] = 0 /\ excluded'[r] = {} /\ sent'[r] = {} /\ ~ emitted'[r]
    BY <1>0, <1>6 DEF Count, Loop
  <2>5. pc'[r] \in {"done", "pick"}
    BY <1>6 DEF Count, Goto, TypeOK
  <2>6. Cardinality({}) = 0 /\ 0 < maxAccountAttempts
    BY FS_EmptySet, GatewayAssumption
  <2>7. Loop(r)'
    BY <2>3, <2>4, <2>5, <2>6 DEF Loop
  <2> QED
    BY <2>1, <2>7, Others
<1>7. ASSUME NEW r \in Requests, NEW a \in AccountIDs, Pick(r, a) PROVE LoopInv'
  <2>1. Moves(r)
    BY <1>7 DEF Pick, Goto, Moves, TypeOK
  <2>2. /\ pc[r] = "pick" /\ pc'[r] = "egress" /\ acct'[r] = a
        /\ excluded'[r] = excluded[r] \cup {a} /\ a \notin excluded[r]
        /\ sent'[r] = sent[r] /\ emitted'[r] = emitted[r] /\ attempt'[r] = attempt[r]
    BY <1>7 DEF Pick, Goto, TypeOK, IsPickedAccount
  <2>3. Loop(r)'
    BY <1>0, <1>C, <2>2 DEF Loop
  <2> QED
    BY <2>1, <2>3, Others
<1>8. ASSUME NEW r \in Requests, PickNothing(r) PROVE LoopInv'
  <2>1. Moves(r)
    BY <1>8 DEF PickNothing, Goto, Moves, TypeOK
  <2>2. /\ pc[r] = "pick" /\ pc'[r] \in {"done", "egress"} /\ acct'[r] = NoAccount
        /\ UNCHANGED <<sent, emitted, attempt, excluded>>
    BY <1>8 DEF PickNothing, Goto, TypeOK
  <2>3. Loop(r)'
    BY <1>0, <1>C, <2>2 DEF Loop
  <2> QED
    BY <2>1, <2>3, Others
<1>9. ASSUME NEW r \in Requests, Send(r) PROVE LoopInv'
  <2>1. Moves(r)
    BY <1>9 DEF Send, Goto, Moves, TypeOK, locals
  <2>2. /\ pc[r] = "egress" /\ pc'[r] = "sending" /\ sent'[r] = sent[r] \cup {acct[r]}
        /\ UNCHANGED <<acct, emitted, attempt, excluded>>
    BY <1>9 DEF Send, Goto, TypeOK, locals
  <2>3. acct[r] # NoAccount => Cardinality(sent[r] \cup {acct[r]}) = Cardinality(sent[r]) + 1
    BY <1>0, <1>C, <2>2, FS_AddElement DEF Loop
  <2>4. Loop(r)'
    BY <1>0, <1>C, <2>2, <2>3 DEF Loop
  <2> QED
    BY <2>1, <2>4, Others
<1>10. ASSUME NEW r \in Requests, Return(r) PROVE LoopInv'
  <2>1. Moves(r)
    BY <1>10 DEF Return, Goto, Moves, TypeOK, locals
  <2>2. UNCHANGED <<acct, emitted, attempt, excluded, sent>>
    BY <1>10 DEF Return, locals
  <2>3. CASE pc[r] = "anonymous"
    <3>1. pc'[r] = "done"
      BY <1>10, <2>3 DEF Return, Goto, TypeOK
    <3> QED
      BY <2>1, <3>1, Others DEF Loop
  <2>4. CASE pc[r] = "sending"
    <3>1. PICK ok, credential, rotated \in BOOLEAN :
             /\ answer' = [answer EXCEPT ![r] = [ok |-> ok, rotated |-> rotated]]
             /\ Goto(r, AfterAnswer(r, ok, credential))
      BY <1>10, <2>4 DEF Return
    <3>2. answer'[r].ok = ok
      BY <3>1 DEF TypeOK
    <3>3. \/ pc'[r] = "done"
          \/ pc'[r] = "report" /\ acct[r] # NoAccount /\ (ok \/ ~ emitted[r])
      BY <3>1 DEF Goto, AfterAnswer, TypeOK
    <3>4. Loop(r)'
      BY <1>0, <2>2, <2>4, <3>2, <3>3 DEF Loop
    <3> QED
      BY <2>1, <3>4, Others
  <2> QED
    BY <1>10, <2>3, <2>4 DEF Return
<1>11. ASSUME NEW r \in Requests, ReportSuccess(r) PROVE LoopInv'
  <2>1. Moves(r)
    BY <1>11 DEF ReportSuccess, Goto, Moves, TypeOK, locals
  <2>2. /\ pc[r] = "report" /\ pc'[r] \in {"cookie", "done"}
        /\ UNCHANGED <<acct, emitted, attempt, excluded, sent>>
    BY <1>11 DEF ReportSuccess, Goto, TypeOK, locals
  <2>3. Loop(r)'
    BY <1>0, <2>2 DEF Loop
  <2> QED
    BY <2>1, <2>3, Others
<1>12. ASSUME NEW r \in Requests, ReportFailure(r) PROVE LoopInv'
  <2>1. Moves(r)
    <3>1. /\ \E l \in {"pick", "anonymous", "done"} : Goto(r, l)
          /\ attempt' = attempt \/ attempt' = [attempt EXCEPT ![r] = @ + 1]
          /\ acct' = acct \/ acct' = [acct EXCEPT ![r] = NoAccount]
          /\ sent' = sent \/ sent' = [sent EXCEPT ![r] = @ \cup {NoAccount}]
          /\ UNCHANGED <<excluded, snapshot, emitted, answer>>
      BY <1>12 DEF ReportFailure, NextAttempt
    <3> QED
      BY <3>1 DEF Goto, Moves, TypeOK
  <2>2. /\ pc[r] = "report" /\ ~ answer[r].ok
        /\ UNCHANGED <<excluded, snapshot, emitted, answer>>
    BY <1>12 DEF ReportFailure, NextAttempt
  <2>3. /\ acct[r] # NoAccount /\ ~ emitted[r] /\ sent[r] = excluded[r]
        /\ Cardinality(sent[r]) = attempt[r] + 1
    BY <1>0, <2>2 DEF Loop
  <2>4. CASE ~ Exhausted(r) /\ NextAttempt(r) /\ UNCHANGED <<acct, sent>>
    <3>1. pc'[r] = "pick" /\ attempt'[r] = attempt[r] + 1 /\ sent'[r] = sent[r]
      BY <2>4 DEF NextAttempt, Goto, TypeOK
    <3>2. attempt[r] + 1 < maxAccountAttempts /\ Cardinality(excluded[r]) < Cardinality(snapshot[r])
      BY <1>C, <2>4, GatewayAssumption DEF Exhausted, TypeOK
    <3>3. Loop(r)'
      BY <2>2, <2>3, <3>1, <3>2 DEF Loop
    <3> QED
      BY <2>1, <3>3, Others
  <2>5. CASE /\ acct' = [acct EXCEPT ![r] = NoAccount] /\ Goto(r, "anonymous")
             /\ sent' = [sent EXCEPT ![r] = @ \cup {NoAccount}]
    <3>1. pc'[r] = "anonymous" /\ acct'[r] \in sent'[r]
      BY <2>5 DEF Goto, TypeOK
    <3>2. Loop(r)'
      BY <3>1 DEF Loop
    <3> QED
      BY <2>1, <3>2, Others
  <2>6. CASE Goto(r, "done")
    <3>1. Loop(r)'
      BY <2>6 DEF Goto, TypeOK, Loop
    <3> QED
      BY <2>1, <3>1, Others
  <2> QED
    BY <1>12, <2>4, <2>5, <2>6 DEF ReportFailure
<1>13. ASSUME NEW r \in Requests, StoreCookie(r) PROVE LoopInv'
  <2>1. Moves(r)
    BY <1>13 DEF StoreCookie, Goto, Moves, TypeOK, locals
  <2>2. Loop(r)'
    BY <1>13 DEF StoreCookie, Goto, Loop, TypeOK
  <2> QED
    BY <2>1, <2>2, Others
<1>14. ASSUME NEW a \in AccountIDs,
              \/ BeginProbe(a) \/ AdminDelete(a)
              \/ \E e \in BOOLEAN : AdminCreate(a, e) \/ \E b \in BOOLEAN : BeginEdit(a, e, b)
       PROVE  LoopInv'
  BY <1>1, <1>14 DEF BeginProbe, AdminDelete, AdminCreate, BeginEdit, locals
<1>15. ASSUME NEW ok \in BOOLEAN, EndProbe(ok) PROVE LoopInv'
  BY <1>1, <1>15 DEF EndProbe, locals
<1>16. CASE EndEdit
  BY <1>1, <1>16 DEF EndEdit, locals
<1>17. CASE UNCHANGED vars
  BY <1>1, <1>17 DEF vars, locals
<1> QED
  BY <1>2, <1>3, <1>4, <1>5, <1>6, <1>7, <1>8, <1>9, <1>10, <1>11, <1>12, <1>13, <1>14, <1>15,
     <1>16, <1>17 DEF Next, Serve

LEMMA Induction == Spec => [](TypeOK /\ LoopInv)
<1> DEFINE IInv == TypeOK /\ LoopInv
<1>1. Init => IInv
  BY TypeInit, LoopInit
<1>2. IInv /\ [Next]_vars => IInv'
  BY TypeStep, LoopStep
<1> QED
  BY <1>1, <1>2, PTL DEF Spec

\* OutOfAccountsOnlyByEdits: the attempts of a request alone never run it out
\* of the accounts it counted (service.go:100, 169).
THEOREM NeverRunsOut == Spec => OutOfAccountsOnlyByEdits
<1> DEFINE Lost(r) == PickNothing(r) /\ snapshot[r] # {}
                        => ~ (snapshot[r] \subseteq EnabledAccounts(accounts))
           A == \A r \in Requests : Lost(r)
<1>1. TypeOK /\ LoopInv => A
  <2> SUFFICES ASSUME TypeOK, LoopInv, NEW r \in Requests, PickNothing(r), snapshot[r] # {},
                      snapshot[r] \subseteq EnabledAccounts(accounts)
               PROVE  FALSE
    OBVIOUS
  <2>1. snapshot[r] \subseteq excluded[r]
    BY DEF PickNothing
  <2>2. Cardinality(excluded[r]) < Cardinality(snapshot[r])
    BY DEF PickNothing, LoopInv, Loop
  <2>3. /\ IsFiniteSet(excluded[r]) /\ Cardinality(excluded[r]) \in Nat
        /\ Cardinality(snapshot[r]) \in Nat
    BY Subsets DEF TypeOK
  <2> QED
    BY <2>1, <2>2, <2>3, FS_Subset
<1>2. TypeOK /\ LoopInv /\ [Next]_vars => [A]_vars
  BY <1>1
<1> QED
  BY <1>2, Induction, PTL DEF Spec, OutOfAccountsOnlyByEdits

-----------------------------------------------------------------------------
(* Gateway implements RequestContract. *)

Open == [r \in Requests |-> pc[r] \notin {"idle", "done"}]

LEMMA OpenStep ==
    ASSUME TypeOK, NEW r \in Requests, NEW l, Goto(r, l)
    PROVE  Open' = [Open EXCEPT ![r] = l \notin {"idle", "done"}]
BY DEF TypeOK, Goto, Open

LEMMA SameCardinality == \A S : Contract!Cardinality(S) = Cardinality(S)
BY Zenon DEF Contract!Cardinality, Cardinality

LEMMA ContractInit == Init => Contract!Init
BY DEF Init, Contract!Init

LEMMA ContractStep ==
    ASSUME TypeOK, LoopInv, [Next]_vars
    PROVE  [Contract!Next]_(Contract!vars)
<1> DEFINE Same == Open' = Open /\ UNCHANGED <<sent, emitted>>
<1>0. \A r \in Requests : Loop(r)
  BY DEF LoopInv
<1>C. \A r \in Requests : NoAccount \notin excluded[r]
  BY Facts DEF TypeOK
<1>1. ASSUME Same PROVE [Contract!Next]_(Contract!vars)
  BY <1>1 DEF Contract!vars, Open
<1>2. ASSUME NEW r \in Requests, Waits(r), Goto(r, "done"), UNCHANGED <<sent, emitted>>
      PROVE  [Contract!Next]_(Contract!vars)
  <2>1. Open' = [Open EXCEPT ![r] = FALSE] /\ Open[r]
    BY <1>2, OpenStep DEF Open, Waits
  <2>2. Contract!Finish(r)
    BY <1>2, <2>1 DEF Contract!Finish, Open
  <2> QED
    BY <2>2 DEF Contract!Next
<1>3. ASSUME NEW r \in Requests, Waits(r), NEW l, l \notin {"idle", "done"}, Goto(r, l),
             UNCHANGED <<sent, emitted>>
      PROVE  [Contract!Next]_(Contract!vars)
  <2>1. Open' = Open
    BY <1>3, OpenStep DEF Open, Waits
  <2> QED
    BY <1>1, <1>3, <2>1
<1>4. ASSUME NEW r \in Requests, NEW i \in AccountIDs \cup {NoAccount}, Waits(r), ~ emitted[r],
             NoAccount \notin sent[r], i \notin sent[r],
             i # NoAccount => Cardinality(sent[r]) < maxAccountAttempts,
             NEW l, l \notin {"idle", "done"}, Goto(r, l),
             sent' = [sent EXCEPT ![r] = @ \cup {i}], UNCHANGED emitted
      PROVE  [Contract!Next]_(Contract!vars)
  <2>1. Open' = Open /\ Open[r]
    BY <1>4, OpenStep DEF Open, Waits
  <2>2. Contract!Try(r, i)
    <3>1. Open[r] /\ UNCHANGED <<Open, emitted>>
      BY <1>4, <2>1
    <3>2. i # NoAccount => Cardinality(sent[r]) < maxAccountAttempts
      BY <1>4
    <3>3. sent' = [sent EXCEPT ![r] = sent[r] \cup {i}]
      BY <1>4
    <3> QED
      BY <1>4, <3>1, <3>2, <3>3, SameCardinality DEF Contract!Try, Open
  <2> QED
    BY <2>2 DEF Contract!Next
<1>5. ASSUME NEW r \in Requests, Begin(r) PROVE [Contract!Next]_(Contract!vars)
  <2>0. Goto(r, "count") /\ pc[r] = "idle"
    BY <1>5 DEF Begin
  <2>1. Open' = [Open EXCEPT ![r] = TRUE] /\ ~ Open[r]
    <3>1. Open' = [Open EXCEPT ![r] = "count" \notin {"idle", "done"}]
      BY <2>0, OpenStep
    <3>2. ~ Open[r]
      BY <2>0 DEF Open
    <3> QED
      BY <3>1, <3>2
  <2>2. Contract!Start(r)
    BY <1>0, <1>5, <2>1 DEF Begin, Loop, Contract!Start, Open
  <2> QED
    BY <2>2 DEF Contract!Next
<1>6. ASSUME NEW r \in Requests, Emit(r) PROVE [Contract!Next]_(Contract!vars)
  <2>1. Open' = Open /\ Open[r] /\ sent[r] # {}
    BY <1>0, <1>6 DEF Emit, Open, Loop
  <2>2. Contract!Deliver(r)
    BY <1>6, <2>1 DEF Emit, Contract!Deliver, Open
  <2> QED
    BY <2>2 DEF Contract!Next
<1>7. ASSUME NEW r \in Requests, Leave(r) PROVE [Contract!Next]_(Contract!vars)
  <2>1. Open' = [Open EXCEPT ![r] = FALSE] /\ ~ Open[r]
    BY <1>7, OpenStep DEF Leave, Open
  <2>2. Open' = Open
    BY <2>1 DEF Open
  <2>3. Contract!Forget(r)
    BY <1>7, <2>1, <2>2 DEF Leave, Contract!Forget, Open
  <2> QED
    BY <2>3 DEF Contract!Next
<1>8. ASSUME NEW r \in Requests, Abort(r) PROVE [Contract!Next]_(Contract!vars)
  BY <1>2, <1>8 DEF Abort, Waits
<1>9. ASSUME NEW r \in Requests, Count(r) PROVE [Contract!Next]_(Contract!vars)
  <2>1. (Goto(r, "done") \/ Goto(r, "pick")) /\ Waits(r) /\ UNCHANGED <<sent, emitted>>
    BY <1>9 DEF Count, Waits
  <2> QED
    BY <1>2, <1>3, <2>1
<1>10. ASSUME NEW r \in Requests, NEW a \in AccountIDs, Pick(r, a)
       PROVE  [Contract!Next]_(Contract!vars)
  <2>1. Goto(r, "egress") /\ Waits(r) /\ UNCHANGED <<sent, emitted>>
    BY <1>10 DEF Pick, Waits
  <2> QED
    BY <1>3, <2>1
<1>11. ASSUME NEW r \in Requests, PickNothing(r) PROVE [Contract!Next]_(Contract!vars)
  <2>1. (Goto(r, "done") \/ Goto(r, "egress")) /\ Waits(r) /\ UNCHANGED <<sent, emitted>>
    BY <1>11 DEF PickNothing, Waits
  <2> QED
    BY <1>2, <1>3, <2>1
<1>12. ASSUME NEW r \in Requests, Send(r) PROVE [Contract!Next]_(Contract!vars)
  <2>1. /\ Goto(r, "sending") /\ Waits(r) /\ sent' = [sent EXCEPT ![r] = @ \cup {acct[r]}]
        /\ UNCHANGED emitted
    BY <1>12 DEF Send, Waits
  <2>2. /\ ~ emitted[r] /\ NoAccount \notin sent[r] /\ acct[r] \notin sent[r]
        /\ acct[r] # NoAccount => Cardinality(sent[r]) < maxAccountAttempts
    BY <1>0, <1>12 DEF Send, Loop
  <2>3. acct[r] \in AccountIDs \cup {NoAccount}
    BY DEF TypeOK
  <2> QED
    BY <1>4, <2>1, <2>2, <2>3
<1>13. ASSUME NEW r \in Requests, Return(r) PROVE [Contract!Next]_(Contract!vars)
  <2>1. (Goto(r, "done") \/ Goto(r, "report")) /\ Waits(r) /\ UNCHANGED <<sent, emitted>>
    BY <1>13 DEF Return, AfterAnswer, Waits
  <2> QED
    BY <1>2, <1>3, <2>1
<1>14. ASSUME NEW r \in Requests, ReportSuccess(r) PROVE [Contract!Next]_(Contract!vars)
  <2>1. (Goto(r, "done") \/ Goto(r, "cookie")) /\ Waits(r) /\ UNCHANGED <<sent, emitted>>
    BY <1>14 DEF ReportSuccess, Waits
  <2> QED
    BY <1>2, <1>3, <2>1
<1>15. ASSUME NEW r \in Requests, ReportFailure(r) PROVE [Contract!Next]_(Contract!vars)
  <2>0. Waits(r) /\ UNCHANGED emitted /\ pc[r] = "report" /\ ~ answer[r].ok
    BY <1>15 DEF ReportFailure, Waits
  <2>1. CASE (Goto(r, "pick") \/ Goto(r, "done")) /\ UNCHANGED sent
    BY <1>2, <1>3, <2>0, <2>1
  <2>2. CASE Goto(r, "anonymous") /\ sent' = [sent EXCEPT ![r] = @ \cup {NoAccount}]
    <3>1. ~ emitted[r] /\ NoAccount \notin sent[r]
      BY <1>0, <1>C, <2>0 DEF Loop
    <3> QED
      BY <1>4, <2>0, <2>2, <3>1
  <2> QED
    BY <1>15, <2>1, <2>2 DEF ReportFailure, NextAttempt
<1>16. ASSUME NEW r \in Requests, StoreCookie(r) PROVE [Contract!Next]_(Contract!vars)
  BY <1>2, <1>16 DEF StoreCookie, Waits
<1>17. ASSUME UNCHANGED <<pc, sent, emitted>> PROVE [Contract!Next]_(Contract!vars)
  BY <1>1, <1>17 DEF Open
<1>18. ASSUME NEW a \in AccountIDs,
              \/ BeginProbe(a) \/ AdminDelete(a)
              \/ \E e \in BOOLEAN : AdminCreate(a, e) \/ \E b \in BOOLEAN : BeginEdit(a, e, b)
       PROVE  [Contract!Next]_(Contract!vars)
  BY <1>17, <1>18 DEF BeginProbe, AdminDelete, AdminCreate, BeginEdit
<1>19. ASSUME NEW ok \in BOOLEAN, EndProbe(ok) PROVE [Contract!Next]_(Contract!vars)
  BY <1>17, <1>19 DEF EndProbe
<1>20. CASE EndEdit
  BY <1>17, <1>20 DEF EndEdit
<1>21. CASE UNCHANGED vars
  BY <1>17, <1>21 DEF vars
<1> QED
  BY <1>5, <1>6, <1>7, <1>8, <1>9, <1>10, <1>11, <1>12, <1>13, <1>14, <1>15, <1>16, <1>18,
     <1>19, <1>20, <1>21 DEF Next, Serve

\* KeepsContract: for any numbers of requests, accounts and attempts, each
\* prompt goes out as RequestContract allows (service.go:97).
THEOREM ImplementsContract == Spec => KeepsContract
<1>1. Init => Contract!Init
  BY ContractInit
<1>2. TypeOK /\ LoopInv /\ [Next]_vars => [Contract!Next]_(Contract!vars)
  BY ContractStep
<1> QED
  BY <1>1, <1>2, Induction, PTL DEF Spec, KeepsContract, Contract!Spec
=============================================================================
