----------------------- MODULE AccountRotationProofs ------------------------
(***************************************************************************)
(* For any number of accounts and requests, an account overtakes one that  *)
(* has waited longer only when their last uses fall in the same second.    *)
(***************************************************************************)
EXTENDS AccountRotation, TLAPS

Table == [AccountIDs -> AccountRow]

\* No clock reading of the table is ahead of the clock, a row that was never
\* stored was never used, and the accounts that wait are enabled and older.
IInv ==
    /\ TypeOK
    /\ WaitersAreOlder
    /\ \A a \in AccountIDs :
          /\ accounts[a].last_used_at <= now
          /\ accounts[a].life = "unborn" => accounts[a].last_used_at = 0
          /\ a \notin waiting[a]
          /\ \A b \in waiting[a] : accounts[b].life = "live" /\ accounts[b].enabled

LEMMA FreshRow ==
    ASSUME NEW life \in {"unborn", "live", "deleted"}, NEW e \in BOOLEAN
    PROVE  AccountWith(life, e) \in AccountRow /\ AccountWith(life, e).last_used_at = 0
BY DEF AccountWith, AccountRow

LEMMA InitInv == Init => IInv
<1> SUFFICES ASSUME Init PROVE IInv
  OBVIOUS
<1>1. PICK n \in 0..MaxAccountID :
         accounts = [a \in AccountIDs |->
                        IF a <= n THEN NewAccount(TRUE) ELSE AbsentAccount("unborn")]
  BY DEF Init
<1>2. \A a \in AccountIDs : accounts[a] \in AccountRow /\ accounts[a].last_used_at = 0
  BY <1>1, FreshRow DEF NewAccount, AbsentAccount
<1>3. accounts \in Table
  BY <1>1, <1>2 DEF Table
<1> QED
  <2>1. TypeOK
    BY <1>3 DEF Init, TypeOK, Table
  <2>2. \A a \in AccountIDs : waiting[a] = {}
    BY DEF Init
  <2>3. now = 1
    BY DEF Init
  <2> QED
    BY <1>2, <2>1, <2>2, <2>3 DEF IInv, WaitersAreOlder

\* What a pick does to the rows and to the histories.
LEMMA PickInv ==
    ASSUME IInv, NEW c \in Requests, NEW a \in AccountIDs, Pick(c, a)
    PROVE  IInv'
<1>1. /\ now' = now /\ now \in Nat /\ accounts \in Table
      /\ a \in EnabledAccounts(accounts)
      /\ accounts' = [accounts EXCEPT ![a].last_used_at = now]
  BY DEF Pick, PickAccount, IsPickedAccount, IInv, TypeOK, Table
<1>2. ASSUME NEW r \in AccountRow
      PROVE  LET q == [r EXCEPT !.last_used_at = now] IN
             q \in AccountRow /\ q.last_used_at = now
               /\ q.life = r.life /\ q.enabled = r.enabled
  BY <1>1 DEF AccountRow
<1>3. accounts' \in Table
  BY <1>1, <1>2 DEF Table
<1>4. \A b \in AccountIDs :
         /\ b # a => accounts'[b] = accounts[b]
         /\ b = a => accounts'[b].last_used_at = now
         /\ accounts'[b].life = accounts[b].life
         /\ accounts'[b].enabled = accounts[b].enabled
  BY <1>1, <1>2 DEF Table
<1>5. accounts[a].life = "live"
  BY <1>1 DEF EnabledAccounts
<1>6. TypeOK'
  <2>1. EnabledAccounts(accounts) \subseteq AccountIDs
    BY <1>1 DEF EnabledAccounts, Table
  <2>2. excluded' \in [Requests -> SUBSET AccountIDs]
    BY DEF Pick, IInv, TypeOK
  <2>3. waiting' \in [AccountIDs -> SUBSET AccountIDs]
    BY <2>1 DEF Pick, IInv, TypeOK
  <2> QED
    BY <1>1, <1>3, <2>2, <2>3 DEF TypeOK, Table
<1>7. ASSUME NEW x \in AccountIDs, NEW y \in AccountIDs, y \in waiting'[x]
      PROVE  accounts'[y].last_used_at <= accounts'[x].last_used_at
  <2>1. y # a
    BY <1>7 DEF Pick
  <2>2. CASE x = a
    BY <1>1, <1>4, <2>1, <2>2 DEF IInv
  <2>3. CASE x # a
    <3>1. y \in waiting[x]
      BY <1>7, <2>3 DEF Pick
    <3> QED
      BY <1>4, <2>1, <2>3, <3>1 DEF IInv, WaitersAreOlder
  <2> QED
    BY <2>2, <2>3
<1>8. \A b \in AccountIDs :
         /\ accounts'[b].last_used_at <= now'
         /\ accounts'[b].life = "unborn" => accounts'[b].last_used_at = 0
  BY <1>1, <1>4, <1>5 DEF IInv
<1>9. ASSUME NEW x \in AccountIDs, NEW y \in waiting'[x]
      PROVE  y # x /\ accounts'[y].life = "live" /\ accounts'[y].enabled
  <2>1. CASE x = a
    <3>1. y \in EnabledAccounts(accounts) /\ y # a
      BY <1>9, <2>1 DEF Pick
    <3> QED
      BY <1>1, <1>4, <2>1, <3>1 DEF EnabledAccounts, Table
  <2>2. CASE x # a
    <3>1. y \in waiting[x] /\ y \in AccountIDs
      BY <1>6, <1>9, <2>2 DEF Pick, TypeOK
    <3> QED
      BY <1>4, <3>1 DEF IInv
  <2> QED
    BY <2>1, <2>2
<1> QED
  BY <1>6, <1>7, <1>8, <1>9 DEF IInv, WaitersAreOlder

LEMMA CreateInv ==
    ASSUME IInv, NEW e \in BOOLEAN, AdminCreate(e)
    PROVE  IInv'
<1>1. PICK a \in AccountIDs :
         accounts[a].life = "unborn" /\ accounts' = [accounts EXCEPT ![a] = NewAccount(e)]
  BY DEF AdminCreate, IsNextAccountID, CreateAccount
<1>2. /\ NewAccount(e) \in AccountRow /\ NewAccount(e).last_used_at = 0
      /\ now' = now /\ excluded' = excluded /\ waiting' = waiting
  BY FreshRow DEF NewAccount, AdminCreate
<1>3. accounts \in Table /\ now \in Nat
  BY DEF IInv, TypeOK, Table
<1>4. accounts' \in Table
  BY <1>1, <1>2, <1>3 DEF Table
<1>5. \A b \in AccountIDs :
         /\ accounts'[b].last_used_at = accounts[b].last_used_at
         /\ b # a => accounts'[b] = accounts[b]
  BY <1>1, <1>2, <1>3 DEF Table, IInv
<1>6. accounts'[a].life # "unborn"
  BY <1>1, <1>3 DEF Table, NewAccount, AccountWith
<1>7. \A b \in AccountIDs : a \notin waiting[b] /\ waiting[b] \subseteq AccountIDs
  BY <1>1 DEF IInv, TypeOK
<1>8. TypeOK' /\ WaitersAreOlder'
  BY <1>2, <1>3, <1>4, <1>5 DEF IInv, TypeOK, WaitersAreOlder, Table
<1> QED
  BY <1>2, <1>5, <1>6, <1>7, <1>8 DEF IInv

LEMMA UpdateInv ==
    ASSUME IInv, NEW a \in AccountIDs, NEW e \in BOOLEAN, NEW k \in BOOLEAN,
           AdminUpdate(a, e, k)
    PROVE  IInv'
<1> DEFINE row(r) == [r EXCEPT !.enabled = e,
                               !.status = IF k THEN "unknown" ELSE @,
                               !.failure_count = IF k THEN 0 ELSE @]
<1>0. accounts \in Table /\ now \in Nat /\ now' = now /\ excluded' = excluded
  BY DEF IInv, TypeOK, Table, AdminUpdate
<1>1. accounts' = [accounts EXCEPT ![a] = row(accounts[a])]
  BY DEF AdminUpdate, UpdateAccount, UpdateAccountWhere
<1>2. ASSUME NEW r \in AccountRow
      PROVE  /\ row(r) \in AccountRow
             /\ row(r).last_used_at = r.last_used_at /\ row(r).life = r.life
             /\ row(r).enabled = e
  <2>1. CASE k
    BY <2>1 DEF AccountRow
  <2>2. CASE ~k
    BY <2>2 DEF AccountRow
  <2> QED
    BY <2>1, <2>2
<1> HIDE DEF row
<1>3. accounts' \in Table
  BY <1>0, <1>1, <1>2 DEF Table
<1>4. \A b \in AccountIDs : /\ accounts'[b].last_used_at = accounts[b].last_used_at
                            /\ accounts'[b].life = accounts[b].life
                            /\ b # a => accounts'[b].enabled = accounts[b].enabled
                            /\ b = a => accounts'[b].enabled = e
  BY <1>0, <1>1, <1>2 DEF Table
<1>5. /\ waiting' \in [AccountIDs -> SUBSET AccountIDs]
      /\ \A b \in AccountIDs : /\ waiting'[b] \subseteq waiting[b]
                               /\ ~e => a \notin waiting'[b]
  BY DEF AdminUpdate, Leaves, IInv, TypeOK
<1>6. TypeOK' /\ WaitersAreOlder'
  BY <1>0, <1>3, <1>4, <1>5 DEF IInv, TypeOK, WaitersAreOlder, Table
<1>7. ASSUME NEW x \in AccountIDs, NEW y \in waiting'[x]
      PROVE  y # x /\ accounts'[y].life = "live" /\ accounts'[y].enabled
  <2>1. y \in waiting[x] /\ y \in AccountIDs /\ (y = a => e)
    BY <1>5, <1>7
  <2> QED
    BY <1>4, <2>1 DEF IInv
<1> QED
  BY <1>0, <1>4, <1>6, <1>7 DEF IInv

LEMMA DeleteInv ==
    ASSUME IInv, NEW a \in AccountIDs, AdminDelete(a)
    PROVE  IInv'
<1> DEFINE row == AbsentAccount("deleted")
<1>0. accounts \in Table /\ now \in Nat /\ now' = now /\ excluded' = excluded
  BY DEF IInv, TypeOK, Table, AdminDelete
<1>1. row \in AccountRow /\ row.last_used_at = 0
  BY FreshRow DEF AbsentAccount
<1>2. accounts' = [accounts EXCEPT ![a] = row]
  BY DEF AdminDelete, DeleteAccount
<1> HIDE DEF row
<1>3. accounts' \in Table
  BY <1>0, <1>1, <1>2 DEF Table
<1>4. \A b \in AccountIDs : /\ b # a => accounts'[b] = accounts[b]
                            /\ b = a => accounts'[b].last_used_at = 0
  BY <1>0, <1>1, <1>2 DEF Table
<1>5. /\ waiting' \in [AccountIDs -> SUBSET AccountIDs]
      /\ \A b \in AccountIDs : waiting'[b] \subseteq waiting[b] \ {a}
      /\ waiting'[a] = {}
  BY DEF AdminDelete, IInv, TypeOK
<1>6. WaitersAreOlder'
  BY <1>4, <1>5 DEF IInv, WaitersAreOlder
<1>7. TypeOK'
  BY <1>0, <1>3, <1>5 DEF IInv, TypeOK, Table
<1>8. accounts'[a].life = "deleted"
  BY <1>0, <1>2 DEF row, AbsentAccount, AccountWith, Table
<1>9. ASSUME NEW x \in AccountIDs, NEW y \in waiting'[x]
      PROVE  y # x /\ accounts'[y].life = "live" /\ accounts'[y].enabled
  <2>1. y \in waiting[x] /\ y \in AccountIDs /\ y # a
    BY <1>5, <1>9
  <2> QED
    BY <1>4, <2>1 DEF IInv
<1> QED
  BY <1>0, <1>4, <1>6, <1>7, <1>8, <1>9 DEF IInv

LEMMA NextInv == IInv /\ [Next]_vars => IInv'
<1> SUFFICES ASSUME IInv, [Next]_vars PROVE IInv'
  OBVIOUS
<1>1. CASE \E c \in Requests, a \in AccountIDs : Pick(c, a)
  BY <1>1, PickInv
<1>2. CASE \E c \in Requests : NewRequest(c)
  BY <1>2 DEF NewRequest, IInv, TypeOK, WaitersAreOlder
<1>3. CASE \E e \in BOOLEAN : AdminCreate(e)
  BY <1>3, CreateInv
<1>4. CASE \E a \in AccountIDs, e, k \in BOOLEAN : AdminUpdate(a, e, k)
  BY <1>4, UpdateInv
<1>5. CASE \E a \in AccountIDs : AdminDelete(a)
  BY <1>5, DeleteInv
<1>6. CASE Tick
  <2>1. now \in Nat /\ \A a \in AccountIDs : accounts[a].last_used_at \in Nat
    BY DEF IInv, TypeOK, AccountRow
  <2> QED
    BY <1>6, <2>1 DEF Tick, IInv, TypeOK, WaitersAreOlder
<1>7. CASE UNCHANGED vars
  BY <1>7 DEF vars, IInv, TypeOK, WaitersAreOlder
<1> QED
  BY <1>1, <1>2, <1>3, <1>4, <1>5, <1>6, <1>7 DEF Next, PickNothing

\* Rows, clock and histories keep their types.
THEOREM TypeCorrect == Spec => []TypeOK
<1>1. IInv => TypeOK
  BY DEF IInv
<1> QED
  BY <1>1, InitInv, NextInv, PTL DEF Spec

\* Whatever is edited or picked meanwhile, an account waiting behind another
\* was used no later than it.
THEOREM WaitersStayOlder == Spec => []WaitersAreOlder
<1>1. IInv => WaitersAreOlder
  BY DEF IInv
<1> QED
  BY <1>1, InitInv, NextInv, PTL DEF Spec

\* A request passes over an account that waited longer only on a tie of the
\* last uses: the rotation is least recently used up to the second.
THEOREM RotationUpToTheSecond == Spec => OvertakesOnlyOnATie
<1> DEFINE Tied == \A c \in Requests, a, b \in AccountIDs :
                      Pick(c, a) /\ b \in waiting[a] \ excluded[c]
                        => accounts[a].last_used_at = accounts[b].last_used_at
<1>1. ASSUME IInv, NEW c \in Requests, NEW a \in AccountIDs, NEW b \in AccountIDs,
             Pick(c, a), b \in waiting[a] \ excluded[c]
      PROVE  accounts[a].last_used_at = accounts[b].last_used_at
  <2>1. b # a /\ b \in EnabledAccounts(accounts) \ excluded[c]
    BY <1>1 DEF IInv, TypeOK, EnabledAccounts
  <2>2. UsedBefore(accounts, a, b)
    BY <1>1, <2>1 DEF Pick, IsPickedAccount
  <2>3. /\ accounts[a].last_used_at \in Nat /\ accounts[b].last_used_at \in Nat
        /\ accounts[b].last_used_at <= accounts[a].last_used_at
    BY <1>1 DEF IInv, TypeOK, AccountRow, WaitersAreOlder
  <2> QED
    BY <2>2, <2>3 DEF UsedBefore
<1>2. IInv => Tied
  BY <1>1
<1> HIDE DEF Tied
<1>3. IInv /\ [Next]_vars => [Tied]_vars
  BY <1>2
<1>4. Spec => [][Tied]_vars
  BY <1>3, InitInv, NextInv, PTL DEF Spec
<1> QED
  BY <1>4 DEF OvertakesOnlyOnATie, Tied
=============================================================================
