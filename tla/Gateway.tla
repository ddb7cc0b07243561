------------------------------- MODULE Gateway ------------------------------
(***************************************************************************)
(* Service.Generate and Service.Probe of internal/gateway/service.go over  *)
(* the accounts table: a request counts the accounts, sends the prompt     *)
(* under one after another until one answers, reports each and stores a    *)
(* rotated cookie; an administrator edits the accounts meanwhile.  Every   *)
(* store statement and every upstream call is a step.  The choice of the   *)
(* proxy is EgressPool's, the order of the accounts AccountRotation's.     *)
(***************************************************************************)
EXTENDS AccountStore, FiniteSets

CONSTANTS Requests,            \* concurrent requests
          maxAccountAttempts,  \* 3
          MaxTime,             \* bound: the seconds a pick may be stamped with
          MaxLogin,            \* bound: cookies the administrator may enter
          MaxTurn,             \* bound: rotations of one cookie
          MaxFailures          \* bound: failures an account may accumulate

ASSUME GatewayAssumption ==
    /\ maxAccountAttempts \in Nat \ {0}
    /\ MaxTime \in Nat /\ MaxLogin \in Nat /\ MaxTurn \in Nat /\ MaxFailures \in Nat

VARIABLES accounts,  \* the accounts table
          cookie,    \* its cookie_cipher column
          pc,        \* where each request stands
          setting,   \* what it read: FallbackAnonymous and model.RequiresAuth
          snapshot,  \* the accounts enabledAccounts counted
          attempt,
          excluded,
          acct,      \* execution.Account.ID
          held,      \* execution.Account.Cookie
          answer,    \* what client.Generate returned
          emitted,   \* the caller was sent part of an answer
          probe,     \* the account under test
          edit,      \* the account form in flight
          logins,    \* history: cookies the administrator has entered so far
          granted,   \* history: the cookies entered for each row
          sent       \* history: identities the request's prompt was sent under

store == <<accounts, cookie>>
locals == <<setting, snapshot, attempt, excluded, acct, held, answer>>
others == <<probe, edit, logins, granted>>
vars == <<store, pc, locals, emitted, others, sent>>

\* A cookie: the login the administrator pasted, and how often the upstream
\* has renewed it since.
Cookie == [login : 0..MaxLogin, turn : 0..MaxTurn]
NoCookie == [login |-> 0, turn |-> 0]
Login(n) == [login |-> n, turn |-> 0]

Answer == [ok : BOOLEAN, rotated : BOOLEAN]
NoAnswer == [ok |-> FALSE, rotated |-> FALSE]

NoSetting == [fallback |-> FALSE, auth |-> FALSE]

NoEdit == [acct |-> NoAccount, read |-> NoCookie, new |-> NoCookie, enabled |-> FALSE]

Init ==
    /\ \E n \in 0..MaxAccountID :
          /\ n <= MaxLogin /\ logins = n
          /\ accounts = [a \in AccountIDs |->
                           IF a <= n THEN NewAccount(TRUE) ELSE AbsentAccount("unborn")]
    /\ cookie = [a \in AccountIDs |-> IF a <= logins THEN Login(a) ELSE NoCookie]
    /\ pc = [r \in Requests |-> "idle"]
    /\ setting = [r \in Requests |-> NoSetting]
    /\ snapshot = [r \in Requests |-> {}]
    /\ attempt = [r \in Requests |-> 0]
    /\ excluded = [r \in Requests |-> {}]
    /\ acct = [r \in Requests |-> NoAccount]
    /\ held = [r \in Requests |-> NoCookie]
    /\ answer = [r \in Requests |-> NoAnswer]
    /\ emitted = [r \in Requests |-> FALSE]
    /\ probe = NoAccount
    /\ edit = NoEdit
    /\ granted = [a \in AccountIDs |-> IF a <= logins THEN {a} ELSE {}]
    /\ sent = [r \in Requests |-> {}]

Goto(r, label) == pc' = [pc EXCEPT ![r] = label]

\* A request arrives: settings and the prompt limit.
Begin(r) ==
    /\ pc[r] = "idle"
    /\ \E fallback, auth \in BOOLEAN :
          setting' = [setting EXCEPT ![r] = [fallback |-> fallback, auth |-> auth]]
    /\ Goto(r, "count")
    /\ UNCHANGED <<store, snapshot, attempt, excluded, acct, held, answer, emitted, others, sent>>

\* Generate has returned, and its locals are gone.
Leave(r) ==
    /\ pc[r] = "done"
    /\ Goto(r, "idle")
    /\ setting' = [setting EXCEPT ![r] = NoSetting]
    /\ snapshot' = [snapshot EXCEPT ![r] = {}]
    /\ attempt' = [attempt EXCEPT ![r] = 0]
    /\ excluded' = [excluded EXCEPT ![r] = {}]
    /\ acct' = [acct EXCEPT ![r] = NoAccount]
    /\ held' = [held EXCEPT ![r] = NoCookie]
    /\ answer' = [answer EXCEPT ![r] = NoAnswer]
    /\ emitted' = [emitted EXCEPT ![r] = FALSE]
    /\ sent' = [sent EXCEPT ![r] = {}]
    /\ UNCHANGED <<store, others>>

\* A store error, a cancelled context, an oversized prompt, or no egress: the
\* request fails on the spot.
Abort(r) ==
    /\ pc[r] \in {"count", "pick", "egress"}
    /\ Goto(r, "done")
    /\ UNCHANGED <<store, locals, emitted, others, sent>>

\* AccountCounts, and ResolveModel on its result.
Count(r) ==
    /\ pc[r] = "count"
    /\ snapshot' = [snapshot EXCEPT ![r] = EnabledAccounts(accounts)]
    /\ Goto(r, IF setting[r].auth /\ EnabledAccounts(accounts) = {} THEN "done" ELSE "pick")
    /\ UNCHANGED <<store, setting, attempt, excluded, acct, held, answer, emitted, others, sent>>

\* The second a pick may be stamped with: the clock does not run backwards.
Seconds == {t \in 0..MaxTime : \A a \in AccountIDs : accounts[a].last_used_at <= t}

Pick(r, a) ==
    /\ pc[r] = "pick"
    /\ IsPickedAccount(accounts, excluded[r], a)
    /\ \E t \in Seconds : accounts' = PickAccount(accounts, a, t)
    /\ excluded' = [excluded EXCEPT ![r] = @ \cup {a}]
    /\ acct' = [acct EXCEPT ![r] = a]
    /\ held' = [held EXCEPT ![r] = cookie[a]]
    /\ Goto(r, "egress")
    /\ UNCHANGED <<cookie, setting, snapshot, attempt, answer, emitted, others, sent>>

PickNothing(r) ==
    /\ pc[r] = "pick"
    /\ EnabledAccounts(accounts) \subseteq excluded[r]
    /\ acct' = [acct EXCEPT ![r] = NoAccount]
    /\ Goto(r, IF setting[r].auth THEN "done" ELSE "egress")
    /\ UNCHANGED <<store, setting, snapshot, attempt, excluded, held, answer, emitted, others, sent>>

\* pickProxy has found an egress (EgressPool): the prompt goes out.
Send(r) ==
    /\ pc[r] = "egress"
    /\ Goto(r, "sending")
    /\ sent' = [sent EXCEPT ![r] = @ \cup {acct[r]}]
    /\ UNCHANGED <<store, locals, emitted, others>>

\* OnContent or OnReasoning.
Emit(r) ==
    /\ pc[r] \in {"sending", "anonymous"}
    /\ emitted' = [emitted EXCEPT ![r] = TRUE]
    /\ UNCHANGED <<store, pc, locals, others, sent>>

\* A slip: part of an answer does not keep the next account from being tried.
AfterAnswerForgetsEmitted(r, ok, credential) ==
    IF acct[r] # NoAccount /\ (ok \/ credential) THEN "report" ELSE "done"

\* Where an answer to the attempt leads.
AfterAnswer(r, ok, credential) ==
    IF acct[r] # NoAccount /\ (ok \/ (credential /\ ~ emitted[r])) THEN "report" ELSE "done"

\* client.Generate returns.  The proxy's report is EgressPool's.
Return(r) ==
    \/ /\ pc[r] = "sending"
       /\ \E ok, credential, rotated \in BOOLEAN :
             /\ ok => ~ credential
             /\ rotated => ok /\ acct[r] # NoAccount
             /\ answer' = [answer EXCEPT ![r] = [ok |-> ok, rotated |-> rotated]]
             /\ Goto(r, AfterAnswer(r, ok, credential))
       /\ UNCHANGED <<store, setting, snapshot, attempt, excluded, acct, held, emitted, others, sent>>
    \/ /\ pc[r] = "anonymous"
       /\ Goto(r, "done")
       /\ UNCHANGED <<store, locals, emitted, others, sent>>

\* ReportAccount: its own failure is ignored, and then nothing was stored.
Reports(a, ok) ==
    \/ accounts' = accounts
    \/ /\ LiveAccount(accounts, a) => accounts[a].failure_count < MaxFailures \/ ok
       /\ accounts' = ReportAccount(accounts, a, ok)

ReportSuccess(r) ==
    /\ pc[r] = "report" /\ answer[r].ok
    /\ Reports(acct[r], TRUE)
    /\ Goto(r, IF answer[r].rotated THEN "cookie" ELSE "done")
    /\ UNCHANGED <<cookie, locals, emitted, others, sent>>

\* A slip: only the number of attempts ends the loop.
ExhaustedByAttemptsOnly(r) == attempt[r] + 1 >= maxAccountAttempts

\* The loop ends: every account the request counted was tried, or enough.
Exhausted(r) ==
    \/ Cardinality(excluded[r]) >= Cardinality(snapshot[r])
    \/ attempt[r] + 1 >= maxAccountAttempts

\* A slip: the account that failed is tried again, and not counted.
NextAttemptUncounted(r) ==
    /\ Goto(r, "pick")
    /\ excluded' = [excluded EXCEPT ![r] = @ \ {acct[r]}]
    /\ UNCHANGED attempt

NextAttempt(r) ==
    /\ Goto(r, "pick")
    /\ attempt' = [attempt EXCEPT ![r] = @ + 1]
    /\ UNCHANGED excluded

ReportFailure(r) ==
    /\ pc[r] = "report" /\ ~ answer[r].ok
    /\ Reports(acct[r], FALSE)
    /\ \/ ~ Exhausted(r) /\ NextAttempt(r) /\ UNCHANGED <<acct, sent>>
       \/ /\ Exhausted(r) /\ setting[r].fallback /\ ~ setting[r].auth
          /\ acct' = [acct EXCEPT ![r] = NoAccount]
          /\ sent' = [sent EXCEPT ![r] = @ \cup {NoAccount}]
          /\ Goto(r, "anonymous")
          /\ UNCHANGED <<attempt, excluded>>
       \/ /\ Exhausted(r) /\ ~ (setting[r].fallback /\ ~ setting[r].auth)
          /\ Goto(r, "done")
          /\ UNCHANGED <<attempt, excluded, acct, sent>>
    /\ UNCHANGED <<cookie, setting, snapshot, held, answer, emitted, others>>

\* UpdateAccountCookie with what MergeSetCookies makes of the cookie held.
StoreCookie(r) ==
    /\ pc[r] = "cookie"
    /\ \/ UNCHANGED cookie
       \/ /\ LiveAccount(accounts, acct[r]) /\ held[r].turn < MaxTurn
          /\ cookie' = [cookie EXCEPT ![acct[r]] =
                           [login |-> held[r].login, turn |-> held[r].turn + 1]]
    /\ Goto(r, "done")
    /\ UNCHANGED <<accounts, locals, emitted, others, sent>>

\* Probe of one account, enabled or not: every result is reported.
BeginProbe(a) ==
    /\ probe = NoAccount /\ LiveAccount(accounts, a)
    /\ probe' = a
    /\ UNCHANGED <<store, pc, locals, emitted, edit, logins, granted, sent>>

EndProbe(ok) ==
    /\ probe # NoAccount
    /\ Reports(probe, ok)
    /\ probe' = NoAccount
    /\ UNCHANGED <<cookie, pc, locals, emitted, edit, logins, granted, sent>>

AdminCreate(a, enabled) ==
    /\ logins < MaxLogin /\ IsNextAccountID(accounts, a)
    /\ accounts' = CreateAccount(accounts, a, enabled)
    /\ logins' = logins + 1
    /\ cookie' = [cookie EXCEPT ![a] = Login(logins + 1)]
    /\ granted' = [granted EXCEPT ![a] = {logins + 1}]
    /\ UNCHANGED <<pc, locals, emitted, probe, edit, sent>>

\* UpdateAccount reads the row; the form left the cookie blank, or has a new one.
BeginEdit(a, enabled, blank) ==
    /\ edit = NoEdit /\ LiveAccount(accounts, a)
    /\ blank \/ logins < MaxLogin
    /\ logins' = IF blank THEN logins ELSE logins + 1
    /\ edit' = [acct |-> a, read |-> cookie[a], enabled |-> enabled,
                new |-> IF blank THEN cookie[a] ELSE Login(logins + 1)]
    /\ UNCHANGED <<store, pc, locals, emitted, probe, granted, sent>>

\* ... and writes it: the UPDATE may find no row, or fail.
EndEdit ==
    /\ edit # NoEdit
    /\ edit' = NoEdit
    /\ \/ UNCHANGED <<accounts, cookie, granted>>
       \/ /\ LiveAccount(accounts, edit.acct)
          /\ accounts' = UpdateAccount(accounts, edit.acct, edit.enabled, edit.new # edit.read)
          /\ cookie' = [cookie EXCEPT ![edit.acct] = edit.new]
          /\ granted' = [granted EXCEPT ![edit.acct] = @ \cup {edit.new.login}]
    /\ UNCHANGED <<pc, locals, emitted, probe, logins, sent>>

AdminDelete(a) ==
    /\ LiveAccount(accounts, a)
    /\ accounts' = DeleteAccount(accounts, a)
    /\ cookie' = [cookie EXCEPT ![a] = NoCookie]
    /\ granted' = [granted EXCEPT ![a] = {}]
    /\ UNCHANGED <<pc, locals, emitted, probe, edit, logins, sent>>

Serve(r) ==
    \/ Abort(r) \/ Count(r) \/ Send(r) \/ Return(r)
    \/ \E a \in AccountIDs : Pick(r, a)
    \/ PickNothing(r)
    \/ ReportSuccess(r) \/ ReportFailure(r) \/ StoreCookie(r)

Next ==
    \/ \E r \in Requests : Begin(r) \/ Serve(r) \/ Emit(r) \/ Leave(r)
    \/ \E a \in AccountIDs :
          \/ BeginProbe(a) \/ AdminDelete(a)
          \/ \E enabled \in BOOLEAN :
                AdminCreate(a, enabled) \/ \E blank \in BOOLEAN : BeginEdit(a, enabled, blank)
    \/ \E ok \in BOOLEAN : EndProbe(ok)
    \/ EndEdit

Spec == Init /\ [][Next]_vars

\* Go's scheduler runs a ready goroutine, and every upstream call ends: each
\* has a timeout (RequestTimeoutSec, and 30 s for the page).
FairSpec == Spec /\ \A r \in Requests : WF_vars(Serve(r))

-----------------------------------------------------------------------------
(* Properties *)

TypeOK ==
    /\ accounts \in [AccountIDs -> AccountRow]
    /\ cookie \in [AccountIDs -> Cookie]
    /\ pc \in [Requests -> {"idle", "done", "count", "pick", "egress", "sending", "report",
                            "cookie", "anonymous"}]
    /\ setting \in [Requests -> [fallback : BOOLEAN, auth : BOOLEAN]]
    /\ snapshot \in [Requests -> SUBSET AccountIDs]
    /\ attempt \in [Requests -> Nat]
    /\ excluded \in [Requests -> SUBSET AccountIDs]
    /\ acct \in [Requests -> AccountIDs \cup {NoAccount}]
    /\ held \in [Requests -> Cookie]
    /\ answer \in [Requests -> Answer]
    /\ emitted \in [Requests -> BOOLEAN]
    /\ probe \in AccountIDs \cup {NoAccount}
    /\ edit \in [acct : AccountIDs \cup {NoAccount}, read : Cookie, new : Cookie,
                 enabled : BOOLEAN]
    /\ logins \in 0..MaxLogin
    /\ granted \in [AccountIDs -> SUBSET (0..MaxLogin)]
    /\ sent \in [Requests -> SUBSET (AccountIDs \cup {NoAccount})]

\* The status shown for an account and its failure count tell the same story,
\* however late the reports of requests and probes arrive (accounts.go:195).
HealthMatchesFailures ==
    \A a \in AccountIDs :
        (accounts[a].failure_count > 0) <=> (accounts[a].status = "unhealthy")

\* The cookie of a row was entered for that row: a late rotation or edit never
\* puts one account's cookie into another's row (accounts.go:186).
CookieStaysWithAccount ==
    \A a \in AccountIDs :
        LiveAccount(accounts, a) => cookie[a].login \in granted[a]

\* With accounts enabled when it counted, a request that finds none left to
\* pick has lost one of those to the administrator: the attempts alone never
\* run it out of accounts and into an anonymous call (service.go:100, 169).
OutOfAccountsOnlyByEdits ==
    [][\A r \in Requests :
          PickNothing(r) /\ snapshot[r] # {}
            => ~ (snapshot[r] \subseteq EnabledAccounts(accounts))]_vars

\* What the caller is promised: RequestContract.
Contract == INSTANCE RequestContract WITH
    Accounts <- AccountIDs, Anonymous <- NoAccount, MaxAccounts <- maxAccountAttempts,
    open <- [r \in Requests |-> pc[r] \notin {"idle", "done"}], tried <- sent, delivered <- emitted
KeepsContract == Contract!Spec

\* A request that was accepted is answered, with a result or an error.
EveryRequestEnds == \A r \in Requests : (pc[r] = "count") ~> (pc[r] = "done")

\* README: without the fallback setting, a request does not lose its identity.
NeverSilentlyAnonymous ==
    \A r \in Requests :
        NoAccount \in sent[r] => setting[r].fallback \/ snapshot[r] = {}
=============================================================================
