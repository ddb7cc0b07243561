---------------------------- MODULE AdminSessions ----------------------------
(***************************************************************************)
(* Who is signed in to the panel: the sessions table and SessionManager    *)
(* (internal/auth, internal/store), the session and CSRF checks in front   *)
(* of every admin handler (internal/admin), the revocation at start-up and *)
(* the hourly purge (cmd/gateway), and the tabs of one browser, which      *)
(* share a cookie but keep a CSRF token each (web/src).                    *)
(***************************************************************************)
EXTENDS Integers

CONSTANTS Tabs,      \* tabs of the browser
          NoTab,     \* of a request nobody waits for
          Requests,  \* requests under way at once
          TTL,       \* SESSION_TTL
          MaxToken,  \* bound: sessions created
          MaxTime    \* bound: where the clock stops

ASSUME AdminSessionsAssumption ==
    TTL \in Nat \ {0} /\ MaxToken \in Nat /\ MaxTime \in Nat /\ NoTab \notin Tabs

\* A session token; it stands for its digest, and for the CSRF token made with it.
Tokens == 1..MaxToken
NoToken == 0
Cookies == Tokens \cup {NoToken}

NoRow == 0

VARIABLES phase,       \* of the process
          now,         \* the clock
          expires_at,  \* sessions: the column of each token's row, or NoRow
          minted,      \* tokens made so far
          old,         \* history: how many of them before the last start
          pc,          \* where each request stands
          ask,         \* what it asks: its tab, kind, cookie and X-CSRF-Token
          answer,      \* what it is answered
          jar,         \* the browser's gw_admin_session cookie
          csrf,        \* csrfToken of each tab
          view         \* what each tab shows

browser == <<jar, csrf, view>>
vars == <<phase, now, expires_at, minted, old, pc, ask, answer, browser>>

\* An edit stands for everything but signing in and out.
Kinds == {"session", "login", "logout", "edit"}

\* A request that reaches nobody, or whose answer is lost.
Broken == 0
Statuses == {Broken, 200, 204, 401, 403, 500}

NoAsk == [tab |-> NoTab, kind |-> "edit", cookie |-> NoToken, csrf |-> NoToken]
Answer(status, token) == [status |-> status, token |-> token]
NoAnswer == Answer(Broken, NoToken)

Init ==
    /\ phase = "down" /\ now = 0
    /\ expires_at = [k \in Tokens |-> NoRow] /\ minted = 0 /\ old = 0
    /\ pc = [q \in Requests |-> "idle"]
    /\ ask = [q \in Requests |-> NoAsk]
    /\ answer = [q \in Requests |-> NoAnswer]
    /\ jar = NoToken /\ csrf = [t \in Tabs |-> NoToken]
    /\ view = [t \in Tabs |-> "login"]

-----------------------------------------------------------------------------
(* Requests. *)

Goto(q, label) == pc' = [pc EXCEPT ![q] = label]

\* The request is over.
Drop(q) ==
    /\ Goto(q, "idle")
    /\ ask' = [ask EXCEPT ![q] = NoAsk] /\ answer' = [answer EXCEPT ![q] = NoAnswer]

\* Its answer is written, and not followed where nobody waits for it, or where
\* the tab neither goes elsewhere nor takes a token from it.
Respond(q, status, token) ==
    IF \/ ask[q].tab = NoTab
       \/ ask[q].kind = "edit" /\ status # 401
       \/ ask[q].kind = "login" /\ status # 200
    THEN Drop(q)
    ELSE /\ Goto(q, "answered")
         /\ answer' = [answer EXCEPT ![q] = Answer(status, token)]
         /\ UNCHANGED ask

\* The row Store.Session finds.
Live(k) == k \in Tokens /\ expires_at[k] > now

-----------------------------------------------------------------------------
(* The process. *)

\* A slip: only what has expired is dropped at start-up.
DeleteExpiredSessions == expires_at' = [k \in Tokens |-> IF Live(k) THEN expires_at[k] ELSE NoRow]

DeleteAllSessions == expires_at' = [k \in Tokens |-> NoRow]

\* serve(): the sessions of the last run are revoked, then it listens (a start
\* that fails before that has revoked them just the same).
StartUp ==
    /\ phase = "down"
    /\ phase' = "up"
    /\ DeleteAllSessions
    /\ UNCHANGED <<now, minted, old, pc, ask, answer, browser>>

\* A crash, or a shutdown: the connections break.
Stop ==
    /\ phase = "up"
    /\ phase' = "down" /\ old' = minted
    /\ LET cut == {q \in Requests : pc[q] \in {"sent", "inside"}}
           left == {q \in cut : ask[q].tab = NoTab \/ ask[q].kind \in {"login", "edit"}}
       IN  /\ pc' = [q \in Requests |-> IF q \in left THEN "idle"
                                        ELSE IF q \in cut THEN "answered" ELSE pc[q]]
           /\ ask' = [q \in Requests |-> IF q \in left THEN NoAsk ELSE ask[q]]
           /\ answer' = [q \in Requests |-> IF q \in cut THEN NoAnswer ELSE answer[q]]
    /\ UNCHANGED <<now, expires_at, minted, browser>>

\* A slip: a session is purged in the second before it expires.
PurgesTooEarly(k) == expires_at[k] <= now + 1

Purges(k) == expires_at[k] <= now

\* maintenance: PurgeSessions, unless it fails.
Purge ==
    /\ phase = "up"
    /\ expires_at' = [k \in Tokens |-> IF Purges(k) THEN NoRow ELSE expires_at[k]]
    /\ UNCHANGED <<phase, now, minted, old, pc, ask, answer, browser>>

Tick ==
    /\ now < MaxTime
    /\ now' = now + 1
    /\ UNCHANGED <<phase, expires_at, minted, old, pc, ask, answer, browser>>

-----------------------------------------------------------------------------
(* The handlers. *)

Serving(q, label, kinds) == phase = "up" /\ pc[q] = label /\ ask[q].kind \in kinds

\* Login is refused: by the limiter, for its body, for the password.  The panel
\* does with each of them what it does with the last.
RefuseLogin(q) ==
    /\ Serving(q, "sent", {"login"})
    /\ Respond(q, 401, NoToken)
    /\ UNCHANGED <<phase, now, expires_at, minted, old, browser>>

\* The password is right: Create stores a row for a new token.
AcceptLogin(q) ==
    /\ Serving(q, "sent", {"login"})
    /\ minted < MaxToken
    /\ minted' = minted + 1
    /\ expires_at' = [expires_at EXCEPT ![minted + 1] = now + TTL]
    /\ Respond(q, 200, minted + 1)
    /\ UNCHANGED <<phase, now, old, browser>>

\* VerifyCSRF, for what is no GET.
CSRFHolds(q) == ask[q].kind # "session" => ask[q].csrf = ask[q].cookie

\* Protected.
Authenticate(q) ==
    /\ Serving(q, "sent", Kinds \ {"login"})
    /\ IF ~ Live(ask[q].cookie) THEN Respond(q, 401, NoToken)
       ELSE IF ~ CSRFHolds(q) THEN Respond(q, 403, NoToken)
       ELSE Goto(q, "inside") /\ UNCHANGED <<ask, answer>>
    /\ UNCHANGED <<phase, now, expires_at, minted, old, browser>>

\* Session, or an edit (the other modules have what it edits).
Handle(q) ==
    /\ Serving(q, "inside", {"session", "edit"})
    /\ Respond(q, 200, IF ask[q].kind = "session" THEN ask[q].cookie ELSE NoToken)
    /\ UNCHANGED <<phase, now, expires_at, minted, old, browser>>

\* A slip: the cookie is cleared, the row stays.
ForgetSession(k) == UNCHANGED expires_at

\* A slip: the row is expired in place.
ExpireSession(k) == expires_at' = [expires_at EXCEPT ![k] = now - TTL]

DeleteSession(k) == expires_at' = [expires_at EXCEPT ![k] = NoRow]

Logout(q) ==
    /\ Serving(q, "inside", {"logout"})
    /\ DeleteSession(ask[q].cookie)
    /\ Respond(q, 204, NoToken)
    /\ UNCHANGED <<phase, now, minted, old, browser>>

\* A statement fails.
StoreError(q) ==
    /\ Serving(q, "sent", Kinds) \/ Serving(q, "inside", Kinds)
    /\ Respond(q, 500, NoToken)
    /\ UNCHANGED <<phase, now, expires_at, minted, old, browser>>

\* Nobody listens.
Refuse(q) ==
    /\ phase = "down" /\ pc[q] = "sent"
    /\ Respond(q, Broken, NoToken)
    /\ UNCHANGED <<phase, now, expires_at, minted, old, browser>>

-----------------------------------------------------------------------------
(* The browser. *)

WaitingFor(t, kinds) == {q \in Requests : pc[q] # "idle" /\ ask[q].tab = t /\ ask[q].kind \in kinds}

\* The page is gone, or a connection breaks: no answer is waited for, and the
\* server goes on with what it has begun to do.
Abandoned(q) == IF pc[q] = "answered" \/ ask[q].kind \in {"session", "edit"} THEN "idle" ELSE pc[q]

AskLeft(q) == IF Abandoned(q) = "idle" THEN NoAsk ELSE [ask[q] EXCEPT !.tab = NoTab]

\* What a tab asks: a login carries no cookie that counts, a GET no token.
AskOf(t, kind) == [tab |-> t, kind |-> kind,
                   cookie |-> IF kind = "login" THEN NoToken ELSE jar,
                   csrf |-> IF kind \in {"login", "session"} THEN NoToken ELSE csrf[t]]

\* The panel is opened, or reloaded (bound: not while it loads): App asks
\* checkSession.
Load(q, t) ==
    /\ pc[q] = "idle" /\ view[t] # "checking"
    /\ LET P == WaitingFor(t, Kinds) IN
       /\ pc' = [r \in Requests |-> IF r = q THEN "sent" ELSE IF r \in P THEN Abandoned(r) ELSE pc[r]]
       /\ ask' = [r \in Requests |-> IF r = q THEN AskOf(t, "session")
                                     ELSE IF r \in P THEN AskLeft(r) ELSE ask[r]]
       /\ answer' = [r \in Requests |-> IF r \in P THEN NoAnswer ELSE answer[r]]
    /\ view' = [view EXCEPT ![t] = "checking"]
    /\ csrf' = [csrf EXCEPT ![t] = NoToken]
    /\ UNCHANGED <<phase, now, expires_at, minted, old, jar>>

\* The login page is busy with one login; the panel edits, and signs out.
MaySend(t, kind) ==
    \/ kind = "login" /\ view[t] = "login" /\ WaitingFor(t, {"login"}) = {}
    \/ kind \in {"logout", "edit"} /\ view[t] = "panel"

Send(q, t, kind) ==
    /\ pc[q] = "idle" /\ MaySend(t, kind)
    /\ Goto(q, "sent")
    /\ ask' = [ask EXCEPT ![q] = AskOf(t, kind)]
    /\ UNCHANGED <<phase, now, expires_at, minted, old, answer, browser>>

\* A slip: signOut waits for a logout that goes well, with the panel open.
ViewUnlessRefused(q, status) ==
    CASE ask[q].kind \in {"session", "login"} /\ status = 200 -> "panel"
      [] ask[q].kind = "session" /\ status = 401 -> "login"
      [] ask[q].kind = "logout" \/ (ask[q].kind = "edit" /\ status = 401) -> "login"
      [] OTHER -> view[ask[q].tab]

\* What the tab shows after an answer ...
ViewAfter(q, status) ==
    CASE ask[q].kind \in {"session", "login"} /\ status = 200 -> "panel"
      [] ask[q].kind \in {"session", "logout"} \/ (ask[q].kind = "edit" /\ status = 401) -> "login"
      [] OTHER -> view[ask[q].tab]

\* ... its csrfToken ...
TokenAfter(q, status) ==
    CASE ask[q].kind \in {"session", "login"} /\ status = 200 -> answer[q].token
      [] ask[q].kind = "logout" \/ (ask[q].kind = "edit" /\ status = 401) -> NoToken
      [] OTHER -> csrf[ask[q].tab]

\* ... and the cookie, which a login and a logout set.
CookieAfter(q, status) ==
    CASE ask[q].kind = "login" /\ status = 200 -> answer[q].token
      [] ask[q].kind = "logout" /\ status = 204 -> NoToken
      [] OTHER -> jar

Show(q, status) ==
    /\ jar' = CookieAfter(q, status)
    /\ csrf' = [csrf EXCEPT ![ask[q].tab] = TokenAfter(q, status)]
    /\ view' = [view EXCEPT ![ask[q].tab] = ViewAfter(q, status)]

Deliver(q) ==
    /\ pc[q] = "answered"
    /\ Show(q, answer[q].status)
    /\ Drop(q)
    /\ UNCHANGED <<phase, now, expires_at, minted, old>>

\* The connection breaks.
Lose(q) ==
    /\ pc[q] # "idle" /\ ask[q].tab # NoTab
    /\ Show(q, Broken)
    /\ Goto(q, Abandoned(q))
    /\ ask' = [ask EXCEPT ![q] = AskLeft(q)] /\ answer' = [answer EXCEPT ![q] = NoAnswer]
    /\ UNCHANGED <<phase, now, expires_at, minted, old>>

Step(q) ==
    \/ RefuseLogin(q) \/ AcceptLogin(q) \/ Authenticate(q) \/ Handle(q) \/ Logout(q)
    \/ StoreError(q) \/ Refuse(q) \/ Deliver(q)

Next ==
    \/ StartUp \/ Stop \/ Purge \/ Tick
    \/ \E q \in Requests :
          \/ Step(q) \/ Lose(q)
          \/ \E t \in Tabs : Load(q, t) \/ \E kind \in Kinds : Send(q, t, kind)

Spec == Init /\ [][Next]_vars

\* Goroutines run, statements and connections end.
FairSpec == Spec /\ \A q \in Requests : WF_vars(Step(q))

-----------------------------------------------------------------------------
(* Properties *)

TypeOK ==
    /\ phase \in {"down", "up"} /\ now \in Nat
    /\ expires_at \in [Tokens -> Nat] /\ minted \in 0..MaxToken /\ old \in 0..minted
    /\ pc \in [Requests -> {"idle", "sent", "inside", "answered"}]
    /\ ask \in [Requests -> [tab : Tabs \cup {NoTab}, kind : Kinds, cookie : Cookies, csrf : Cookies]]
    /\ answer \in [Requests -> [status : Statuses, token : Cookies]]
    /\ jar \in Cookies /\ csrf \in [Tabs -> Cookies]
    /\ view \in [Tabs -> {"checking", "login", "panel"}]

\* No request is let in on a session of an earlier run, whatever the moment
\* the process stopped at, so that a password changed with the restart leaves
\* nobody signed in (main.go:83).
RestartRevokes == \A q \in Requests : pc[q] = "inside" => ask[q].cookie > old

\* While the gateway runs, a session ends before its time only by a logout
\* under its own cookie: neither the purge nor another session's logout, however
\* late, ends it (sessions.go:42).
SignsOut(q, k) == /\ pc[q] = "inside" /\ pc'[q] # "inside"
                  /\ ask[q].kind = "logout" /\ ask[q].cookie = k
EndsOnlyAsTold ==
    [][\A k \in Tokens : phase = "up" /\ Live(k) /\ expires_at'[k] # expires_at[k]
                           => \E q \in Requests : SignsOut(q, k)]_vars

\* A panel that an answer closes, of a request sent under the cookie the browser
\* still has and with that session's token, leaves nobody signed in: what it
\* signed out of, or was refused for, is dead by then (handler.go:94, App.tsx:58).
Closes(q) == /\ pc[q] = "answered" /\ pc'[q] = "idle" /\ answer[q].status \in {204, 401, 403}
             /\ view[ask[q].tab] = "panel" /\ view'[ask[q].tab] = "login"
SignOutIsReal ==
    [][\A q \in Requests : Closes(q) /\ ask[q].cookie = jar /\ ask[q].csrf = jar
                             => ~ Live(jar)]_vars

\* A panel that is loading ends up in the panel or at the login page, though
\* the gateway stops and answers are lost (App.tsx:29).
EveryTabSettles == \A t \in Tabs : view[t] = "checking" ~> view[t] # "checking"
=============================================================================
