------------------------ MODULE AdminSessionsProofs -------------------------
(***************************************************************************)
(* For any number of tabs, requests and sessions: a restart revokes, a     *)
(* session lasts as long as it was told to, and a panel that an answer     *)
(* closes has left nobody signed in.                                       *)
(***************************************************************************)
EXTENDS AdminSessions, TLAPS

\* Every token in use has been made, and a row is only where one was made.
MintedInv ==
    /\ \A k \in Tokens : k > minted => expires_at[k] = NoRow
    /\ jar <= minted
    /\ \A q \in Requests : ask[q].cookie <= minted /\ answer[q].token <= minted

\* While the gateway runs, the sessions of earlier runs have no row, and
\* who is inside came in during this run.
RevokedInv ==
    /\ phase = "up" => \A k \in Tokens : k <= old => expires_at[k] = NoRow
    /\ \A q \in Requests :
          pc[q] = "inside" => phase = "up" /\ ask[q].cookie \in Tokens /\ ask[q].cookie > old

\* An answer waits for its tab, and what it says of the session it was sent under stays true.
Closed(q) == pc[q] = "answered" /\ answer[q].status \in {204, 401}
Verdict(q) ==
    /\ pc[q] = "answered" => ask[q].tab # NoTab
    /\ Closed(q) => ~ Live(ask[q].cookie)
    /\ pc[q] = "answered" /\ answer[q].status = 403 => ask[q].csrf # ask[q].cookie
VerdictInv == \A q \in Requests : Verdict(q)

IInv == TypeOK /\ MintedInv /\ RevokedInv /\ VerdictInv

Asks == [tab : Tabs \cup {NoTab}, kind : Kinds, cookie : Cookies, csrf : Cookies]
AnswersOf == [status : Statuses, token : Cookies]

LEMMA Numbers ==
    /\ Tokens \subseteq Nat /\ Cookies \subseteq Nat /\ MaxToken \in Nat /\ TTL \in Nat /\ TTL > 0
    /\ NoToken \in Cookies /\ Tokens \subseteq Cookies /\ NoToken \notin Tokens
    /\ NoToken = 0 /\ NoRow = 0 /\ NoTab \notin Tabs
    /\ \A k \in Tokens : k > 0
BY AdminSessionsAssumption DEF Tokens, Cookies, NoToken, NoRow

LEMMA NoAskType == NoAsk \in Asks
BY Numbers DEF NoAsk, Asks, Kinds

LEMMA NoAnswerType == NoAnswer \in AnswersOf /\ NoAnswer.token = NoToken /\ NoAnswer.status = Broken
BY Numbers DEF NoAnswer, Answer, AnswersOf, Statuses

LEMMA AnswerType ==
    ASSUME NEW s \in Statuses, NEW k \in Cookies
    PROVE  Answer(s, k) \in AnswersOf /\ Answer(s, k).status = s /\ Answer(s, k).token = k
BY DEF Answer, AnswersOf

\* The request that stays behind when its tab leaves.
LEMMA AskLeftType ==
    ASSUME TypeOK, NEW q \in Requests
    PROVE  /\ AskLeft(q) \in Asks
           /\ AskLeft(q) = NoAsk \/ /\ AskLeft(q).cookie = ask[q].cookie
                                    /\ AskLeft(q).csrf = ask[q].csrf
           /\ Abandoned(q) \in {"idle", pc[q]} /\ Abandoned(q) # "answered"
           /\ Abandoned(q) # "idle" => AskLeft(q).cookie = ask[q].cookie
<1>1. ask[q] \in Asks
  BY DEF TypeOK, Asks
<1>2. [ask[q] EXCEPT !.tab = NoTab] \in Asks
  BY <1>1 DEF Asks
<1>3. /\ [ask[q] EXCEPT !.tab = NoTab].cookie = ask[q].cookie
      /\ [ask[q] EXCEPT !.tab = NoTab].csrf = ask[q].csrf
  BY <1>1 DEF Asks
<1> QED
  BY <1>2, <1>3, NoAskType DEF AskLeft, Abandoned

\* What a tab asks.
LEMMA AskOfType ==
    ASSUME TypeOK, NEW t \in Tabs, NEW kind \in Kinds
    PROVE  /\ AskOf(t, kind) \in Asks
           /\ AskOf(t, kind).cookie \in {NoToken, jar}
BY Numbers DEF TypeOK, AskOf, Asks

\* The two ways an answer is written.
LEMMA RespondCases ==
    ASSUME TypeOK, NEW q \in Requests, NEW s \in Statuses, NEW k \in Cookies, Respond(q, s, k)
    PROVE  /\ pc' \in [Requests -> {"idle", "sent", "inside", "answered"}]
           /\ ask' \in [Requests -> Asks] /\ answer' \in [Requests -> AnswersOf]
           /\ \A r \in Requests : r # q => pc'[r] = pc[r] /\ ask'[r] = ask[r] /\ answer'[r] = answer[r]
           /\ \/ pc'[q] = "idle" /\ ask'[q] = NoAsk /\ answer'[q] = NoAnswer
              \/ /\ pc'[q] = "answered" /\ ask'[q] = ask[q] /\ answer'[q] = Answer(s, k)
                 /\ ask[q].kind = "login" => s = 200
<1> USE DEF TypeOK
<1>1. ask \in [Requests -> Asks] /\ answer \in [Requests -> AnswersOf]
  BY DEF Asks, AnswersOf
<1>2. CASE Drop(q)
  BY <1>1, <1>2, NoAskType, NoAnswerType DEF Drop, Goto
<1>3. CASE ~ Drop(q)
  <2>1. /\ pc' = [pc EXCEPT ![q] = "answered"] /\ answer' = [answer EXCEPT ![q] = Answer(s, k)]
        /\ ask' = ask /\ (ask[q].kind = "login" => s = 200)
    BY <1>3 DEF Respond, Goto
  <2>2. Answer(s, k) \in AnswersOf
    BY AnswerType
  <2>3. answer' \in [Requests -> AnswersOf]
    BY <1>1, <2>1, <2>2
  <2> QED
    BY <1>1, <2>1, <2>3
<1> QED
  BY <1>2, <1>3

LEMMA InitInv == Init => IInv
<1> SUFFICES ASSUME Init PROVE IInv
  OBVIOUS
<1> USE Numbers DEF Init
<1>1. TypeOK
  BY NoAskType, NoAnswerType, AdminSessionsAssumption DEF TypeOK, Asks, AnswersOf
<1>2. NoAsk.cookie = NoToken
  BY DEF NoAsk
<1>3. MintedInv
  BY <1>2, NoAnswerType DEF MintedInv
<1>4. RevokedInv /\ VerdictInv
  BY DEF RevokedInv, VerdictInv, Verdict, Closed
<1> QED
  BY <1>1, <1>3, <1>4 DEF IInv

\* What is unchanged when a request is only answered.
rest == <<phase, now, minted, old, browser>>

\* The tab that takes an answer, and its cookie.
LEMMA ShowType ==
    ASSUME TypeOK, NEW q \in Requests, ask[q].tab # NoTab, NEW s, Show(q, s)
    PROVE  /\ jar' \in Cookies /\ csrf' \in [Tabs -> Cookies]
           /\ view' \in [Tabs -> {"checking", "login", "panel"}]
           /\ jar' \in {jar, NoToken, answer[q].token}
<1> USE Numbers DEF TypeOK
<1>1. ask[q].tab \in Tabs /\ answer[q].token \in Cookies
  OBVIOUS
<1>2. CookieAfter(q, s) \in {jar, NoToken, answer[q].token}
  BY DEF CookieAfter
<1>3. TokenAfter(q, s) \in Cookies
  BY <1>1 DEF TokenAfter
<1>4. ViewAfter(q, s) \in {"checking", "login", "panel"}
  BY <1>1 DEF ViewAfter
<1> QED
  BY <1>1, <1>2, <1>3, <1>4 DEF Show

\* Every step keeps the types.
LEMMA TypeStep == IInv /\ [Next]_vars => TypeOK'
<1> SUFFICES ASSUME IInv, [Next]_vars PROVE TypeOK'
  OBVIOUS
<1> USE Numbers, AdminSessionsAssumption DEF IInv
<1>a. ask \in [Requests -> Asks] /\ answer \in [Requests -> AnswersOf]
  BY DEF TypeOK, Asks, AnswersOf
<1>b. ASSUME ask' \in [Requests -> Asks], answer' \in [Requests -> AnswersOf],
             pc' \in [Requests -> {"idle", "sent", "inside", "answered"}],
             expires_at' \in [Tokens -> Nat], UNCHANGED rest
      PROVE  TypeOK'
  BY <1>b DEF TypeOK, Asks, AnswersOf, rest, browser
<1>1. CASE StartUp
  <2>1. expires_at' \in [Tokens -> Nat]
    BY <1>1 DEF StartUp, DeleteAllSessions
  <2> QED
    BY <1>1, <2>1 DEF StartUp, TypeOK, browser
<1>2. CASE Stop
  <2>1. pc' \in [Requests -> {"idle", "sent", "inside", "answered"}]
    BY <1>2 DEF Stop, TypeOK
  <2>2. ask' \in [Requests -> Asks] /\ answer' \in [Requests -> AnswersOf]
    BY <1>2, <1>a, NoAskType, NoAnswerType DEF Stop
  <2> QED
    BY <1>2, <2>1, <2>2 DEF Stop, TypeOK, browser, Asks, AnswersOf
<1>3. CASE Purge
  BY <1>3 DEF Purge, TypeOK, browser
<1>4. CASE Tick
  BY <1>4 DEF Tick, TypeOK, browser
<1>5. ASSUME NEW q \in Requests, RefuseLogin(q) PROVE TypeOK'
  <2>1. Respond(q, 401, NoToken)
    BY <1>5 DEF RefuseLogin
  <2> QED
    BY <1>5, <1>b, <2>1, RespondCases DEF RefuseLogin, Statuses, rest, TypeOK
<1>6. ASSUME NEW q \in Requests, AcceptLogin(q) PROVE TypeOK'
  <2>1. minted + 1 \in Tokens /\ now + TTL \in Nat
    BY <1>6 DEF AcceptLogin, Tokens, TypeOK
  <2>2. Respond(q, 200, minted + 1)
    BY <1>6 DEF AcceptLogin
  <2>3. expires_at' \in [Tokens -> Nat] /\ minted' \in 0..MaxToken /\ old' \in 0..minted'
    BY <1>6, <2>1 DEF AcceptLogin, TypeOK
  <2>4. /\ ask' \in [Requests -> Asks] /\ answer' \in [Requests -> AnswersOf]
        /\ pc' \in [Requests -> {"idle", "sent", "inside", "answered"}]
    <3>1. minted + 1 \in Cookies /\ 200 \in Statuses
      BY <2>1, ZenonT(30) DEF Statuses
    <3> QED
      BY <2>2, <3>1, RespondCases
  <2> QED
    BY <1>6, <2>3, <2>4 DEF AcceptLogin, TypeOK, browser, Asks, AnswersOf
<1>7. ASSUME NEW q \in Requests, Authenticate(q) PROVE TypeOK'
  <2>1. CASE Respond(q, 401, NoToken) \/ Respond(q, 403, NoToken)
    BY <1>7, <1>b, <2>1, RespondCases DEF Authenticate, Statuses, rest, TypeOK
  <2>2. CASE Goto(q, "inside") /\ UNCHANGED <<ask, answer>>
    BY <1>7, <1>a, <1>b, <2>2 DEF Authenticate, Goto, rest, TypeOK
  <2> QED
    BY <1>7, <2>1, <2>2 DEF Authenticate
<1>8. ASSUME NEW q \in Requests, Handle(q) PROVE TypeOK'
  <2> DEFINE k == IF ask[q].kind = "session" THEN ask[q].cookie ELSE NoToken
  <2>1. k \in Cookies /\ Respond(q, 200, k)
    BY <1>8 DEF Handle, TypeOK
  <2> QED
    <3>1. /\ ask' \in [Requests -> Asks] /\ answer' \in [Requests -> AnswersOf]
          /\ pc' \in [Requests -> {"idle", "sent", "inside", "answered"}]
      <4>1. 200 \in Statuses
        BY DEF Statuses
      <4> HIDE DEF k
      <4> QED
        BY <2>1, <4>1, RespondCases
    <3> QED
      BY <1>8, <1>b, <3>1 DEF Handle, rest, TypeOK
<1>9. ASSUME NEW q \in Requests, Logout(q) PROVE TypeOK'
  <2>1. Respond(q, 204, NoToken) /\ expires_at' \in [Tokens -> Nat]
    BY <1>9 DEF Logout, DeleteSession, TypeOK
  <2> QED
    BY <1>9, <1>b, <2>1, RespondCases DEF Logout, Statuses, rest
<1>10. ASSUME NEW q \in Requests, StoreError(q) PROVE TypeOK'
  <2>1. Respond(q, 500, NoToken)
    BY <1>10 DEF StoreError
  <2> QED
    BY <1>10, <1>b, <2>1, RespondCases DEF StoreError, Statuses, rest, TypeOK
<1>11. ASSUME NEW q \in Requests, Refuse(q) PROVE TypeOK'
  <2>1. Respond(q, Broken, NoToken)
    BY <1>11 DEF Refuse
  <2> QED
    BY <1>11, <1>b, <2>1, RespondCases DEF Refuse, Statuses, rest, TypeOK
<1>12. ASSUME NEW q \in Requests, Deliver(q) \/ Lose(q) PROVE TypeOK'
  <2>a. ask[q].tab # NoTab
    BY <1>12 DEF Deliver, Lose, VerdictInv, Verdict
  <2>1. /\ ask' \in [Requests -> Asks] /\ answer' \in [Requests -> AnswersOf]
        /\ pc' \in [Requests -> {"idle", "sent", "inside", "answered"}]
    <3>1. CASE Deliver(q)
      BY <1>a, <3>1, NoAskType, NoAnswerType DEF Deliver, Drop, Goto, TypeOK
    <3>2. CASE Lose(q)
      <4>1. /\ AskLeft(q) \in Asks
            /\ Abandoned(q) \in {"idle", "sent", "inside", "answered"}
        BY AskLeftType DEF TypeOK
      <4> QED
        BY <1>a, <3>2, <4>1, NoAnswerType DEF Lose, Goto, TypeOK
    <3> QED
      BY <1>12, <3>1, <3>2
  <2>2. /\ jar' \in Cookies /\ csrf' \in [Tabs -> Cookies]
        /\ view' \in [Tabs -> {"checking", "login", "panel"}]
    BY <1>12, <2>a, ShowType DEF Deliver, Lose
  <2> QED
    BY <1>12, <2>1, <2>2 DEF Deliver, Lose, TypeOK, Asks, AnswersOf
<1>13. ASSUME NEW q \in Requests, NEW t \in Tabs, Load(q, t) PROVE TypeOK'
  <2>1. pc' \in [Requests -> {"idle", "sent", "inside", "answered"}]
    BY <1>13, AskLeftType DEF Load, TypeOK
  <2>2. ask' \in [Requests -> Asks] /\ answer' \in [Requests -> AnswersOf]
    BY <1>13, <1>a, NoAskType, NoAnswerType, AskLeftType, AskOfType DEF Load, Kinds
  <2> QED
    BY <1>13, <2>1, <2>2 DEF Load, TypeOK, Asks, AnswersOf
<1>14. ASSUME NEW q \in Requests, NEW t \in Tabs, NEW kind \in Kinds, Send(q, t, kind) PROVE TypeOK'
  <2>1. ask' \in [Requests -> Asks] /\ pc' \in [Requests -> {"idle", "sent", "inside", "answered"}]
    BY <1>14, <1>a, AskOfType DEF Send, Goto, TypeOK
  <2> QED
    BY <1>14, <1>a, <1>b, <2>1 DEF Send, rest, TypeOK
<1>15. CASE UNCHANGED vars
  BY <1>15 DEF vars, browser, TypeOK
<1> QED
  BY <1>1, <1>2, <1>3, <1>4, <1>5, <1>6, <1>7, <1>8, <1>9, <1>10, <1>11, <1>12, <1>13, <1>14,
     <1>15 DEF Next, Step

\* What the requests hold after one of them is answered, or left.
LEMMA Small == NoAsk.cookie = 0 /\ NoAnswer.token = 0 /\ NoAnswer.status = 0 /\ NoAsk.tab = NoTab
BY DEF NoAsk, NoAnswer, Answer, NoToken, Broken

LEMMA RespondKeeps ==
    ASSUME TypeOK, MintedInv, minted' \in Nat, minted' >= minted,
           NEW q \in Requests, NEW s \in Statuses, NEW k \in Cookies, k <= minted', Respond(q, s, k)
    PROVE  \A r \in Requests : ask'[r].cookie <= minted' /\ answer'[r].token <= minted'
<1> USE Numbers
<1>1. Answer(s, k).token = k
  BY AnswerType
<1>2. \A r \in Requests : /\ ask[r].cookie \in Nat /\ answer[r].token \in Nat
                          /\ ask[r].cookie <= minted' /\ answer[r].token <= minted'
  <2>a. minted \in Nat
    BY DEF TypeOK
  <2>b. \A r \in Requests : ask[r].cookie \in Cookies /\ answer[r].token \in Cookies
    BY DEF TypeOK
  <2>1. minted \in Nat /\ \A r \in Requests : ask[r].cookie \in Nat /\ answer[r].token \in Nat
    BY <2>a, <2>b
  <2>2. \A r \in Requests : ask[r].cookie <= minted /\ answer[r].token <= minted
    BY DEF MintedInv
  <2> QED
    BY <2>1, <2>2
<1> QED
  BY <1>1, <1>2, RespondCases, Small

\* Tokens are used when they have been made.
LEMMA MintedStep == IInv /\ [Next]_vars => MintedInv'
<1> SUFFICES ASSUME IInv, [Next]_vars PROVE MintedInv'
  OBVIOUS
<1> USE Numbers DEF IInv
<1>t. minted \in Nat /\ minted <= minted /\ NoToken <= minted
  BY DEF TypeOK
<1>c. \A r \in Requests : ask[r].cookie \in Nat /\ answer[r].token \in Nat
  BY DEF TypeOK
<1>1. CASE StartUp
  BY <1>1 DEF StartUp, DeleteAllSessions, MintedInv, browser
<1>2. CASE Stop
  <2>1. /\ \A r \in Requests : ask'[r] \in {ask[r], NoAsk} /\ answer'[r] \in {answer[r], NoAnswer}
        /\ UNCHANGED <<minted, expires_at, jar>>
    BY <1>2 DEF Stop, TypeOK, browser
  <2> QED
    BY <1>t, <2>1, Small DEF MintedInv
<1>3. CASE Purge
  BY <1>3 DEF Purge, MintedInv, browser
<1>4. CASE Tick
  BY <1>4 DEF Tick, MintedInv, browser
<1>5. ASSUME NEW q \in Requests, RefuseLogin(q) PROVE MintedInv'
  <2>1. Respond(q, 401, NoToken) /\ 401 \in Statuses /\ UNCHANGED <<minted, expires_at, jar>>
    BY <1>5 DEF RefuseLogin, Statuses, browser
  <2> QED
    BY <1>t, <2>1, RespondKeeps DEF MintedInv
<1>6. ASSUME NEW q \in Requests, AcceptLogin(q) PROVE MintedInv'
  <2>1. /\ Respond(q, 200, minted + 1) /\ 200 \in Statuses /\ minted' = minted + 1 /\ UNCHANGED jar
        /\ expires_at' = [expires_at EXCEPT ![minted + 1] = now + TTL]
    BY <1>6 DEF AcceptLogin, Statuses, browser
  <2>2. minted + 1 \in Cookies /\ minted + 1 \in Tokens
    BY <1>6, <1>t DEF AcceptLogin, Tokens, Cookies, TypeOK
  <2>3. \A r \in Requests : ask'[r].cookie <= minted' /\ answer'[r].token <= minted'
    BY <1>t, <2>1, <2>2, RespondKeeps
  <2>4. jar <= minted' /\ \A k \in Tokens : k > minted' => expires_at'[k] = NoRow
    BY <1>t, <2>1 DEF MintedInv, TypeOK
  <2> QED
    BY <2>1, <2>3, <2>4 DEF MintedInv
<1>7. ASSUME NEW q \in Requests, Authenticate(q) PROVE MintedInv'
  <2>1. /\ UNCHANGED <<minted, expires_at, jar>>
        /\ Respond(q, 401, NoToken) \/ Respond(q, 403, NoToken) \/ UNCHANGED <<ask, answer>>
    BY <1>7 DEF Authenticate, browser
  <2> QED
    BY <1>t, <2>1, RespondKeeps DEF MintedInv, Statuses
<1>8. ASSUME NEW q \in Requests, Handle(q) PROVE MintedInv'
  <2> DEFINE k == IF ask[q].kind = "session" THEN ask[q].cookie ELSE NoToken
  <2>1. /\ Respond(q, 200, k) /\ k \in Cookies /\ k <= minted /\ 200 \in Statuses
        /\ UNCHANGED <<minted, expires_at, jar>>
    BY <1>8, <1>t DEF Handle, MintedInv, TypeOK, Statuses, browser
  <2> HIDE DEF k
  <2> QED
    BY <1>t, <2>1, RespondKeeps DEF MintedInv
<1>9. ASSUME NEW q \in Requests, Logout(q) PROVE MintedInv'
  <2>1. /\ Respond(q, 204, NoToken) /\ 204 \in Statuses /\ UNCHANGED <<minted, jar>>
        /\ \A k \in Tokens : expires_at'[k] \in {expires_at[k], NoRow}
    BY <1>9 DEF Logout, DeleteSession, Statuses, browser, TypeOK
  <2> QED
    BY <1>t, <2>1, RespondKeeps DEF MintedInv
<1>10. ASSUME NEW q \in Requests, StoreError(q) \/ Refuse(q) PROVE MintedInv'
  <2>1. /\ UNCHANGED <<minted, expires_at, jar>> /\ 500 \in Statuses /\ Broken \in Statuses
        /\ Respond(q, 500, NoToken) \/ Respond(q, Broken, NoToken)
    BY <1>10 DEF StoreError, Refuse, Statuses, browser
  <2> QED
    BY <1>t, <2>1, RespondKeeps DEF MintedInv
<1>11. ASSUME NEW q \in Requests, Deliver(q) \/ Lose(q) PROVE MintedInv'
  <2>1. ask[q].tab # NoTab
    BY <1>11 DEF Deliver, Lose, VerdictInv, Verdict
  <2>2. jar' \in {jar, NoToken, answer[q].token} /\ UNCHANGED <<minted, expires_at>>
    BY <1>11, <2>1, ShowType DEF Deliver, Lose
  <2>3. \A r \in Requests : /\ ask'[r].cookie \in {0, ask[r].cookie}
                            /\ answer'[r].token \in {0, answer[r].token}
    BY <1>11, Small, AskLeftType DEF Deliver, Lose, Drop, TypeOK
  <2> QED
    BY <1>t, <1>c, <2>2, <2>3 DEF MintedInv
<1>12. ASSUME NEW q \in Requests, NEW t \in Tabs, Load(q, t) PROVE MintedInv'
  <2>1. \A r \in Requests : /\ ask'[r].cookie \in {0, jar, ask[r].cookie}
                            /\ answer'[r].token \in {0, answer[r].token}
    BY <1>12, Small, AskLeftType, AskOfType DEF Load, TypeOK, Kinds
  <2>2. UNCHANGED <<minted, expires_at, jar>>
    BY <1>12 DEF Load
  <2> QED
    BY <1>t, <1>c, <2>1, <2>2 DEF MintedInv
<1>13. ASSUME NEW q \in Requests, NEW t \in Tabs, NEW kind \in Kinds, Send(q, t, kind)
       PROVE  MintedInv'
  <2>1. \A r \in Requests : ask'[r].cookie \in {0, jar, ask[r].cookie}
    BY <1>13, AskOfType DEF Send, TypeOK
  <2> QED
    BY <1>13, <1>t, <1>c, <2>1 DEF Send, MintedInv, browser
<1>14. CASE UNCHANGED vars
  BY <1>14 DEF vars, browser, MintedInv
<1> QED
  BY <1>1, <1>2, <1>3, <1>4, <1>5, <1>6, <1>7, <1>8, <1>9, <1>10, <1>11, <1>12, <1>13, <1>14
     DEF Next, Step

\* Nobody comes in but by Authenticate.
LEMMA InsideStep ==
    ASSUME IInv, [Next]_vars, NEW r \in Requests, pc'[r] = "inside"
    PROVE  /\ phase = "up" /\ phase' = "up" /\ old' = old
           /\ ask'[r].cookie = ask[r].cookie
           /\ pc[r] = "inside" \/ Live(ask[r].cookie)
<1> USE DEF IInv
<1>1. CASE StartUp
  BY <1>1 DEF StartUp, RevokedInv
<1>2. CASE Stop
  BY <1>2 DEF Stop, TypeOK
<1>3. CASE Purge \/ Tick
  BY <1>3 DEF Purge, Tick, RevokedInv
<1>4. ASSUME NEW q \in Requests, NEW s \in Statuses, NEW k \in Cookies, Respond(q, s, k),
             UNCHANGED <<phase, old>>
      PROVE  phase = "up" /\ phase' = "up" /\ old' = old /\ ask'[r].cookie = ask[r].cookie /\ pc[r] = "inside"
  BY <1>4, RespondCases DEF RevokedInv
<1>5. ASSUME NEW q \in Requests, RefuseLogin(q) \/ StoreError(q) \/ Refuse(q) \/ Logout(q)
      PROVE  phase = "up" /\ phase' = "up" /\ old' = old /\ ask'[r].cookie = ask[r].cookie /\ pc[r] = "inside"
  <2>1. \E s \in Statuses : Respond(q, s, NoToken)
    BY <1>5 DEF RefuseLogin, StoreError, Refuse, Logout, Statuses
  <2> QED
    BY <1>4, <1>5, <2>1, Numbers DEF RefuseLogin, StoreError, Refuse, Logout
<1>6. ASSUME NEW q \in Requests, AcceptLogin(q)
      PROVE  phase = "up" /\ phase' = "up" /\ old' = old /\ ask'[r].cookie = ask[r].cookie /\ pc[r] = "inside"
  <2>1. minted + 1 \in Cookies /\ 200 \in Statuses
    BY <1>6, Numbers DEF AcceptLogin, Tokens, Cookies, TypeOK, Statuses
  <2> QED
    BY <1>4, <1>6, <2>1 DEF AcceptLogin
<1>7. ASSUME NEW q \in Requests, Handle(q)
      PROVE  phase = "up" /\ phase' = "up" /\ old' = old /\ ask'[r].cookie = ask[r].cookie /\ pc[r] = "inside"
  <2> DEFINE k == IF ask[q].kind = "session" THEN ask[q].cookie ELSE NoToken
  <2>1. Respond(q, 200, k) /\ k \in Cookies /\ 200 \in Statuses /\ UNCHANGED <<phase, old>>
    BY <1>7, Numbers DEF Handle, TypeOK, Statuses
  <2> HIDE DEF k
  <2> QED
    BY <1>4, <2>1
<1>8. ASSUME NEW q \in Requests, Authenticate(q)
      PROVE  /\ phase = "up" /\ phase' = "up" /\ old' = old /\ ask'[r].cookie = ask[r].cookie
             /\ pc[r] = "inside" \/ Live(ask[r].cookie)
  <2>1. CASE Respond(q, 401, NoToken) \/ Respond(q, 403, NoToken)
    BY <1>4, <1>8, <2>1, Numbers DEF Authenticate, Statuses
  <2>2. CASE ~ (Respond(q, 401, NoToken) \/ Respond(q, 403, NoToken))
    BY <1>8, <2>2 DEF Authenticate, Serving, Goto, TypeOK
  <2> QED
    BY <2>1, <2>2
<1>9. ASSUME NEW q \in Requests, Deliver(q) \/ Lose(q)
      PROVE  phase = "up" /\ phase' = "up" /\ old' = old /\ ask'[r].cookie = ask[r].cookie /\ pc[r] = "inside"
  BY <1>9, AskLeftType DEF Deliver, Lose, Drop, Goto, TypeOK, RevokedInv
<1>10. ASSUME NEW q \in Requests, NEW t \in Tabs, Load(q, t)
       PROVE  phase = "up" /\ phase' = "up" /\ old' = old /\ ask'[r].cookie = ask[r].cookie /\ pc[r] = "inside"
  BY <1>10, AskLeftType DEF Load, TypeOK, RevokedInv
<1>11. ASSUME NEW q \in Requests, NEW t \in Tabs, NEW kind \in Kinds, Send(q, t, kind)
       PROVE  phase = "up" /\ phase' = "up" /\ old' = old /\ ask'[r].cookie = ask[r].cookie /\ pc[r] = "inside"
  BY <1>11 DEF Send, Goto, TypeOK, RevokedInv
<1>12. CASE UNCHANGED vars
  BY <1>12 DEF vars, RevokedInv
<1> QED
  BY <1>1, <1>2, <1>3, <1>5, <1>6, <1>7, <1>8, <1>9, <1>10, <1>11, <1>12 DEF Next, Step

\* A session that has ended, or has not begun, does not begin but by a login.
LEMMA RowsStep ==
    ASSUME IInv, [Next]_vars, NEW k \in Tokens
    PROVE  /\ expires_at'[k] \in {expires_at[k], NoRow} \/ (k = minted + 1 /\ phase' = phase /\ old' = old)
           /\ now' \in Nat /\ now' >= now
           /\ (phase' = "up" /\ phase # "up") => expires_at'[k] = NoRow
           /\ phase' = "up" => old' = old
<1> USE Numbers DEF IInv
<1>n. now \in Nat /\ expires_at \in [Tokens -> Nat]
  BY DEF TypeOK
<1>1. CASE StartUp
  BY <1>1, <1>n DEF StartUp, DeleteAllSessions
<1>2. CASE Stop
  BY <1>2, <1>n DEF Stop
<1>3. CASE Purge
  BY <1>3, <1>n DEF Purge
<1>4. CASE Tick
  BY <1>4, <1>n DEF Tick
<1>5. ASSUME NEW q \in Requests, Step(q) \/ Lose(q)
      PROVE  /\ UNCHANGED <<phase, now, old>>
             /\ expires_at'[k] \in {expires_at[k], NoRow} \/ k = minted + 1
  BY <1>5, <1>n DEF Step, Lose, RefuseLogin, AcceptLogin, Authenticate, Handle, Logout, DeleteSession,
        StoreError, Refuse, Deliver
<1>6. ASSUME NEW q \in Requests, NEW t \in Tabs, NEW kind \in Kinds, Load(q, t) \/ Send(q, t, kind)
      PROVE  UNCHANGED <<phase, now, old, expires_at>>
  BY <1>6 DEF Load, Send
<1>7. CASE UNCHANGED vars
  BY <1>7, <1>n DEF vars
<1> QED
  BY <1>n, <1>1, <1>2, <1>3, <1>4, <1>5, <1>6, <1>7 DEF Next, Kinds

LEMMA DeadStep ==
    ASSUME IInv, [Next]_vars, NEW k, k <= minted, ~ Live(k)
    PROVE  ~ Live(k)'
<1>1. CASE k \notin Tokens
  BY <1>1 DEF Live
<1>2. CASE k \in Tokens
  <2>1. now \in Nat /\ expires_at[k] \in Nat /\ k \in Nat /\ minted \in Nat
    BY <1>2, Numbers DEF IInv, TypeOK
  <2>2. k # minted + 1 /\ expires_at[k] <= now
    BY <1>2, <2>1 DEF Live
  <2>3. expires_at'[k] \in {expires_at[k], NoRow} /\ now' \in Nat /\ now' >= now
    BY <1>2, <2>2, RowsStep
  <2> QED
    BY <2>1, <2>2, <2>3, Numbers DEF Live
<1> QED
  BY <1>1, <1>2

\* Sessions of earlier runs are gone while the gateway runs.
LEMMA RevokedStep == IInv /\ [Next]_vars => RevokedInv'
<1> SUFFICES ASSUME IInv, [Next]_vars PROVE RevokedInv'
  OBVIOUS
<1>t. minted \in Nat /\ old \in Nat /\ old <= minted /\ now \in Nat
  BY Numbers DEF IInv, TypeOK
<1>1. ASSUME phase' = "up", NEW k \in Tokens, k <= old' PROVE expires_at'[k] = NoRow
  <2>1. old' = old /\ k # minted + 1
    BY <1>1, <1>t, RowsStep, Numbers
  <2>2. CASE phase = "up"
    BY <1>1, <2>1, <2>2, RowsStep DEF IInv, RevokedInv
  <2> QED
    BY <1>1, <2>2, RowsStep
<1>2. ASSUME NEW r \in Requests, pc'[r] = "inside"
      PROVE  phase' = "up" /\ ask'[r].cookie \in Tokens /\ ask'[r].cookie > old'
  <2>1. /\ phase = "up" /\ phase' = "up" /\ old' = old /\ ask'[r].cookie = ask[r].cookie
        /\ pc[r] = "inside" \/ Live(ask[r].cookie)
    BY <1>2, InsideStep
  <2>2. CASE pc[r] = "inside"
    BY <2>1, <2>2 DEF IInv, RevokedInv
  <2>3. CASE Live(ask[r].cookie)
    <3>1. ask[r].cookie \in Tokens /\ expires_at[ask[r].cookie] # NoRow
      BY <1>t, <2>3, Numbers DEF Live
    <3>2. ~ (ask[r].cookie <= old)
      BY <2>1, <3>1 DEF IInv, RevokedInv
    <3>3. ask[r].cookie \in Nat
      BY <3>1, Numbers
    <3>4. ask[r].cookie > old
      BY <1>t, <3>2, <3>3
    <3> QED
      BY <2>1, <3>1, <3>4
  <2> QED
    BY <2>1, <2>2, <2>3
<1> QED
  BY <1>1, <1>2 DEF RevokedInv

\* A request that stays as it was, or is dropped or sent anew.
LEMMA QuietVerdict ==
    ASSUME IInv, [Next]_vars, NEW r \in Requests,
           pc'[r] # "answered" \/ (pc'[r] = pc[r] /\ ask'[r] = ask[r] /\ answer'[r] = answer[r])
    PROVE  Verdict(r)'
<1>1. CASE pc'[r] # "answered"
  BY <1>1 DEF Verdict, Closed
<1>2. CASE pc'[r] = pc[r] /\ ask'[r] = ask[r] /\ answer'[r] = answer[r]
  <2>1. Verdict(r) /\ ask[r].cookie <= minted
    BY DEF IInv, VerdictInv, MintedInv
  <2>2. ~ Live(ask[r].cookie) => ~ Live(ask[r].cookie)'
    BY <1>2, <2>1, DeadStep
  <2> QED
    BY <1>2, <2>1, <2>2 DEF Verdict, Closed
<1> QED
  BY <1>1, <1>2

\* A request that is answered now.
LEMMA RespondVerdict ==
    ASSUME IInv, [Next]_vars, NEW q \in Requests, NEW s \in Statuses, NEW k \in Cookies,
           Respond(q, s, k),
           s \in {204, 401} => ~ Live(ask[q].cookie)',
           s = 403 => ask[q].csrf # ask[q].cookie
    PROVE  VerdictInv'
<1>1. TypeOK
  BY DEF IInv
<1>2. ASSUME NEW r \in Requests, r # q PROVE Verdict(r)'
  BY <1>1, <1>2, RespondCases, QuietVerdict
<1>3. ASSUME pc'[q] = "idle" PROVE Verdict(q)'
  BY <1>3, QuietVerdict
<1>4. ASSUME pc'[q] # "idle" PROVE Verdict(q)'
  <2>1. pc'[q] = "answered" /\ ask'[q] = ask[q] /\ answer'[q] = Answer(s, k)
    BY <1>1, <1>4, RespondCases
  <2>2. answer'[q].status = s
    BY <2>1, AnswerType
  <2>3. ask[q].tab # NoTab
    BY <1>1, <1>4, RespondCases DEF Respond, Drop, Goto, TypeOK
  <2> QED
    BY <2>1, <2>2, <2>3 DEF Verdict, Closed
<1> QED
  BY <1>2, <1>3, <1>4 DEF VerdictInv

\* A session that is refused, or signed out, has ended.
LEMMA VerdictStep == IInv /\ [Next]_vars => VerdictInv'
<1> SUFFICES ASSUME IInv, [Next]_vars PROVE VerdictInv'
  OBVIOUS
<1>t. TypeOK /\ NoToken \in Cookies
  BY Numbers DEF IInv
<1>1. CASE StartUp \/ Purge \/ Tick \/ UNCHANGED vars
  BY <1>1, QuietVerdict DEF StartUp, Purge, Tick, vars, VerdictInv
<1>2. CASE Stop
  <2>1. ASSUME NEW r \in Requests PROVE Verdict(r)'
    <3>1. CASE pc[r] \in {"sent", "inside"} /\ pc'[r] = "answered"
      <4>1. answer'[r] = NoAnswer /\ ask'[r] = ask[r] /\ ask[r].tab # NoTab
        BY <1>2, <1>t, <3>1 DEF Stop, TypeOK
      <4> QED
        BY <3>1, <4>1, Small DEF Verdict, Closed
    <3>2. CASE ~ (pc[r] \in {"sent", "inside"} /\ pc'[r] = "answered")
      BY <1>2, <1>t, <3>2, QuietVerdict DEF Stop, TypeOK
    <3> QED
      BY <3>1, <3>2
  <2> QED
    BY <2>1 DEF VerdictInv
<1>3. ASSUME NEW q \in Requests, RefuseLogin(q) PROVE VerdictInv'
  <2>1. Respond(q, 401, NoToken) /\ 401 \in Statuses /\ ask[q].kind = "login"
    BY <1>3 DEF RefuseLogin, Serving, Statuses
  <2>2. Drop(q)
    BY <2>1 DEF Respond
  <2>3. \A r \in Requests : \/ pc'[r] # "answered"
                            \/ pc'[r] = pc[r] /\ ask'[r] = ask[r] /\ answer'[r] = answer[r]
    BY <1>t, <2>2 DEF Drop, Goto, TypeOK
  <2> QED
    BY <2>3, QuietVerdict DEF VerdictInv
<1>4. ASSUME NEW q \in Requests, AcceptLogin(q) PROVE VerdictInv'
  <2>1. Respond(q, 200, minted + 1) /\ 200 \in Statuses /\ minted + 1 \in Cookies
    <3>1. minted + 1 \in 1..MaxToken
      BY <1>4, <1>t, Numbers DEF AcceptLogin, TypeOK
    <3> QED
      BY <1>4, <3>1 DEF AcceptLogin, Statuses, Tokens, Cookies
  <2> QED
    BY <2>1, RespondVerdict
<1>5. ASSUME NEW q \in Requests, Authenticate(q) PROVE VerdictInv'
  <2>0. 401 \in Statuses /\ 403 \in Statuses /\ ask[q].cookie <= minted
    BY DEF Statuses, IInv, MintedInv
  <2>1. CASE ~ Live(ask[q].cookie)
    <3>1. Respond(q, 401, NoToken)
      BY <1>5, <2>1 DEF Authenticate
    <3>2. PICK c : c = ask[q].cookie
      OBVIOUS
    <3>3. ~ Live(c)'
      BY <2>0, <2>1, <3>2, DeadStep
    <3>4. ask'[q].cookie \in {0, c}
      BY <1>t, <2>0, <3>1, <3>2, RespondCases, Small
    <3>5. ~ Live(ask[q].cookie)'
      BY <3>3, <3>4, Numbers DEF Live
    <3> QED
      BY <1>t, <2>0, <3>1, <3>5, RespondVerdict
  <2>2. CASE Live(ask[q].cookie) /\ ~ CSRFHolds(q)
    BY <1>5, <1>t, <2>0, <2>2, RespondVerdict DEF Authenticate, CSRFHolds
  <2>3. CASE Live(ask[q].cookie) /\ CSRFHolds(q)
    BY <1>5, <1>t, <2>3, QuietVerdict DEF Authenticate, Goto, TypeOK, VerdictInv
  <2> QED
    BY <2>1, <2>2, <2>3
<1>6. ASSUME NEW q \in Requests, Handle(q) PROVE VerdictInv'
  <2> DEFINE k == IF ask[q].kind = "session" THEN ask[q].cookie ELSE NoToken
  <2>1. Respond(q, 200, k) /\ 200 \in Statuses /\ k \in Cookies
    BY <1>6, <1>t DEF Handle, Statuses, TypeOK
  <2> HIDE DEF k
  <2> QED
    BY <2>1, RespondVerdict
<1>7. ASSUME NEW q \in Requests, Logout(q) PROVE VerdictInv'
  <2>1. Respond(q, 204, NoToken) /\ 204 \in Statuses
    BY <1>7 DEF Logout, Statuses
  <2>2. ~ Live(ask[q].cookie)'
    <3>1. ask[q].cookie \in Tokens => expires_at'[ask[q].cookie] = NoRow
      BY <1>7, <1>t DEF Logout, DeleteSession, TypeOK
    <3>2. ask'[q].cookie \in {0, ask[q].cookie}
      BY <1>t, <2>1, RespondCases, Small
    <3>3. now' \in Nat
      BY <1>7, <1>t DEF Logout, TypeOK
    <3> QED
      BY <3>1, <3>2, <3>3, Numbers DEF Live
  <2> QED
    BY <1>t, <2>1, <2>2, RespondVerdict
<1>8. ASSUME NEW q \in Requests, StoreError(q) \/ Refuse(q) PROVE VerdictInv'
  <2>1. \E s \in Statuses : Respond(q, s, NoToken) /\ s \notin {204, 401, 403}
    BY <1>8 DEF StoreError, Refuse, Statuses, Broken
  <2> QED
    BY <1>t, <2>1, RespondVerdict
<1>9. ASSUME NEW q \in Requests, Deliver(q) \/ Lose(q) PROVE VerdictInv'
  <2>1. \A r \in Requests : \/ pc'[r] # "answered"
                            \/ pc'[r] = pc[r] /\ ask'[r] = ask[r] /\ answer'[r] = answer[r]
    BY <1>9, <1>t, AskLeftType DEF Deliver, Lose, Drop, Goto, TypeOK
  <2> QED
    BY <2>1, QuietVerdict DEF VerdictInv
<1>10. ASSUME NEW q \in Requests, NEW t \in Tabs, Load(q, t) PROVE VerdictInv'
  <2>1. \A r \in Requests : \/ pc'[r] # "answered"
                            \/ pc'[r] = pc[r] /\ ask'[r] = ask[r] /\ answer'[r] = answer[r]
    BY <1>10, <1>t, AskLeftType DEF Load, TypeOK
  <2> QED
    BY <2>1, QuietVerdict DEF VerdictInv
<1>11. ASSUME NEW q \in Requests, NEW t \in Tabs, NEW kind \in Kinds, Send(q, t, kind)
       PROVE  VerdictInv'
  <2>1. \A r \in Requests : \/ pc'[r] # "answered"
                            \/ pc'[r] = pc[r] /\ ask'[r] = ask[r] /\ answer'[r] = answer[r]
    BY <1>11, <1>t DEF Send, Goto, TypeOK
  <2> QED
    BY <2>1, QuietVerdict DEF VerdictInv
<1> QED
  BY <1>1, <1>2, <1>3, <1>4, <1>5, <1>6, <1>7, <1>8, <1>9, <1>10, <1>11 DEF Next, Step

LEMMA Induction == Spec => []IInv
<1>1. IInv /\ [Next]_vars => IInv'
  BY TypeStep, MintedStep, RevokedStep, VerdictStep DEF IInv
<1> QED
  BY InitInv, <1>1, PTL DEF Spec

\* Rows, requests and tabs keep their types.
THEOREM TypeCorrect == Spec => []TypeOK
<1>1. IInv => TypeOK
  BY DEF IInv
<1> QED
  BY Induction, <1>1, PTL

\* Whoever is let in was signed in since the last start (main.go:83).
THEOREM NobodySurvivesARestart == Spec => []RestartRevokes
<1>1. IInv => RestartRevokes
  BY DEF IInv, RevokedInv, RestartRevokes
<1> QED
  BY Induction, <1>1, PTL

\* A session that ends before its time was signed out of (sessions.go:42).
THEOREM SessionsLast == Spec => EndsOnlyAsTold
<1> DEFINE A == \A k \in Tokens : phase = "up" /\ Live(k) /\ expires_at'[k] # expires_at[k]
                                    => \E q \in Requests : SignsOut(q, k)
<1>1. IInv /\ [Next]_vars => [A]_vars
  <2> SUFFICES ASSUME IInv, Next, NEW k \in Tokens, phase = "up", Live(k),
                      expires_at'[k] # expires_at[k]
               PROVE  \E q \in Requests : SignsOut(q, k)
    OBVIOUS
  <2>0. TypeOK /\ NoToken \in Cookies /\ expires_at \in [Tokens -> Nat] /\ expires_at[k] > now
    BY Numbers DEF IInv, TypeOK, Live
  <2>1. CASE StartUp \/ Stop \/ Purge \/ Tick
    BY <2>0, <2>1 DEF StartUp, Stop, Purge, Purges, Tick, TypeOK
  <2>2. ASSUME NEW q \in Requests, AcceptLogin(q) PROVE FALSE
    <3>1. k = minted + 1
      BY <2>0, <2>2 DEF AcceptLogin
    <3>2. expires_at[k] = 0
      BY <2>0, <3>1, Numbers DEF IInv, MintedInv, TypeOK
    <3> QED
      BY <2>0, <3>2 DEF TypeOK
  <2>3. ASSUME NEW q \in Requests, Logout(q) PROVE SignsOut(q, k)
    <3>1. k = ask[q].cookie /\ Respond(q, 204, NoToken) /\ 204 \in Statuses
      BY <2>0, <2>3 DEF Logout, DeleteSession, Statuses
    <3> QED
      BY <2>0, <2>3, <3>1, RespondCases DEF SignsOut, Logout, Serving
  <2>4. ASSUME NEW q \in Requests,
               \/ RefuseLogin(q) \/ Authenticate(q) \/ Handle(q) \/ StoreError(q) \/ Refuse(q)
               \/ Deliver(q) \/ Lose(q) \/ \E t \in Tabs, kind \in Kinds : Load(q, t) \/ Send(q, t, kind)
        PROVE  FALSE
    BY <2>4 DEF RefuseLogin, Authenticate, Handle, StoreError, Refuse, Deliver, Lose, Load, Send
  <2> QED
    BY <2>1, <2>2, <2>3, <2>4 DEF Next, Step, Kinds
<1> QED
  BY Induction, <1>1, PTL DEF Spec, EndsOnlyAsTold

\* A panel that is closed by an answer about the session its browser still
\* has leaves nobody signed in (handler.go:94, App.tsx:58).
THEOREM ClosedPanelsAreSignedOut == Spec => SignOutIsReal
<1> DEFINE A == \A q \in Requests : Closes(q) /\ ask[q].cookie = jar /\ ask[q].csrf = jar => ~ Live(jar)
<1>1. IInv /\ [Next]_vars => [A]_vars
  BY DEF IInv, VerdictInv, Verdict, Closed, Closes
<1> QED
  BY Induction, <1>1, PTL DEF Spec, SignOutIsReal
=============================================================================
