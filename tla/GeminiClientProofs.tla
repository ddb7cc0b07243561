------------------------- MODULE GeminiClientProofs -------------------------
(***************************************************************************)
(* For any number of calls, keys, attempts and tokens: how often a call    *)
(* puts its prompt on the wire, and with which token.                      *)
(***************************************************************************)
EXTENDS GeminiClient, TLAPS

Retried(c) == IF xsrfRetried[c] THEN 1 ELSE 0

\* Every prompt on the wire is an attempt, or the one the refusal allows.
SendsInv ==
    \A c \in Callers :
        /\ pc[c] \in {"wire", "done"} => sends[c] <= attempt[c] + Retried(c) + 1
        /\ pc[c] \notin {"wire", "done"} => sends[c] <= attempt[c] + Retried(c)

\* A page with no token stays out of the entries of a cookie.
TokenInv ==
    /\ \A k \in SignedIn : entries[k].fresh => entries[k].xsrf # NoToken
    /\ \A c \in Callers :
          pc[c] \in {"send", "wire"} /\ key[c] \in SignedIn => xsrf[c] # NoToken

\* With output passed on, only the refusal leads back to the wire.
OutputInv ==
    \A c \in Callers :
        /\ late[c] <= 1
        /\ late[c] # 0 => pc[c] \in {"wire", "done"} /\ xsrfRetried[c] /\ emitted[c]
        /\ emitted[c] /\ pc[c] \notin {"wire", "done"} => xsrfRetried[c]

\* Tokens are issued in order, and the refused one is an old one.
OrderInv ==
    /\ \A k \in Keys : entries[k].xsrf <= issued
    /\ \A c \in Callers : xsrf[c] <= issued
    /\ \A c \in Callers : xsrfRetried[c] => /\ refused[c] < issued
                                            /\ refused[c] # NoToken
                                            /\ key[c] \in SignedIn
    /\ \A c \in Callers : pc[c] = "idle" => ~ xsrfRetried[c]

\* Where no fetch raced it, the refused token is gone for good.
RefusedInv ==
    \A c \in Callers : xsrfRetried[c] /\ ~ raced[c] =>
        /\ entries[key[c]].fresh => entries[key[c]].xsrf # refused[c]
        /\ \A d \in Callers : key[d] = key[c] /\ pc[d] = "store" => xsrf[d] # refused[c]
        /\ pc[c] \in {"send", "wire"} => xsrf[c] # refused[c]

IInv == TypeOK /\ SendsInv /\ TokenInv /\ OutputInv /\ OrderInv /\ RefusedInv

LEMMA Constants ==
    /\ SignedIn \subseteq Keys /\ RetryAttempts \in Nat \ {0} /\ MaxToken \in Nat \ {0}
    /\ NoToken = 0 /\ NoToken \in Tokens /\ Tokens \subseteq Nat /\ MaxSends \in Nat
    /\ \A n \in Nat : n \in 1..MaxToken => n \in Tokens
BY GeminiClientAssumption DEF NoToken, Tokens, MaxSends

LEMMA Entries ==
    /\ NoEntry \in Entry /\ ~ NoEntry.fresh /\ NoEntry.xsrf = NoToken
    /\ \A x \in Tokens : Page(x) \in Entry /\ Page(x).xsrf = x /\ Page(x).fresh
    /\ \A e \in Entry : e.xsrf \in Tokens /\ e.fresh \in BOOLEAN
BY Constants DEF NoEntry, Page, Entry

LEMMA TokensInOrder ==
    ASSUME TypeOK, OrderInv
    PROVE  \A c \in Callers : xsrf[c] # issued => xsrf[c] < issued
<1>1. issued \in Nat /\ \A c \in Callers : xsrf[c] \in Nat
  <2>1. issued \in 1..MaxToken /\ \A c \in Callers : xsrf[c] \in Tokens
    BY DEF TypeOK
  <2>2. issued \in Nat
    BY <2>1, GeminiClientAssumption
  <2>3. Tokens \subseteq Nat
    BY Constants
  <2> QED
    BY <2>1, <2>2, <2>3
<1>2. \A c \in Callers : xsrf[c] <= issued
  BY DEF OrderInv
<1> QED
  BY <1>1, <1>2

LEMMA InitInv == Init => IInv
<1> SUFFICES ASSUME Init PROVE IInv
  OBVIOUS
<1>1. TypeOK
  BY Constants, Entries DEF Init, TypeOK, MaxSends
<1>2. SendsInv /\ OutputInv
  BY Constants DEF Init, SendsInv, OutputInv, Retried
<1>3. TokenInv /\ OrderInv /\ RefusedInv
  BY Constants, Entries DEF Init, TokenInv, OrderInv, RefusedInv
<1> QED
  BY <1>1, <1>2, <1>3 DEF IInv

\* Every step keeps the types.
LEMMA TypeStep == IInv /\ [Next]_vars => TypeOK'
<1> SUFFICES ASSUME IInv, [Next]_vars PROVE TypeOK'
  OBVIOUS
<1> USE Constants, Entries DEF IInv, TypeOK, MaxSends, history
<1>1. ASSUME NEW c \in Callers, Begin(c) PROVE TypeOK'
  BY <1>1 DEF Begin, Goto, call
<1>2. ASSUME NEW c \in Callers, Resolve(c) PROVE TypeOK'
  <2>1. entries[key[c]].xsrf \in Tokens
    OBVIOUS
  <2>2. xsrf' \in [Callers -> Tokens] /\ pc' \in [Callers -> {"idle", "resolve", "fetch", "store",
                                                           "send", "wire", "wait", "done"}]
    BY <1>2, <2>1 DEF Resolve, Goto
  <2> QED
    BY <1>2, <2>2 DEF Resolve, call
<1>3. ASSUME NEW c \in Callers, FetchFails(c) PROVE TypeOK'
  BY <1>3 DEF FetchFails, Goto, call
<1>4. ASSUME NEW c \in Callers, FetchPage(c) PROVE TypeOK'
  BY <1>4 DEF FetchPage, Goto, call
<1>5. ASSUME NEW c \in Callers, StorePage(c) PROVE TypeOK'
  BY <1>5, ZenonT(30) DEF StorePage, Goto, call, AcceptsPage
<1>6. ASSUME NEW c \in Callers, Send(c) PROVE TypeOK'
  BY <1>6 DEF Send, Goto, call
<1>7. ASSUME NEW c \in Callers, Emit(c) PROVE TypeOK'
  BY <1>7 DEF Emit, call
<1>8. ASSUME NEW c \in Callers, Succeed(c) PROVE TypeOK'
  BY <1>8 DEF Succeed, Goto, call
<1>9. ASSUME NEW c \in Callers, Fail(c) PROVE TypeOK'
  BY <1>9 DEF Fail, Goto, call, CountAttempt, GivesUp
<1>10. ASSUME NEW c \in Callers, Wait(c) PROVE TypeOK'
  BY <1>10 DEF Wait, Goto, call
<1>11. ASSUME NEW c \in Callers, RefuseToken(c) PROVE TypeOK'
  BY <1>11 DEF RefuseToken, Goto, call, MayRetryXsrf, Invalidate, Fetching
<1>12. ASSUME NEW c \in Callers, Leave(c) PROVE TypeOK'
  BY <1>12 DEF Leave, Goto
<1>13. ASSUME NEW k \in Keys, Expire(k) PROVE TypeOK'
  BY <1>13 DEF Expire, call
<1>14. CASE Reissue
  BY <1>14 DEF Reissue, call
<1>15. CASE UNCHANGED vars
  BY <1>15 DEF vars
<1> QED
  BY <1>1, <1>2, <1>3, <1>4, <1>5, <1>6, <1>7, <1>8, <1>9, <1>10, <1>11, <1>12, <1>13, <1>14, <1>15
  DEF Next, Proceed

\* Every step keeps the count of prompts.
LEMMA SendsStep == IInv /\ [Next]_vars => SendsInv'
<1> SUFFICES ASSUME IInv, [Next]_vars PROVE SendsInv'
  OBVIOUS
<1> USE Constants, Entries DEF IInv, TypeOK, SendsInv, Retried, MaxSends, history
<1>1. ASSUME NEW c \in Callers, Begin(c) PROVE SendsInv'
  BY <1>1 DEF Begin, Goto, call
<1>2. ASSUME NEW c \in Callers, Resolve(c) PROVE SendsInv'
  BY <1>2 DEF Resolve, Goto, call, Hit
<1>3. ASSUME NEW c \in Callers, FetchFails(c) PROVE SendsInv'
  BY <1>3 DEF FetchFails, Goto, call
<1>4. ASSUME NEW c \in Callers, FetchPage(c) PROVE SendsInv'
  BY <1>4 DEF FetchPage, Goto, call
<1>5. ASSUME NEW c \in Callers, StorePage(c) PROVE SendsInv'
  BY <1>5 DEF StorePage, Goto, call, AcceptsPage
<1>6. ASSUME NEW c \in Callers, Send(c) PROVE SendsInv'
  BY <1>6 DEF Send, Goto, call
<1>7. ASSUME NEW c \in Callers, Emit(c) PROVE SendsInv'
  BY <1>7 DEF Emit, call
<1>8. ASSUME NEW c \in Callers, Succeed(c) PROVE SendsInv'
  BY <1>8 DEF Succeed, Goto, call
<1>9. ASSUME NEW c \in Callers, Fail(c) PROVE SendsInv'
  BY <1>9 DEF Fail, Goto, call, CountAttempt, GivesUp
<1>10. ASSUME NEW c \in Callers, Wait(c) PROVE SendsInv'
  BY <1>10 DEF Wait, Goto, call
<1>11. ASSUME NEW c \in Callers, RefuseToken(c) PROVE SendsInv'
  BY <1>11 DEF RefuseToken, Goto, call, MayRetryXsrf, Invalidate, Fetching
<1>12. ASSUME NEW c \in Callers, Leave(c) PROVE SendsInv'
  BY <1>12 DEF Leave, Goto
<1>13. ASSUME NEW k \in Keys, Expire(k) PROVE SendsInv'
  BY <1>13 DEF Expire, call
<1>14. CASE Reissue
  BY <1>14 DEF Reissue, call
<1>15. CASE UNCHANGED vars
  BY <1>15 DEF vars
<1> QED
  BY <1>1, <1>2, <1>3, <1>4, <1>5, <1>6, <1>7, <1>8, <1>9, <1>10, <1>11, <1>12, <1>13, <1>14, <1>15
  DEF Next, Proceed

\* Every step keeps tokens where they are needed.
LEMMA TokenStep == IInv /\ [Next]_vars => TokenInv'
<1> SUFFICES ASSUME IInv, [Next]_vars PROVE TokenInv'
  OBVIOUS
<1> USE Constants, Entries DEF IInv, TypeOK, TokenInv, history
<1>1. ASSUME NEW c \in Callers, Begin(c) PROVE TokenInv'
  BY <1>1 DEF Begin, Goto, call
<1>2. ASSUME NEW c \in Callers, Resolve(c) PROVE TokenInv'
  BY <1>2 DEF Resolve, Goto, call, Hit
<1>3. ASSUME NEW c \in Callers, FetchFails(c) PROVE TokenInv'
  BY <1>3 DEF FetchFails, Goto, call
<1>4. ASSUME NEW c \in Callers, FetchPage(c) PROVE TokenInv'
  BY <1>4 DEF FetchPage, Goto, call
<1>5. ASSUME NEW c \in Callers, StorePage(c) PROVE TokenInv'
  <2>1. /\ pc[c] = "store" /\ xsrf' = xsrf /\ key' = key
        /\ pc' \in {[pc EXCEPT ![c] = "send"], [pc EXCEPT ![c] = "done"]}
    BY <1>5 DEF StorePage, Goto, call
  <2>2. CASE entries' = entries /\ pc' = [pc EXCEPT ![c] = "done"]
    BY <1>5, <2>1, <2>2 DEF StorePage, call
  <2>3. CASE /\ key[c] \in SignedIn => xsrf[c] # NoToken
             /\ entries' = [entries EXCEPT ![key[c]] = Page(xsrf[c])]
             /\ pc' = [pc EXCEPT ![c] = "send"]
    <3>1. \A k \in Keys : entries'[k].xsrf = IF k = key[c] THEN xsrf[c] ELSE entries[k].xsrf
      BY <2>3
    <3>2. \A k \in Keys : k # key[c] => entries'[k] = entries[k]
      BY <2>3
    <3> QED
      BY <1>5, <2>1, <2>3, <3>1, <3>2 DEF StorePage, call
  <2> QED
    BY <1>5, <2>2, <2>3 DEF StorePage, AcceptsPage, Goto
<1>6. ASSUME NEW c \in Callers, Send(c) PROVE TokenInv'
  BY <1>6 DEF Send, Goto, call
<1>7. ASSUME NEW c \in Callers, Emit(c) PROVE TokenInv'
  BY <1>7 DEF Emit, call
<1>8. ASSUME NEW c \in Callers, Succeed(c) PROVE TokenInv'
  BY <1>8 DEF Succeed, Goto, call
<1>9. ASSUME NEW c \in Callers, Fail(c) PROVE TokenInv'
  BY <1>9 DEF Fail, Goto, call, CountAttempt, GivesUp
<1>10. ASSUME NEW c \in Callers, Wait(c) PROVE TokenInv'
  BY <1>10 DEF Wait, Goto, call
<1>11. ASSUME NEW c \in Callers, RefuseToken(c) PROVE TokenInv'
  BY <1>11 DEF RefuseToken, Goto, call, MayRetryXsrf, Invalidate, Fetching
<1>12. ASSUME NEW c \in Callers, Leave(c) PROVE TokenInv'
  BY <1>12 DEF Leave, Goto
<1>13. ASSUME NEW k \in Keys, Expire(k) PROVE TokenInv'
  BY <1>13 DEF Expire, call
<1>14. CASE Reissue
  BY <1>14 DEF Reissue, call
<1>15. CASE UNCHANGED vars
  BY <1>15 DEF vars
<1> QED
  BY <1>1, <1>2, <1>3, <1>4, <1>5, <1>6, <1>7, <1>8, <1>9, <1>10, <1>11, <1>12, <1>13, <1>14, <1>15
  DEF Next, Proceed

\* Every step keeps the bound on prompts after output.
LEMMA OutputStep == IInv /\ [Next]_vars => OutputInv'
<1> SUFFICES ASSUME IInv, [Next]_vars PROVE OutputInv'
  OBVIOUS
<1> USE Constants, Entries DEF IInv, TypeOK, OutputInv, history
<1>1. ASSUME NEW c \in Callers, Begin(c) PROVE OutputInv'
  BY <1>1 DEF Begin, Goto, call
<1>2. ASSUME NEW c \in Callers, Resolve(c) PROVE OutputInv'
  BY <1>2 DEF Resolve, Goto, call, Hit
<1>3. ASSUME NEW c \in Callers, FetchFails(c) PROVE OutputInv'
  BY <1>3 DEF FetchFails, Goto, call
<1>4. ASSUME NEW c \in Callers, FetchPage(c) PROVE OutputInv'
  BY <1>4 DEF FetchPage, Goto, call
<1>5. ASSUME NEW c \in Callers, StorePage(c) PROVE OutputInv'
  BY <1>5 DEF StorePage, Goto, call, AcceptsPage
<1>6. ASSUME NEW c \in Callers, Send(c) PROVE OutputInv'
  BY <1>6 DEF Send, Goto, call
<1>7. ASSUME NEW c \in Callers, Emit(c) PROVE OutputInv'
  BY <1>7 DEF Emit, call
<1>8. ASSUME NEW c \in Callers, Succeed(c) PROVE OutputInv'
  BY <1>8 DEF Succeed, Goto, call
<1>9. ASSUME NEW c \in Callers, Fail(c) PROVE OutputInv'
  BY <1>9 DEF Fail, Goto, call, CountAttempt, GivesUp
<1>10. ASSUME NEW c \in Callers, Wait(c) PROVE OutputInv'
  BY <1>10 DEF Wait, Goto, call
<1>11. ASSUME NEW c \in Callers, RefuseToken(c) PROVE OutputInv'
  BY <1>11 DEF RefuseToken, Goto, call, MayRetryXsrf, Invalidate, Fetching
<1>12. ASSUME NEW c \in Callers, Leave(c) PROVE OutputInv'
  BY <1>12 DEF Leave, Goto
<1>13. ASSUME NEW k \in Keys, Expire(k) PROVE OutputInv'
  BY <1>13 DEF Expire, call
<1>14. CASE Reissue
  BY <1>14 DEF Reissue, call
<1>15. CASE UNCHANGED vars
  BY <1>15 DEF vars
<1> QED
  BY <1>1, <1>2, <1>3, <1>4, <1>5, <1>6, <1>7, <1>8, <1>9, <1>10, <1>11, <1>12, <1>13, <1>14, <1>15
  DEF Next, Proceed

\* Every step keeps the tokens in order.
LEMMA OrderStep == IInv /\ [Next]_vars => OrderInv'
<1> SUFFICES ASSUME IInv, [Next]_vars PROVE OrderInv'
  OBVIOUS
<1> USE Constants, Entries DEF IInv, TypeOK, OrderInv, TokenInv, history
<1>1. ASSUME NEW c \in Callers, Begin(c) PROVE OrderInv'
  BY <1>1 DEF Begin, Goto, call
<1>2. ASSUME NEW c \in Callers, Resolve(c) PROVE OrderInv'
  BY <1>2 DEF Resolve, Goto, call, Hit
<1>3. ASSUME NEW c \in Callers, FetchFails(c) PROVE OrderInv'
  BY <1>3 DEF FetchFails, Goto, call
<1>4. ASSUME NEW c \in Callers, FetchPage(c) PROVE OrderInv'
  BY <1>4 DEF FetchPage, Goto, call
<1>5. ASSUME NEW c \in Callers, StorePage(c) PROVE OrderInv'
  BY <1>5, ZenonT(30) DEF StorePage, Goto, call, AcceptsPage
<1>6. ASSUME NEW c \in Callers, Send(c) PROVE OrderInv'
  BY <1>6 DEF Send, Goto, call
<1>7. ASSUME NEW c \in Callers, Emit(c) PROVE OrderInv'
  BY <1>7 DEF Emit, call
<1>8. ASSUME NEW c \in Callers, Succeed(c) PROVE OrderInv'
  BY <1>8 DEF Succeed, Goto, call
<1>9. ASSUME NEW c \in Callers, Fail(c) PROVE OrderInv'
  BY <1>9 DEF Fail, Goto, call, CountAttempt, GivesUp
<1>10. ASSUME NEW c \in Callers, Wait(c) PROVE OrderInv'
  BY <1>10 DEF Wait, Goto, call
<1>11. ASSUME NEW c \in Callers, RefuseToken(c) PROVE OrderInv'
  <2>1. xsrf[c] < issued /\ xsrf[c] # NoToken /\ key[c] \in SignedIn
    <3>1. pc[c] = "wire" /\ xsrf[c] # issued /\ key[c] \in SignedIn
      BY <1>11 DEF RefuseToken, MayRetryXsrf
    <3>2. xsrf[c] < issued
      BY <3>1, TokensInOrder
    <3> QED
      BY <3>1, <3>2
  <2>2. \A k \in Keys : entries'[k].xsrf <= issued
    BY <1>11 DEF RefuseToken, Invalidate
  <2>3. /\ \A d \in Callers : d # c => refused'[d] = refused[d] /\ xsrfRetried'[d] = xsrfRetried[d]
        /\ refused'[c] = xsrf[c]
        /\ \A d \in Callers : d # c => pc'[d] = pc[d]
        /\ pc'[c] = "resolve"
    BY <1>11 DEF RefuseToken, Goto
  <2> QED
    BY <1>11, <2>1, <2>2, <2>3 DEF RefuseToken, call
<1>12. ASSUME NEW c \in Callers, Leave(c) PROVE OrderInv'
  BY <1>12 DEF Leave, Goto
<1>13. ASSUME NEW k \in Keys, Expire(k) PROVE OrderInv'
  BY <1>13 DEF Expire, call
<1>14. CASE Reissue
  <2>1. issued' = issued + 1 /\ issued \in Nat
    BY <1>14 DEF Reissue
  <2>2. \A k \in Keys : entries[k].xsrf \in Nat
    OBVIOUS
  <2>3. \A d \in Callers : xsrf[d] \in Nat /\ refused[d] \in Nat
    OBVIOUS
  <2>4. /\ \A k \in Keys : entries[k].xsrf <= issued'
        /\ \A d \in Callers : xsrf[d] <= issued'
        /\ \A d \in Callers : xsrfRetried[d] => refused[d] < issued'
    BY <2>1, <2>2, <2>3
  <2> QED
    BY <1>14, <2>4 DEF Reissue, call
<1>15. CASE UNCHANGED vars
  BY <1>15 DEF vars
<1> QED
  BY <1>1, <1>2, <1>3, <1>4, <1>5, <1>6, <1>7, <1>8, <1>9, <1>10, <1>11, <1>12, <1>13, <1>14, <1>15
  DEF Next, Proceed

\* Every step keeps an unraced refusal final.
LEMMA RefusedStep == IInv /\ [Next]_vars => RefusedInv'
<1> SUFFICES ASSUME IInv, [Next]_vars PROVE RefusedInv'
  OBVIOUS
<1> USE Constants, Entries DEF IInv, TypeOK, RefusedInv, OrderInv, history
<1>1. ASSUME NEW c \in Callers, Begin(c) PROVE RefusedInv'
  BY <1>1 DEF Begin, Goto, call
<1>2. ASSUME NEW c \in Callers, Resolve(c) PROVE RefusedInv'
  BY <1>2, SMTT(30) DEF Resolve, Goto, call, Hit
<1>3. ASSUME NEW c \in Callers, FetchFails(c) PROVE RefusedInv'
  BY <1>3 DEF FetchFails, Goto, call
<1>4. ASSUME NEW c \in Callers, FetchPage(c) PROVE RefusedInv'
  BY <1>4 DEF FetchPage, Goto, call
<1>5. ASSUME NEW c \in Callers, StorePage(c) PROVE RefusedInv'
  <2>1. /\ pc[c] = "store" /\ xsrf' = xsrf /\ key' = key
        /\ pc' \in {[pc EXCEPT ![c] = "send"], [pc EXCEPT ![c] = "done"]}
    BY <1>5 DEF StorePage, Goto, call
  <2>2. CASE entries' = entries /\ pc' = [pc EXCEPT ![c] = "done"]
    BY <1>5, <2>1, <2>2 DEF StorePage, call
  <2>3. CASE /\ key[c] \in SignedIn => xsrf[c] # NoToken
             /\ entries' = [entries EXCEPT ![key[c]] = Page(xsrf[c])]
             /\ pc' = [pc EXCEPT ![c] = "send"]
    <3>1. \A k \in Keys : entries'[k].xsrf = IF k = key[c] THEN xsrf[c] ELSE entries[k].xsrf
      BY <2>3
    <3>2. \A k \in Keys : k # key[c] => entries'[k] = entries[k]
      BY <2>3
    <3> QED
      BY <1>5, <2>1, <2>3, <3>1, <3>2 DEF StorePage, call
  <2> QED
    BY <1>5, <2>2, <2>3 DEF StorePage, AcceptsPage, Goto
<1>6. ASSUME NEW c \in Callers, Send(c) PROVE RefusedInv'
  BY <1>6 DEF Send, Goto, call
<1>7. ASSUME NEW c \in Callers, Emit(c) PROVE RefusedInv'
  BY <1>7 DEF Emit, call
<1>8. ASSUME NEW c \in Callers, Succeed(c) PROVE RefusedInv'
  BY <1>8 DEF Succeed, Goto, call
<1>9. ASSUME NEW c \in Callers, Fail(c) PROVE RefusedInv'
  BY <1>9 DEF Fail, Goto, call, CountAttempt, GivesUp
<1>10. ASSUME NEW c \in Callers, Wait(c) PROVE RefusedInv'
  BY <1>10 DEF Wait, Goto, call
<1>11. ASSUME NEW c \in Callers, RefuseToken(c) PROVE RefusedInv'
  BY <1>11 DEF RefuseToken, Goto, call, MayRetryXsrf, Invalidate, Fetching
<1>12. ASSUME NEW c \in Callers, Leave(c) PROVE RefusedInv'
  BY <1>12 DEF Leave, Goto
<1>13. ASSUME NEW k \in Keys, Expire(k) PROVE RefusedInv'
  BY <1>13 DEF Expire, call
<1>14. CASE Reissue
  BY <1>14 DEF Reissue, call
<1>15. CASE UNCHANGED vars
  BY <1>15 DEF vars
<1> QED
  BY <1>1, <1>2, <1>3, <1>4, <1>5, <1>6, <1>7, <1>8, <1>9, <1>10, <1>11, <1>12, <1>13, <1>14, <1>15
  DEF Next, Proceed

LEMMA Induction == Spec => []IInv
<1>1. IInv /\ [Next]_vars => IInv'
  BY TypeStep, SendsStep, TokenStep, OutputStep, OrderStep, RefusedStep DEF IInv
<1> QED
  BY InitInv, <1>1, PTL DEF Spec

\* Entries, locals and histories keep their types; the attempt stays below its
\* limit although a refused token takes one back.
THEOREM TypeCorrect == Spec => []TypeOK
<1>1. IInv => TypeOK
  BY DEF IInv
<1> QED
  BY Induction, <1>1, PTL

\* No call puts its prompt on the wire more than once per attempt and once for
\* a refused token.
THEOREM SendsStayBounded == Spec => []SendsBounded
<1>1. IInv => SendsBounded
  <2> SUFFICES ASSUME IInv, NEW c \in Callers PROVE sends[c] <= RetryAttempts + 1
    BY DEF SendsBounded
  <2>1. sends[c] <= attempt[c] + Retried(c) + 1 /\ Retried(c) \in 0..1
    BY Constants DEF IInv, TypeOK, SendsInv, Retried, MaxSends
  <2> QED
    BY <2>1, Constants DEF IInv, TypeOK, MaxSends
<1> QED
  BY Induction, <1>1, PTL

\* A signed-in call never reaches the upstream without a token.
THEOREM TokenIsSent == Spec => []SignedInSendsToken
<1>1. IInv => SignedInSendsToken
  BY DEF IInv, TokenInv, SignedInSendsToken
<1> QED
  BY Induction, <1>1, PTL

\* After output the prompt goes out again once at most, for a refused token.
THEOREM OneResend == Spec => []OneSendAfterOutput
<1>1. IInv => OneSendAfterOutput
  <2> SUFFICES ASSUME IInv, NEW c \in Callers
               PROVE  late[c] <= 1 /\ (late[c] = 1 => xsrfRetried[c])
    BY DEF OneSendAfterOutput
  <2> QED
    BY DEF IInv, OutputInv
<1> QED
  BY Induction, <1>1, PTL

\* A refused token is sent again by the same call only if another fetch of the
\* same page was under way at the refusal.
THEOREM RefusalIsFinal == Spec => []RefusedTokenReturnsOnlyByRace
<1>1. IInv => RefusedTokenReturnsOnlyByRace
  BY DEF IInv, TypeOK, RefusedInv, RefusedTokenReturnsOnlyByRace
<1> QED
  BY Induction, <1>1, PTL
=============================================================================
