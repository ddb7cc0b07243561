---------------------------- MODULE GeminiClient ----------------------------
(***************************************************************************)
(* Client.Generate (internal/gemini/client.go): the attempts of one call,  *)
(* the answer it streams, and the page tokens that concurrent calls share  *)
(* in TokenCache (internal/gemini/tokens.go).  The upstream issues a new   *)
(* XSRF token now and then and refuses the older ones.                     *)
(***************************************************************************)
EXTENDS Integers

CONSTANTS Callers,        \* concurrent calls of Generate
          Keys,           \* tokenCacheKey: a cookie, or none, and a proxy
          SignedIn,       \* the keys with a cookie
          RetryAttempts,  \* Options.RetryAttempts, at least 1
          MaxToken        \* bound: tokens the upstream issues

ASSUME GeminiClientAssumption ==
    SignedIn \subseteq Keys /\ RetryAttempts \in Nat \ {0} /\ MaxToken \in Nat \ {0}

NoToken == 0
Tokens == NoToken..MaxToken

VARIABLES entries,      \* TokenCache.entries
          issued,       \* the upstream's current token
          pc,           \* where each call stands
          key,          \* its cookie and proxy
          autoBL,       \* Options.AutoRefreshBL
          attempt,
          xsrfRetried,
          xsrf,         \* the token Resolve gave it, or the page it reads
          emitted,      \* the trackers have passed something on
          sends,        \* history: prompts it put on the wire
          late,         \* history: ... after the caller had seen output
          refused,      \* history: the token its XSRF retry replaces
          raced         \* history: another fetch was under way at that moment

vars == <<entries, issued, pc, key, autoBL, attempt, xsrfRetried, xsrf, emitted,
          sends, late, refused, raced>>
call == <<key, autoBL>>
history == <<sends, late, refused, raced>>

\* An entry past its twenty minutes is as good as none.
Entry == [fresh : BOOLEAN, xsrf : Tokens]
NoEntry == [fresh |-> FALSE, xsrf |-> NoToken]
Page(x) == [fresh |-> TRUE, xsrf |-> x]

Init ==
    /\ entries = [k \in Keys |-> NoEntry]
    /\ issued = 1
    /\ pc = [c \in Callers |-> "idle"]
    /\ key \in [Callers -> Keys]
    /\ autoBL = [c \in Callers |-> FALSE]
    /\ attempt = [c \in Callers |-> 0]
    /\ xsrfRetried = [c \in Callers |-> FALSE]
    /\ xsrf = [c \in Callers |-> NoToken]
    /\ emitted = [c \in Callers |-> FALSE]
    /\ sends = [c \in Callers |-> 0]
    /\ late = [c \in Callers |-> 0]
    /\ refused = [c \in Callers |-> NoToken]
    /\ raced = [c \in Callers |-> FALSE]

Goto(c, label) == pc' = [pc EXCEPT ![c] = label]

\* With a cookie the page is read anyway, and autoBL makes no difference.
Begin(c) ==
    /\ pc[c] = "idle"
    /\ \E k \in Keys, auto \in BOOLEAN :
          /\ k \in SignedIn => ~ auto
          /\ key' = [key EXCEPT ![c] = k]
          /\ autoBL' = [autoBL EXCEPT ![c] = auto]
    /\ Goto(c, "resolve")
    /\ UNCHANGED <<entries, issued, attempt, xsrfRetried, xsrf, emitted, history>>

\* Generate has returned.
Leave(c) ==
    /\ pc[c] = "done"
    /\ Goto(c, "idle")
    /\ autoBL' = [autoBL EXCEPT ![c] = FALSE]
    /\ attempt' = [attempt EXCEPT ![c] = 0]
    /\ xsrfRetried' = [xsrfRetried EXCEPT ![c] = FALSE]
    /\ xsrf' = [xsrf EXCEPT ![c] = NoToken]
    /\ emitted' = [emitted EXCEPT ![c] = FALSE]
    /\ sends' = [sends EXCEPT ![c] = 0]
    /\ late' = [late EXCEPT ![c] = 0]
    /\ refused' = [refused EXCEPT ![c] = NoToken]
    /\ raced' = [raced EXCEPT ![c] = FALSE]
    /\ UNCHANGED <<entries, issued, key>>

\* Resolve: an entry that can be used.
Hit(k) == entries[k].fresh /\ (k \in SignedIn => entries[k].xsrf # NoToken)

\* Resolve up to the unlock: nothing to look up, a hit, or a page to fetch.
Resolve(c) ==
    /\ pc[c] = "resolve"
    /\ \/ /\ key[c] \notin SignedIn /\ ~ autoBL[c]
          /\ xsrf' = [xsrf EXCEPT ![c] = NoToken]
          /\ Goto(c, "send")
       \/ /\ key[c] \in SignedIn \/ autoBL[c]
          /\ Hit(key[c])
          /\ xsrf' = [xsrf EXCEPT ![c] = entries[key[c]].xsrf]
          /\ Goto(c, "send")
       \/ /\ key[c] \in SignedIn \/ autoBL[c]
          /\ ~ Hit(key[c])
          /\ Goto(c, "fetch")
          /\ UNCHANGED xsrf
    /\ UNCHANGED <<entries, issued, call, attempt, xsrfRetried, emitted, history>>

\* The page cannot be had, or not be read: fatal, but for an anonymous call
\* that was refused before the body.
FetchFails(c) ==
    /\ pc[c] = "fetch"
    /\ \/ /\ Goto(c, "done")
          /\ UNCHANGED xsrf
       \/ /\ key[c] \notin SignedIn
          /\ xsrf' = [xsrf EXCEPT ![c] = NoToken]
          /\ Goto(c, "send")
    /\ UNCHANGED <<entries, issued, call, attempt, xsrfRetried, emitted, history>>

\* The page arrives, with the current token or with none.
FetchPage(c) ==
    /\ pc[c] = "fetch"
    /\ \E x \in {issued, NoToken} : xsrf' = [xsrf EXCEPT ![c] = x]
    /\ Goto(c, "store")
    /\ UNCHANGED <<entries, issued, call, attempt, xsrfRetried, emitted, history>>

\* A slip: any page will do.
AcceptsAnyPage(c) == TRUE

\* A cookie that yields no token is not accepted.
AcceptsPage(c) == key[c] \in SignedIn => xsrf[c] # NoToken

\* Resolve from the page on.
StorePage(c) ==
    /\ pc[c] = "store"
    /\ \/ /\ ~ AcceptsPage(c)
          /\ Goto(c, "done")
          /\ UNCHANGED entries
       \/ /\ AcceptsPage(c)
          /\ entries' = [entries EXCEPT ![key[c]] = Page(xsrf[c])]
          /\ Goto(c, "send")
    /\ UNCHANGED <<issued, call, attempt, xsrfRetried, xsrf, emitted, history>>

MaxSends == RetryAttempts + 2   \* bound: the histories count no further

\* BuildPayload and send.
Send(c) ==
    /\ pc[c] = "send"
    /\ Goto(c, "wire")
    /\ sends' = [sends EXCEPT ![c] = IF @ < MaxSends THEN @ + 1 ELSE @]
    /\ late' = [late EXCEPT ![c] = IF emitted[c] /\ @ < 2 THEN @ + 1 ELSE @]
    /\ UNCHANGED <<entries, issued, call, attempt, xsrfRetried, xsrf, emitted, refused, raced>>

\* scanFrames passes a delta on.
Emit(c) ==
    /\ pc[c] = "wire"
    /\ emitted' = [emitted EXCEPT ![c] = TRUE]
    /\ UNCHANGED <<entries, issued, pc, call, attempt, xsrfRetried, xsrf, history>>

\* 200, with content.
Succeed(c) ==
    /\ pc[c] = "wire"
    /\ Goto(c, "done")
    /\ UNCHANGED <<entries, issued, call, attempt, xsrfRetried, xsrf, emitted, history>>

\* A slip: off by one.
GivesUpLate(c) == emitted[c] \/ attempt[c] >= RetryAttempts

\* A slip: output already passed on does not stop the attempts.
GivesUpIgnoresOutput(c) == attempt[c] + 1 >= RetryAttempts

GivesUp(c) == emitted[c] \/ attempt[c] + 1 >= RetryAttempts

\* A slip: the attempt is not counted.
CountAttemptNot(c) == UNCHANGED attempt

CountAttempt(c) == attempt' = [attempt EXCEPT ![c] = @ + 1]

\* A transport error, a broken stream, another status, or no content.
Fail(c) ==
    /\ pc[c] = "wire"
    /\ \/ /\ GivesUp(c)
          /\ Goto(c, "done")
          /\ UNCHANGED attempt
       \/ /\ ~ GivesUp(c)
          /\ Goto(c, "wait")
          /\ CountAttempt(c)
    /\ UNCHANGED <<entries, issued, call, xsrfRetried, xsrf, emitted, history>>

\* waitRetry: the delay passes, or the caller is gone.
Wait(c) ==
    /\ pc[c] = "wait"
    /\ Goto(c, "resolve") \/ Goto(c, "done")
    /\ UNCHANGED <<entries, issued, call, attempt, xsrfRetried, xsrf, emitted, history>>

\* A slip: the entry stays.
InvalidateNothing(c) == UNCHANGED entries

Invalidate(c) == entries' = [entries EXCEPT ![key[c]] = NoEntry]

\* A slip: every refusal buys another attempt.
MayRetryXsrfAlways(c) == key[c] \in SignedIn

MayRetryXsrf(c) == key[c] \in SignedIn /\ ~ xsrfRetried[c]

Fetching(d) == pc[d] \in {"fetch", "store"}

\* 400 "xsrf" for a token that is no longer the current one: once per call the
\* entry is dropped and the attempt does not count (else it is Fail).
RefuseToken(c) ==
    /\ pc[c] = "wire"
    /\ xsrf[c] # issued
    /\ MayRetryXsrf(c)
    /\ xsrfRetried' = [xsrfRetried EXCEPT ![c] = TRUE]
    /\ Invalidate(c)
    /\ refused' = [refused EXCEPT ![c] = xsrf[c]]
    /\ raced' = [raced EXCEPT ![c] = \E d \in Callers \ {c} : key[d] = key[c] /\ Fetching(d)]
    /\ Goto(c, "resolve")
    /\ UNCHANGED <<issued, call, attempt, xsrf, emitted, sends, late>>

\* Twenty minutes pass.
Expire(k) ==
    /\ entries[k].fresh
    /\ entries' = [entries EXCEPT ![k] = NoEntry]
    /\ UNCHANGED <<issued, pc, call, attempt, xsrfRetried, xsrf, emitted, history>>

\* The upstream issues a new token; external to src/.
Reissue ==
    /\ issued < MaxToken
    /\ issued' = issued + 1
    /\ UNCHANGED <<entries, pc, call, attempt, xsrfRetried, xsrf, emitted, history>>

Proceed(c) ==
    \/ Resolve(c) \/ FetchFails(c) \/ FetchPage(c) \/ StorePage(c)
    \/ Send(c) \/ Succeed(c) \/ Fail(c) \/ Wait(c) \/ RefuseToken(c)

Next ==
    \/ \E c \in Callers : Begin(c) \/ Proceed(c) \/ Emit(c) \/ Leave(c)
    \/ \E k \in Keys : Expire(k)
    \/ Reissue

Spec == Init /\ [][Next]_vars

\* A ready goroutine runs; the page fetch (30 s), the upstream call
\* (Options.Timeout) and the delay between attempts all end.
FairSpec == Spec /\ \A c \in Callers : WF_vars(Proceed(c))

-----------------------------------------------------------------------------
(* Properties *)

TypeOK ==
    /\ entries \in [Keys -> Entry]
    /\ issued \in 1..MaxToken
    /\ pc \in [Callers -> {"idle", "resolve", "fetch", "store", "send", "wire", "wait", "done"}]
    /\ key \in [Callers -> Keys]
    /\ autoBL \in [Callers -> BOOLEAN]
    /\ attempt \in [Callers -> 0..RetryAttempts - 1]
    /\ xsrfRetried \in [Callers -> BOOLEAN]
    /\ xsrf \in [Callers -> Tokens]
    /\ emitted \in [Callers -> BOOLEAN]
    /\ sends \in [Callers -> 0..MaxSends]
    /\ late \in [Callers -> 0..2]
    /\ refused \in [Callers -> Tokens]
    /\ raced \in [Callers -> BOOLEAN]

\* A prompt goes out at most once per configured attempt, and once more after
\* a refused token, however often tokens change (client.go:48, 103).
SendsBounded == \A c \in Callers : sends[c] <= RetryAttempts + 1

\* A signed-in call never reaches the upstream without a token, whichever call
\* filled the cache (tokens.go:46, 87).
SignedInSendsToken ==
    \A c \in Callers : pc[c] = "wire" /\ key[c] \in SignedIn => xsrf[c] # NoToken

\* After a refusal the call never sends the refused token again, unless another
\* call was already fetching the same page at that moment (tokens.go:90, 98).
RefusedTokenReturnsOnlyByRace ==
    \A c \in Callers :
        pc[c] = "wire" /\ xsrfRetried[c] /\ xsrf[c] = refused[c] => raced[c]

\* Once the caller has seen output the prompt goes out again at most once, and
\* only after a refused token (client.go:61, 91, 109).
OneSendAfterOutput ==
    \A c \in Callers : late[c] <= 1 /\ (late[c] = 1 => xsrfRetried[c])

\* Every call returns.
EveryCallEnds == \A c \in Callers : (pc[c] = "resolve") ~> (pc[c] = "done")
=============================================================================
