----------------------------- MODULE TokenCache -----------------------------
(***************************************************************************)
(* The OAuth2 providers of internal/auth/oauth2.go: one cached token, a    *)
(* mutex, and a condition variable on which callers wait while one of them *)
(* fetches.  OAuth2ClientCredentialsProvider and OAuth2ResourceOwner-      *)
(* Provider have the same Token method; this module stands for both.       *)
(*                                                                         *)
(* The mutex is never held across a fetch, and everything done under it is *)
(* one action here.  Time is counted in ticks; a token is the pair of the  *)
(* time at which the server issued it and its lifetime (expires_in).       *)
(***************************************************************************)
EXTENDS Integers

CONSTANTS Callers,    \* the goroutines that call Token
          Lifetimes,  \* the values of expires_in a server may answer
          Leeway,     \* refreshBeforeExpiry
          Timeout,    \* longest time an answer may take (httpClient.Timeout)
          MaxTime,    \* bound: ticks of the clock
          MaxCalls    \* bound: calls of Token each caller makes

ASSUME LifetimesAssumption == Lifetimes \subseteq Nat
ASSUME TimesAssumption == Leeway \in Nat /\ Timeout \in Nat /\ MaxTime \in Nat
ASSUME CallsAssumption == MaxCalls \in Nat

VARIABLES
    now,              \* time.Now()
    cachedToken,      \* NoToken, or the token last fetched
    tokenExpiry,      \* when the cache stops handing it out
    fetchInProgress,  \* the flag the condition variable is about
    pc,               \* each caller: "idle", "enter", "waiting", "woken",
                      \* "fetching", "answered"
    answer,           \* what fetchToken returned to a caller; NoToken when it is not fetching
    got,              \* the last token that Token returned to a caller
    calls             \* the calls a caller has begun

vars == <<now, cachedToken, tokenExpiry, fetchInProgress, pc, answer, got, calls>>

Token   == [issued : 0 .. MaxTime, life : Lifetimes]
NoToken == [issued |-> -1, life |-> 0]  \* cachedToken = ""
Failure == [issued |-> -1, life |-> 1]  \* err # nil

Init ==
    /\ now = 0
    /\ cachedToken = NoToken
    /\ tokenExpiry = 0
    /\ fetchInProgress = FALSE
    /\ pc = [c \in Callers |-> "idle"]
    /\ answer = [c \in Callers |-> NoToken]
    /\ got = [c \in Callers |-> NoToken]
    /\ calls = [c \in Callers |-> 0]

\* The test made before waiting and after every wake-up.
Valid == cachedToken # NoToken /\ now < tokenExpiry

Call(c) ==
    /\ pc[c] = "idle"
    /\ calls[c] < MaxCalls
    /\ calls' = [calls EXCEPT ![c] = @ + 1]
    /\ pc' = [pc EXCEPT ![c] = "enter"]
    /\ UNCHANGED <<now, cachedToken, tokenExpiry, fetchInProgress, answer, got>>

ReturnCached(c) ==
    /\ Valid
    /\ got' = [got EXCEPT ![c] = cachedToken]
    /\ pc' = [pc EXCEPT ![c] = "idle"]
    /\ UNCHANGED fetchInProgress

\* Cond.Wait: the caller joins the waiters as it releases the mutex.
JoinWaiters(c) ==
    /\ ~Valid
    /\ fetchInProgress
    /\ pc' = [pc EXCEPT ![c] = "waiting"]
    /\ UNCHANGED <<fetchInProgress, got>>

StartFetch(c) ==
    /\ ~Valid
    /\ ~fetchInProgress
    /\ fetchInProgress' = TRUE
    /\ pc' = [pc EXCEPT ![c] = "fetching"]
    /\ UNCHANGED got

\* Token up to the point where it releases the mutex.
Enter(c) ==
    /\ pc[c] = "enter"
    /\ ReturnCached(c) \/ JoinWaiters(c) \/ StartFetch(c)
    /\ UNCHANGED <<now, cachedToken, tokenExpiry, answer, calls>>

\* Bug: "if" for "for": a woken caller fetches without looking at the flag again.
MutRecheck(c) ==
    /\ pc[c] = "woken"
    /\ \/ ReturnCached(c)
       \/ /\ ~Valid
          /\ fetchInProgress' = TRUE
          /\ pc' = [pc EXCEPT ![c] = "fetching"]
          /\ UNCHANGED got
    /\ UNCHANGED <<now, cachedToken, tokenExpiry, answer, calls>>

\* The rest of the loop around Cond.Wait, for a caller that was woken.
Recheck(c) ==
    /\ pc[c] = "woken"
    /\ ReturnCached(c) \/ JoinWaiters(c) \/ StartFetch(c)
    /\ UNCHANGED <<now, cachedToken, tokenExpiry, answer, calls>>

\* fetchToken: the server issues a token now, or the request fails (connection,
\* status, body, an "error" field, no access_token, the caller's context).
ServerIssues(c) ==
    /\ pc[c] = "fetching"
    /\ \E life \in Lifetimes :
          answer' = [answer EXCEPT ![c] = [issued |-> now, life |-> life]]
    /\ pc' = [pc EXCEPT ![c] = "answered"]
    /\ UNCHANGED <<now, cachedToken, tokenExpiry, fetchInProgress, got, calls>>

FetchFails(c) ==
    /\ pc[c] = "fetching"
    /\ answer' = [answer EXCEPT ![c] = Failure]
    /\ pc' = [pc EXCEPT ![c] = "answered"]
    /\ UNCHANGED <<now, cachedToken, tokenExpiry, fetchInProgress, got, calls>>

\* Cond.Broadcast, and the return of the caller that fetched.
WakeAll(c) ==
    pc' = [d \in Callers |-> IF d = c THEN "idle"
                             ELSE IF pc[d] = "waiting" THEN "woken" ELSE pc[d]]

\* Bug: on an error the waiters are not woken.
MutFinishNoBroadcast(c) ==
    /\ pc[c] = "answered"
    /\ fetchInProgress' = FALSE
    /\ \/ /\ answer[c] = Failure
          /\ pc' = [pc EXCEPT ![c] = "idle"]
          /\ UNCHANGED <<cachedToken, tokenExpiry, got>>
       \/ /\ answer[c] # Failure
          /\ got' = [got EXCEPT ![c] = answer[c]]
          /\ WakeAll(c)
          /\ cachedToken' = answer[c]
          /\ tokenExpiry' = now + answer[c].life - Leeway
    /\ answer' = [answer EXCEPT ![c] = NoToken]
    /\ UNCHANGED <<now, calls>>

\* Bug: the refresh window is added to the lifetime.
MutFinishLateExpiry(c) ==
    /\ pc[c] = "answered"
    /\ fetchInProgress' = FALSE
    /\ WakeAll(c)
    /\ \/ /\ answer[c] = Failure
          /\ UNCHANGED <<cachedToken, tokenExpiry, got>>
       \/ /\ answer[c] # Failure
          /\ got' = [got EXCEPT ![c] = answer[c]]
          /\ cachedToken' = answer[c]
          /\ tokenExpiry' = now + answer[c].life
    /\ answer' = [answer EXCEPT ![c] = NoToken]
    /\ UNCHANGED <<now, calls>>

\* Bug: what fetchToken returned is cached without a look at its error.
MutFinishCachesFailure(c) ==
    /\ pc[c] = "answered"
    /\ fetchInProgress' = FALSE
    /\ WakeAll(c)
    /\ cachedToken' = answer[c]
    /\ tokenExpiry' = now + answer[c].life - Leeway
    /\ got' = [got EXCEPT ![c] = answer[c]]
    /\ answer' = [answer EXCEPT ![c] = NoToken]
    /\ UNCHANGED <<now, calls>>

\* Token after the fetch.  The clock is read when the answer is cached.
Finish(c) ==
    /\ pc[c] = "answered"
    /\ fetchInProgress' = FALSE
    /\ WakeAll(c)
    /\ \/ /\ answer[c] = Failure
          /\ UNCHANGED <<cachedToken, tokenExpiry, got>>
       \/ /\ answer[c] # Failure
          /\ got' = [got EXCEPT ![c] = answer[c]]
          /\ cachedToken' = answer[c]
          /\ tokenExpiry' = now + answer[c].life - Leeway
    /\ answer' = [answer EXCEPT ![c] = NoToken]
    /\ UNCHANGED <<now, calls>>

\* An answer that is on its way longer than Timeout would have failed instead.
Tick ==
    /\ now < MaxTime
    /\ \A c \in Callers :
          pc[c] = "answered" /\ answer[c] # Failure => now < answer[c].issued + Timeout
    /\ now' = now + 1
    /\ UNCHANGED <<cachedToken, tokenExpiry, fetchInProgress, pc, answer, got, calls>>

Caller(c) == Enter(c) \/ Recheck(c) \/ ServerIssues(c) \/ FetchFails(c) \/ Finish(c)

\* Every caller has made its calls: nothing more need happen.
Finished ==
    /\ \A c \in Callers : pc[c] = "idle" /\ calls[c] = MaxCalls
    /\ UNCHANGED vars

Next ==
    \/ \E c \in Callers : Call(c) \/ Caller(c)
    \/ Tick
    \/ Finished

\* The mutex is fair and a fetch ends: http.Client has a timeout.
Spec == Init /\ [][Next]_vars /\ \A c \in Callers : WF_vars(Caller(c))

-----------------------------------------------------------------------------
(* Properties.                                                             *)

TypeOK ==
    /\ now \in 0 .. MaxTime
    /\ cachedToken \in Token \cup {NoToken}
    /\ tokenExpiry \in Int
    /\ fetchInProgress \in BOOLEAN
    /\ pc \in [Callers -> {"idle", "enter", "waiting", "woken", "fetching", "answered"}]
    /\ answer \in [Callers -> Token \cup {NoToken, Failure}]
    /\ got \in [Callers -> Token \cup {NoToken}]
    /\ calls \in [Callers -> 0 .. MaxCalls]

Fetching(c) == pc[c] \in {"fetching", "answered"}

\* At most one token request is outstanding, and the flag says so exactly
\* (oauth2.go:97-104): a burst of workers never floods the token endpoint.
SingleFetch ==
    /\ \A c, d \in Callers : Fetching(c) /\ Fetching(d) => c = d
    /\ fetchInProgress <=> \E c \in Callers : Fetching(c)

\* Nobody waits for a broadcast that no caller is going to make (oauth2.go:86-105).
NoLostWakeup == (\E c \in Callers : pc[c] = "waiting") => fetchInProgress

\* Where the refresh window is at least the time an answer may take, a token the
\* cache hands out has not expired at the server (oauth2.go:79, 89, 114).
HandedOutLive ==
    Leeway >= Timeout /\ Valid => now < cachedToken.issued + cachedToken.life

\* A caller's tokens never go back in time: nobody is given a token older than
\* one it has had, although answers and wake-ups are handled in any order.
NeverGoesBack ==
    [][\A c \in Callers : got[c].issued <= got'[c].issued]_vars

\* Every call of Token returns.
CallsReturn == \A c \in Callers : pc[c] = "enter" ~> pc[c] = "idle"
=============================================================================
