-------------------------- MODULE TokenCache_proofs --------------------------
(***************************************************************************)
(* For any number of callers, any lifetimes, leeway and bounds: one fetch  *)
(* at a time, no lost wake-up, no expired token from the cache, and no     *)
(* caller whose tokens go back in time.                                    *)
(***************************************************************************)
EXTENDS TokenCache, TLAPS

\* The age of an answer on its way, and of everything handed out before it.
AnswerInv ==
    \A c \in Callers : pc[c] = "answered" /\ answer[c] # Failure =>
        /\ answer[c] \in Token
        /\ answer[c].issued <= now
        /\ now <= answer[c].issued + Timeout
        /\ cachedToken.issued <= answer[c].issued

CacheInv ==
    /\ cachedToken.issued <= now
    /\ Leeway >= Timeout /\ cachedToken # NoToken =>
           tokenExpiry <= cachedToken.issued + cachedToken.life
    /\ \A c \in Callers : got[c].issued <= cachedToken.issued

IInv == TypeOK /\ SingleFetch /\ NoLostWakeup /\ AnswerInv /\ CacheInv

-----------------------------------------------------------------------------
LEMMA TokenFields ==
    /\ \A t \in Token : t.issued \in 0 .. MaxTime /\ t.issued \in Nat /\ t.life \in Nat
    /\ NoToken.issued = -1 /\ Failure.issued = -1
    /\ NoToken \notin Token /\ Failure \notin Token /\ NoToken # Failure
<1>1. \A t \in Token : t.issued \in 0 .. MaxTime /\ t.issued \in Nat /\ t.life \in Nat
  <2> TAKE t \in Token
  <2>1. t.issued \in 0 .. MaxTime /\ t.life \in Lifetimes
    BY DEF Token
  <2>2. (\A i \in 0 .. MaxTime : i \in Nat) /\ (\A l \in Lifetimes : l \in Nat)
    BY LifetimesAssumption, TimesAssumption
  <2> QED
    BY <2>1, <2>2, Zenon
<1>2. NoToken.issued = -1 /\ Failure.issued = -1 /\ NoToken.life = 0 /\ Failure.life = 1
  BY DEF NoToken, Failure
<1> QED
  BY <1>1, <1>2

LEMMA InitInv == Init => IInv
<1> SUFFICES ASSUME Init PROVE IInv
  OBVIOUS
<1>1. TypeOK
  <2>1. 0 \in 0 .. MaxTime /\ 0 \in 0 .. MaxCalls
    BY TimesAssumption, CallsAssumption
  <2>2. now \in 0 .. MaxTime /\ calls \in [Callers -> 0 .. MaxCalls]
    BY <2>1 DEF Init
  <2>3. /\ pc \in [Callers -> {"idle", "enter", "waiting", "woken", "fetching", "answered"}]
        /\ answer \in [Callers -> Token \cup {NoToken, Failure}]
        /\ got \in [Callers -> Token \cup {NoToken}]
    BY DEF Init
  <2>4. cachedToken \in Token \cup {NoToken} /\ fetchInProgress \in BOOLEAN
    BY Zenon DEF Init
  <2>5. tokenExpiry \in Int
    BY DEF Init
  <2> QED
    BY <2>2, <2>3, <2>4, <2>5 DEF TypeOK
<1>2. SingleFetch /\ NoLostWakeup
  BY DEF Init, SingleFetch, NoLostWakeup, Fetching
<1>3. AnswerInv
  BY DEF Init, AnswerInv
<1>4. CacheInv
  BY TokenFields DEF Init, CacheInv
<1> QED
  BY <1>1, <1>2, <1>3, <1>4 DEF IInv

\* What the three ways out of Enter and Recheck have in common.
LEMMA DecideStep ==
    ASSUME IInv, NEW c \in Callers, pc[c] \in {"enter", "woken"},
           ReturnCached(c) \/ JoinWaiters(c) \/ StartFetch(c),
           UNCHANGED <<now, cachedToken, tokenExpiry, answer, calls>>
    PROVE  IInv'
<1> USE DEF IInv
<1>1. CASE ReturnCached(c)
  <2>1. TypeOK'
    BY <1>1 DEF ReturnCached, Valid, TypeOK
  <2>2. SingleFetch' /\ NoLostWakeup'
    BY <1>1 DEF ReturnCached, SingleFetch, NoLostWakeup, Fetching, TypeOK
  <2>3. AnswerInv'
    BY <1>1 DEF ReturnCached, AnswerInv, TypeOK
  <2>4. CacheInv'
    <3>1. cachedToken.issued <= cachedToken.issued
      BY <1>1, TokenFields DEF ReturnCached, Valid, TypeOK
    <3> QED
      BY <1>1, <3>1 DEF ReturnCached, CacheInv, TypeOK
  <2> QED
    BY <2>1, <2>2, <2>3, <2>4
<1>2. CASE JoinWaiters(c)
  <2>1. TypeOK'
    BY <1>2 DEF JoinWaiters, TypeOK
  <2>2. SingleFetch' /\ NoLostWakeup'
    BY <1>2 DEF JoinWaiters, SingleFetch, NoLostWakeup, Fetching, TypeOK
  <2>3. AnswerInv' /\ CacheInv'
    BY <1>2 DEF JoinWaiters, AnswerInv, CacheInv, TypeOK
  <2> QED
    BY <2>1, <2>2, <2>3
<1>3. CASE StartFetch(c)
  <2>1. TypeOK'
    BY <1>3 DEF StartFetch, TypeOK
  <2>2. SingleFetch' /\ NoLostWakeup'
    BY <1>3 DEF StartFetch, SingleFetch, NoLostWakeup, Fetching, TypeOK
  <2>3. AnswerInv' /\ CacheInv'
    BY <1>3 DEF StartFetch, AnswerInv, CacheInv, TypeOK
  <2> QED
    BY <2>1, <2>2, <2>3
<1> QED
  BY <1>1, <1>2, <1>3

LEMMA FetchStep ==
    ASSUME IInv, NEW c \in Callers, ServerIssues(c) \/ FetchFails(c)
    PROVE  IInv'
<1> USE DEF IInv
<1>1. PICK t \in Token \cup {Failure} :
        /\ answer' = [answer EXCEPT ![c] = t]
        /\ t # Failure => t.issued = now
  <2>1. \A life \in Lifetimes : [issued |-> now, life |-> life] \in Token
    BY DEF Token, TypeOK
  <2> QED
    BY <2>1 DEF ServerIssues, FetchFails
<1>2. /\ pc[c] = "fetching"
      /\ pc' = [pc EXCEPT ![c] = "answered"]
      /\ UNCHANGED <<now, cachedToken, tokenExpiry, fetchInProgress, got, calls>>
  BY DEF ServerIssues, FetchFails
<1>3. TypeOK'
  BY <1>1, <1>2 DEF TypeOK
<1>4. SingleFetch' /\ NoLostWakeup'
  BY <1>2 DEF SingleFetch, NoLostWakeup, Fetching, TypeOK
<1>5. AnswerInv'
  <2> SUFFICES ASSUME NEW d \in Callers, pc'[d] = "answered", answer'[d] # Failure
               PROVE  /\ answer'[d] \in Token
                      /\ answer'[d].issued <= now'
                      /\ now' <= answer'[d].issued + Timeout
                      /\ cachedToken'.issued <= answer'[d].issued
    BY DEF AnswerInv
  <2>1. CASE d = c
    <3>1. answer'[d] = t /\ t \in Token /\ t.issued = now /\ now' = now
      BY <1>1, <1>2, <2>1 DEF TypeOK
    <3>2. now \in Nat /\ now <= now + Timeout
      BY TimesAssumption DEF TypeOK
    <3> QED
      BY <1>2, <3>1, <3>2, TokenFields DEF CacheInv
  <2>2. CASE d # c
    BY <1>1, <1>2, <2>2 DEF AnswerInv, TypeOK
  <2> QED
    BY <2>1, <2>2
<1>6. CacheInv'
  BY <1>2 DEF CacheInv
<1> QED
  BY <1>3, <1>4, <1>5, <1>6

LEMMA FinishStep ==
    ASSUME IInv, NEW c \in Callers, Finish(c)
    PROVE  IInv'
<1> USE DEF IInv
<1>1. /\ pc[c] = "answered"
      /\ ~fetchInProgress'
      /\ now' = now /\ calls' = calls
      /\ answer' = [answer EXCEPT ![c] = NoToken]
  BY DEF Finish
<1>2. pc' = [d \in Callers |-> IF d = c THEN "idle"
                               ELSE IF pc[d] = "waiting" THEN "woken" ELSE pc[d]]
  BY DEF Finish, WakeAll
<1>3. \A d \in Callers : d # c => ~Fetching(d)
  BY <1>1 DEF SingleFetch, Fetching
<1>4. \A d \in Callers : ~Fetching(d)' /\ pc'[d] # "waiting"
  BY <1>1, <1>2, <1>3 DEF Fetching
<1>5. SingleFetch' /\ NoLostWakeup'
  BY <1>1, <1>4 DEF SingleFetch, NoLostWakeup
<1>6. AnswerInv'
  BY <1>4 DEF AnswerInv, Fetching
<1>7. pc' \in [Callers -> {"idle", "enter", "waiting", "woken", "fetching", "answered"}]
      /\ answer' \in [Callers -> Token \cup {NoToken, Failure}]
  BY <1>1, <1>2 DEF TypeOK
<1>8. CASE answer[c] = Failure
  <2>1. UNCHANGED <<cachedToken, tokenExpiry, got>>
    BY <1>8 DEF Finish
  <2>2. TypeOK'
    <3>1. calls' \in [Callers -> 0 .. MaxCalls] /\ now' \in 0 .. MaxTime
      BY <1>1 DEF TypeOK
    <3>2. fetchInProgress' \in BOOLEAN
      BY DEF Finish
    <3> QED
      BY <1>7, <2>1, <3>1, <3>2 DEF TypeOK
  <2>3. CacheInv'
    BY <1>1, <2>1 DEF CacheInv
  <2> QED
    BY <1>5, <1>6, <2>2, <2>3
<1>9. CASE answer[c] # Failure
  <2>1. /\ got' = [got EXCEPT ![c] = answer[c]]
        /\ cachedToken' = answer[c]
        /\ tokenExpiry' = now + answer[c].life - Leeway
    BY <1>9 DEF Finish
  <2>2. /\ answer[c] \in Token
        /\ answer[c].issued \in Nat /\ answer[c].life \in Nat
        /\ answer[c].issued <= now /\ now <= answer[c].issued + Timeout
        /\ cachedToken.issued <= answer[c].issued
    BY <1>1, <1>9, TokenFields DEF AnswerInv
  <2>3. TypeOK'
    <3>1. tokenExpiry' \in Int /\ cachedToken' \in Token
      BY <2>1, <2>2, TimesAssumption DEF TypeOK
    <3>2. got' \in [Callers -> Token \cup {NoToken}]
      BY <2>1, <2>2 DEF TypeOK
    <3>3. calls' \in [Callers -> 0 .. MaxCalls] /\ now' \in 0 .. MaxTime
      BY <1>1 DEF TypeOK
    <3>4. fetchInProgress' \in BOOLEAN
      BY DEF Finish
    <3> QED
      BY <1>7, <3>1, <3>2, <3>3, <3>4 DEF TypeOK
  <2>4. Leeway >= Timeout => tokenExpiry' <= cachedToken'.issued + cachedToken'.life
    BY <2>1, <2>2, TimesAssumption DEF TypeOK
  <2>5. \A d \in Callers : got'[d].issued <= cachedToken'.issued
    <3> TAKE d \in Callers
    <3>1. got[d].issued \in Int /\ cachedToken.issued \in Int
      BY TokenFields DEF TypeOK
    <3>2. got[d].issued <= cachedToken.issued
      BY DEF CacheInv
    <3> QED
      BY <2>1, <2>2, <3>1, <3>2 DEF TypeOK
  <2>6. CacheInv'
    BY <1>1, <2>1, <2>2, <2>4, <2>5 DEF CacheInv
  <2> QED
    BY <1>5, <1>6, <2>3, <2>6
<1> QED
  BY <1>8, <1>9

LEMMA TickStep ==
    ASSUME IInv, Tick
    PROVE  IInv'
<1> USE DEF IInv
<1>1. /\ now \in Nat /\ now' = now + 1 /\ now' \in 0 .. MaxTime
      /\ UNCHANGED <<cachedToken, tokenExpiry, fetchInProgress, pc, answer, got, calls>>
  BY TimesAssumption DEF Tick, TypeOK
<1>2. TypeOK'
  BY <1>1 DEF TypeOK
<1>3. SingleFetch' /\ NoLostWakeup'
  BY <1>1 DEF SingleFetch, NoLostWakeup, Fetching
<1>4. AnswerInv'
  <2> SUFFICES ASSUME NEW d \in Callers, pc[d] = "answered", answer[d] # Failure
               PROVE  /\ answer[d] \in Token
                      /\ answer[d].issued <= now + 1
                      /\ now + 1 <= answer[d].issued + Timeout
                      /\ cachedToken.issued <= answer[d].issued
    BY <1>1 DEF AnswerInv
  <2>1. /\ answer[d] \in Token /\ answer[d].issued <= now
        /\ cachedToken.issued <= answer[d].issued
        /\ now < answer[d].issued + Timeout
    BY DEF AnswerInv, Tick
  <2> QED
    BY <1>1, <2>1, TokenFields, TimesAssumption
<1>5. CacheInv'
  <2>1. cachedToken.issued \in Int /\ cachedToken.issued <= now
    BY TokenFields DEF TypeOK, CacheInv
  <2>2. cachedToken.issued <= now + 1
    BY <1>1, <2>1
  <2> QED
    BY <1>1, <2>2 DEF CacheInv
<1> QED
  BY <1>2, <1>3, <1>4, <1>5

LEMMA NextStep ==
    ASSUME IInv, [Next]_vars
    PROVE  IInv'
<1>1. ASSUME NEW c \in Callers, Call(c)
      PROVE  IInv'
  <2> USE <1>1 DEF IInv
  <2>1. TypeOK'
    BY CallsAssumption DEF Call, TypeOK
  <2>2. SingleFetch' /\ NoLostWakeup'
    BY DEF Call, SingleFetch, NoLostWakeup, Fetching, TypeOK
  <2>3. AnswerInv' /\ CacheInv'
    BY DEF Call, AnswerInv, CacheInv, TypeOK
  <2> QED
    BY <2>1, <2>2, <2>3
<1>2. ASSUME NEW c \in Callers, Enter(c) \/ Recheck(c)
      PROVE  IInv'
  BY <1>2, DecideStep DEF Enter, Recheck
<1>3. CASE Finished \/ UNCHANGED vars
  BY <1>3 DEF Finished, vars, IInv, TypeOK, SingleFetch, NoLostWakeup, Fetching,
              AnswerInv, CacheInv
<1> QED
  BY <1>1, <1>2, <1>3, FetchStep, FinishStep, TickStep DEF Next, Caller

\* The inductive invariant.
THEOREM Invariance == Spec => []IInv
BY InitInv, NextStep, PTL DEF Spec

-----------------------------------------------------------------------------
\* Every variable keeps its type.
THEOREM TypeCorrect == Spec => []TypeOK
<1>1. IInv => TypeOK
  BY DEF IInv
<1> QED
  BY Invariance, <1>1, PTL

\* At most one token request is outstanding, and fetchInProgress says so exactly.
THEOREM OneFetch == Spec => []SingleFetch
<1>1. IInv => SingleFetch
  BY DEF IInv
<1> QED
  BY Invariance, <1>1, PTL

\* Whoever waits on the condition variable will be woken by a caller in flight.
THEOREM WaitersHaveAFetcher == Spec => []NoLostWakeup
<1>1. IInv => NoLostWakeup
  BY DEF IInv
<1> QED
  BY Invariance, <1>1, PTL

\* A token from the cache is live at the server, if the refresh window covers the
\* time an answer may take.
THEOREM CacheHandsOutLive == Spec => []HandedOutLive
<1>1. IInv => HandedOutLive
  <2> SUFFICES ASSUME IInv, Leeway >= Timeout, Valid
               PROVE  now < cachedToken.issued + cachedToken.life
    BY DEF HandedOutLive
  <2>1. /\ now \in Int /\ tokenExpiry \in Int /\ cachedToken \in Token
        /\ now < tokenExpiry /\ tokenExpiry <= cachedToken.issued + cachedToken.life
    BY DEF IInv, Valid, CacheInv, TypeOK
  <2> QED
    BY <2>1, TokenFields
<1> QED
  BY Invariance, <1>1, PTL

\* No caller is ever given a token older than one it has had.
THEOREM TokensNeverGoBack == Spec => NeverGoesBack
<1>1. ASSUME IInv, IInv', [Next]_vars, NEW c \in Callers
      PROVE  got[c].issued <= got'[c].issued
  <2>1. got[c].issued \in Int /\ cachedToken.issued \in Int /\ got[c].issued <= cachedToken.issued
    BY <1>1, TokenFields DEF IInv, TypeOK, CacheInv
  <2>2. got'[c] = got[c] \/ got'[c] = cachedToken \/ got'[c] = cachedToken'
    BY <1>1 DEF Next, Call, Caller, Enter, Recheck, ReturnCached, JoinWaiters,
                StartFetch, ServerIssues, FetchFails, Finish, Tick, Finished, vars,
                IInv, TypeOK
  <2>3. cachedToken.issued <= cachedToken'.issued /\ cachedToken'.issued \in Int
    <3>1. CASE \E d \in Callers : Finish(d)
      BY <1>1, <3>1, <2>1, TokenFields DEF Finish, IInv, AnswerInv
    <3>2. CASE ~\E d \in Callers : Finish(d)
      <4>1. cachedToken' = cachedToken
        BY <1>1, <3>2 DEF Next, Call, Caller, Enter, Recheck, ServerIssues,
                          FetchFails, Tick, Finished, vars
      <4> QED
        BY <2>1, <4>1
    <3> QED
      BY <3>1, <3>2
  <2> QED
    BY <2>1, <2>2, <2>3
<1>2. IInv /\ IInv' /\ [Next]_vars =>
        \A c \in Callers : got[c].issued <= got'[c].issued
  BY <1>1
<1> QED
  BY Invariance, <1>2, PTL DEF Spec, NeverGoesBack
=============================================================================
