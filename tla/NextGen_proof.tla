--------------------------- MODULE NextGen_proof ---------------------------
(* Theorems about NextGenClient, for every finite set of callers, every      *)
(* number of slots and every threshold.  The lemmas are about an assignment  *)
(* f of states to callers, a count a of slots and a queue q, so that the two *)
(* updates of a release (the caller that got its reply, then the first       *)
(* waiter) can be taken one after the other.                                 *)
EXTENDS NextGenClient, MPOCache, FiniteSetTheorems, TLAPS

CallState == [at : {"idle", "ask", "page", "credentials", "testLogin", "testWait"},
              kind : Kinds, asked : BOOLEAN,
              stage : {"ready", "waiting", "granted", "sent"},
              cookie : Servers \cup {None}]
Calls == [Callers -> CallState]

\* Only a request is ever out of the stage "ready".
Asking(t) == t.at \in {"ask", "page", "credentials"} \/ t.stage = "ready"

At(f, s) == {c \in Callers : f[c].stage = s}
Size(f, s) == Cardinality(At(f, s))

\* The queue holds the callers that wait, each of them once.
Queued(f, q) ==
  /\ \A c \in Callers : f[c].stage = "waiting" <=> \E i \in 1..Len(q) : q[i] = c
  /\ \A i, j \in 1..Len(q) : q[i] = q[j] => i = j

\* The slots are those of the requests out, and nobody waits beside a free one.
SlotsExact(f, a, q) ==
  /\ a = Size(f, "sent")
  /\ q \in Seq(Callers) /\ Queued(f, q)
  /\ q # <<>> => a + Size(f, "granted") >= MaxConcurrent

CallsTyped == call \in Calls /\ \A c \in Callers : Asking(call[c])
BreakerTyped == failures \in 0..FailureThreshold /\ cooldown \in BOOLEAN
SessionTyped ==
  /\ sessionCookie \in Servers \cup {None} /\ cookieOld \in BOOLEAN
  /\ (cookieOld => sessionCookie # None)
  /\ loginInProgress \in BOOLEAN

ClientInv ==
  /\ CallsTyped /\ BreakerTyped /\ SessionTyped
  /\ SlotsExact(call, activeRequests, requestWaiters)

-----------------------------------------------------------------------------
(* Counting callers by stage *)

\* The size of a stage is a number that never exceeds the number of callers.
LEMMA SizeBounded ==
  ASSUME NEW f, NEW s
  PROVE  /\ IsFiniteSet(At(f, s)) /\ Size(f, s) \in Nat
         /\ Size(f, s) <= Cardinality(Callers) /\ Cardinality(Callers) \in Nat
<1>1. At(f, s) \subseteq Callers
  BY DEF At
<1>2. QED
  BY <1>1, ClientAssumption, FS_Subset, FS_CardinalityType DEF Size

\* How many callers are in stage s once caller c has moved to state u.
LEMMA SizeMoved ==
  ASSUME NEW f \in Calls, NEW c \in Callers, NEW u \in CallState, NEW s
  PROVE  LET g == [f EXCEPT ![c] = u]
         IN  /\ (f[c].stage = s <=> u.stage = s) => Size(g, s) = Size(f, s)
             /\ f[c].stage # s /\ u.stage = s => Size(g, s) = Size(f, s) + 1
             /\ f[c].stage = s /\ u.stage # s => Size(g, s) = Size(f, s) - 1
<1> DEFINE g == [f EXCEPT ![c] = u]
<1>1. IsFiniteSet(At(f, s)) /\ (c \in At(f, s) <=> f[c].stage = s)
  BY SizeBounded DEF At
<1>2. /\ u.stage = s => At(g, s) = At(f, s) \cup {c}
      /\ u.stage # s => At(g, s) = At(f, s) \ {c}
  <2>1. \A d \in Callers : g[d].stage = IF d = c THEN u.stage ELSE f[d].stage
    BY DEF Calls
  <2> HIDE DEF g
  <2>2. QED BY <2>1 DEF At
<1> HIDE DEF g
<1>3. ASSUME f[c].stage = s <=> u.stage = s PROVE Size(g, s) = Size(f, s)
  <2>1. At(g, s) = At(f, s)
    BY <1>1, <1>2, <1>3
  <2>2. QED BY <2>1 DEF Size
<1>4. ASSUME f[c].stage # s, u.stage = s PROVE Size(g, s) = Size(f, s) + 1
  BY <1>1, <1>2, <1>4, FS_AddElement DEF Size
<1>5. ASSUME f[c].stage = s, u.stage # s PROVE Size(g, s) = Size(f, s) - 1
  BY <1>1, <1>2, <1>5, FS_RemoveElement DEF Size
<1>6. QED
  BY <1>3, <1>4, <1>5 DEF g

-----------------------------------------------------------------------------
(* The steps of a request, on f, a and q *)

\* A caller that stays clear of the queue and of the slots changes neither.
LEMMA StaysClear ==
  ASSUME NEW f \in Calls, NEW c \in Callers, NEW u \in CallState, NEW a, NEW q,
         SlotsExact(f, a, q), f[c].stage = u.stage
  PROVE  SlotsExact([f EXCEPT ![c] = u], a, q)
<1> DEFINE g == [f EXCEPT ![c] = u]
<1>1. \A d \in Callers : g[d].stage = f[d].stage
  BY DEF Calls
<1>2. Size(g, "sent") = Size(f, "sent") /\ Size(g, "granted") = Size(f, "granted")
  BY SizeMoved
<1> HIDE DEF g
<1>3. Queued(g, q)
  BY <1>1 DEF Queued, SlotsExact
<1>4. QED
  BY <1>2, <1>3 DEF SlotsExact, g

\* acquireRequestSlot with a free slot.
LEMMA TakesSlot ==
  ASSUME NEW f \in Calls, NEW c \in Callers, NEW u \in CallState, NEW a, NEW q,
         SlotsExact(f, a, q), f[c].stage = "ready", u.stage = "sent"
  PROVE  SlotsExact([f EXCEPT ![c] = u], a + 1, q)
<1> DEFINE g == [f EXCEPT ![c] = u]
<1>1. \A d \in Callers : g[d].stage = IF d = c THEN "sent" ELSE f[d].stage
  BY DEF Calls
<1>2. Size(g, "sent") = Size(f, "sent") + 1 /\ Size(g, "granted") = Size(f, "granted")
  BY SizeMoved
<1>3. Size(f, "sent") \in Nat /\ Size(f, "granted") \in Nat /\ MaxConcurrent \in Nat
  BY SizeBounded, ClientAssumption
<1> HIDE DEF g
<1>4. Queued(g, q)
  BY <1>1 DEF Queued, SlotsExact
<1>5. QED
  BY <1>2, <1>3, <1>4 DEF SlotsExact, g

\* acquireRequestSlot with none free: the caller waits at the end of the queue.
LEMMA JoinsQueue ==
  ASSUME NEW f \in Calls, NEW c \in Callers, NEW u \in CallState, NEW a, NEW q,
         SlotsExact(f, a, q), f[c].stage = "ready", u.stage = "waiting",
         a >= MaxConcurrent
  PROVE  SlotsExact([f EXCEPT ![c] = u], a, Append(q, c))
<1> DEFINE g == [f EXCEPT ![c] = u]
           p == Append(q, c)
<1>1. \A d \in Callers : g[d].stage = IF d = c THEN "waiting" ELSE f[d].stage
  BY DEF Calls
<1>2. Size(g, "sent") = Size(f, "sent") /\ Size(g, "granted") = Size(f, "granted")
  BY SizeMoved
<1>3. Size(f, "sent") \in Nat /\ Size(f, "granted") \in Nat /\ MaxConcurrent \in Nat
  BY SizeBounded, ClientAssumption
<1>4. /\ p \in Seq(Callers) /\ Len(p) = Len(q) + 1 /\ Len(q) \in Nat
      /\ \A i \in 1..Len(q) : p[i] = q[i]
      /\ p[Len(q) + 1] = c
  BY DEF SlotsExact
<1>5. \A i \in 1..Len(q) : q[i] # c
  BY DEF SlotsExact, Queued
<1> HIDE DEF g, p
<1>6. Queued(g, p)
  <2>1. \A i \in 1..Len(p) : i \in 1..Len(q) \/ i = Len(q) + 1
    BY <1>4
  <2>2. \A i, j \in 1..Len(p) : p[i] = p[j] => i = j
    BY <2>1, <1>4, <1>5 DEF Queued, SlotsExact
  <2>3. ASSUME NEW d \in Callers
        PROVE  g[d].stage = "waiting" <=> \E i \in 1..Len(p) : p[i] = d
    <3>1. CASE d = c
      <4>1. Len(q) + 1 \in 1..Len(p)
        BY <1>4
      <4>2. QED BY <4>1, <3>1, <1>1, <1>4
    <3>2. CASE d # c
      <4>1. (\E i \in 1..Len(p) : p[i] = d) <=> \E i \in 1..Len(q) : q[i] = d
        BY <2>1, <3>2, <1>4
      <4>2. QED BY <4>1, <3>2, <1>1 DEF Queued, SlotsExact
    <3>3. QED BY <3>1, <3>2
  <2>4. QED BY <2>2, <2>3 DEF Queued
<1>7. a + Size(g, "granted") >= MaxConcurrent
  BY <1>2, <1>3 DEF SlotsExact
<1>8. QED
  BY <1>2, <1>4, <1>6, <1>7 DEF SlotsExact, g, p

\* The promise of a waiter has resolved and its request goes out.
LEMMA UsesGrant ==
  ASSUME NEW f \in Calls, NEW c \in Callers, NEW u \in CallState, NEW a, NEW q,
         SlotsExact(f, a, q), f[c].stage = "granted", u.stage = "sent"
  PROVE  SlotsExact([f EXCEPT ![c] = u], a + 1, q)
<1> DEFINE g == [f EXCEPT ![c] = u]
<1>1. \A d \in Callers : g[d].stage = IF d = c THEN "sent" ELSE f[d].stage
  BY DEF Calls
<1>2. /\ Size(g, "sent") = Size(f, "sent") + 1
      /\ Size(g, "granted") = Size(f, "granted") - 1
  BY SizeMoved
<1>3. Size(f, "sent") \in Nat /\ Size(f, "granted") \in Nat /\ MaxConcurrent \in Nat
  BY SizeBounded, ClientAssumption
<1> HIDE DEF g
<1>4. Queued(g, q)
  BY <1>1 DEF Queued, SlotsExact
<1>5. QED
  BY <1>2, <1>3, <1>4 DEF SlotsExact, g

\* A slot is given back and nobody waits.
LEMMA FreesSlot ==
  ASSUME NEW f \in Calls, NEW c \in Callers, NEW u \in CallState, NEW a,
         SlotsExact(f, a, <<>>), f[c].stage = "sent", u.stage = "ready"
  PROVE  SlotsExact([f EXCEPT ![c] = u], a - 1, <<>>)
<1> DEFINE g == [f EXCEPT ![c] = u]
<1>1. \A d \in Callers : g[d].stage = IF d = c THEN "ready" ELSE f[d].stage
  BY DEF Calls
<1>2. Size(g, "sent") = Size(f, "sent") - 1
  BY SizeMoved
<1> HIDE DEF g
<1>3. Queued(g, <<>>)
  BY <1>1 DEF Queued, SlotsExact
<1>4. QED
  BY <1>2, <1>3 DEF SlotsExact, g

\* The first waiter's promise resolves.
HandedOver(g, q) == [g EXCEPT ![Head(q)].stage = "granted"]

\* A slot is given back and the first waiter is promised it.
LEMMA HandsSlotOver ==
  ASSUME NEW f \in Calls, NEW c \in Callers, NEW u \in CallState, NEW a, NEW q,
         SlotsExact(f, a, q), f[c].stage = "sent", u.stage = "ready", q # <<>>
  PROVE  /\ Head(q) \in Callers /\ Head(q) # c /\ f[Head(q)].stage = "waiting"
         /\ HandedOver([f EXCEPT ![c] = u], q) \in Calls
         /\ SlotsExact(HandedOver([f EXCEPT ![c] = u], q), a - 1, Tail(q))
<1> DEFINE g == [f EXCEPT ![c] = u]
           h == Head(q)
           v == [g[h] EXCEPT !.stage = "granted"]
           w == [g EXCEPT ![h] = v]
           p == Tail(q)
<1>1. /\ h = q[1] /\ Len(q) \in Nat /\ Len(q) > 0
      /\ p \in Seq(Callers) /\ Len(p) = Len(q) - 1
      /\ \A i \in 1..Len(p) : p[i] = q[i + 1]
  BY DEF SlotsExact
<1>2. h \in Callers /\ f[h].stage = "waiting" /\ h # c
  <2>1. 1 \in 1..Len(q)
    BY <1>1
  <2>2. h \in Callers
    BY <1>1, <2>1 DEF SlotsExact
  <2>3. QED BY <2>1, <2>2, <1>1 DEF SlotsExact, Queued
<1>3. g \in Calls /\ g[h] = f[h]
  BY <1>2 DEF Calls
<1>4. v \in CallState /\ v.stage = "granted" /\ v.at = g[h].at
  BY <1>2, <1>3 DEF Calls, CallState
<1>5. /\ Size(g, "sent") = Size(f, "sent") - 1
      /\ Size(g, "granted") = Size(f, "granted")
  BY SizeMoved
<1>6. /\ Size(w, "sent") = Size(g, "sent")
      /\ Size(w, "granted") = Size(g, "granted") + 1
  <2> HIDE DEF g, h, v
  <2>1. g[h].stage = "waiting"
    BY <1>2, <1>3
  <2>2. QED BY <2>1, <1>2, <1>3, <1>4, SizeMoved
<1>7. w \in Calls
  BY <1>2, <1>3, <1>4 DEF Calls
<1>8. \A d \in Callers : w[d].stage = IF d = h THEN "granted"
                                     ELSE IF d = c THEN "ready" ELSE f[d].stage
  BY <1>2, <1>4 DEF Calls
<1>9. w = HandedOver(g, q)
  BY <1>3 DEF HandedOver, Calls, CallState
<1>10. Size(f, "sent") \in Nat /\ Size(f, "granted") \in Nat /\ MaxConcurrent \in Nat
  BY SizeBounded, ClientAssumption
<1> HIDE DEF g, h, v, w, p
<1>11. Queued(w, p)
  <2>1. \A i \in 1..Len(p) : i + 1 \in 1..Len(q) /\ p[i] = q[i + 1]
    BY <1>1
  <2>2. \A i, j \in 1..Len(p) : p[i] = p[j] => i = j
    BY <2>1, <1>1 DEF Queued, SlotsExact
  <2>3. ASSUME NEW d \in Callers
        PROVE  w[d].stage = "waiting" <=> \E i \in 1..Len(p) : p[i] = d
    <3>1. CASE d = h
      <4>1. ASSUME NEW i \in 1..Len(p), p[i] = h PROVE FALSE
        <5>1. i + 1 \in 1..Len(q) /\ 1 \in 1..Len(q) /\ q[i + 1] = q[1] /\ i + 1 # 1
          BY <4>1, <2>1, <1>1
        <5>2. QED BY <5>1 DEF Queued, SlotsExact
      <4>2. QED BY <4>1, <3>1, <1>8
    <3>2. CASE d # h
      <4>1. (\E i \in 1..Len(p) : p[i] = d) => \E i \in 1..Len(q) : q[i] = d
        BY <2>1
      <4>2. ASSUME NEW i \in 1..Len(q), q[i] = d PROVE \E j \in 1..Len(p) : p[j] = d
        <5>1. i # 1
          BY <4>2, <3>2, <1>1
        <5>2. i - 1 \in 1..Len(p) /\ (i - 1) + 1 = i
          BY <5>1, <1>1
        <5>3. QED BY <5>2, <2>1, <4>2
      <4>3. w[d].stage = "waiting" <=> f[d].stage = "waiting"
        BY <3>2, <1>8
      <4>4. QED BY <4>1, <4>2, <4>3 DEF Queued, SlotsExact
    <3>3. QED BY <3>1, <3>2
  <2>4. QED BY <2>2, <2>3 DEF Queued
<1>12. SlotsExact(w, a - 1, p)
  BY <1>1, <1>5, <1>6, <1>10, <1>11 DEF SlotsExact
<1>13. QED
  BY <1>2, <1>7, <1>9, <1>12 DEF g, h, p

-----------------------------------------------------------------------------
(* The actions *)

LoggedIn(server) == sessionCookie' = server /\ cookieOld' = FALSE

\* The session stays as it is, or a server has given a new one.
LEMMA SessionKept ==
  ASSUME ClientInv, loginInProgress' \in BOOLEAN,
         UNCHANGED session \/ \E server \in Servers : LoggedIn(server)
  PROVE  SessionTyped'
<1>1. CASE UNCHANGED session
  BY <1>1 DEF ClientInv, SessionTyped, session
<1>2. ASSUME NEW server \in Servers, LoggedIn(server) PROVE SessionTyped'
  <2>1. sessionCookie' \in Servers \cup {None} /\ sessionCookie' # None
    BY <1>2, ClientAssumption DEF LoggedIn
  <2>2. QED BY <1>2, <2>1, Zenon DEF LoggedIn, SessionTyped
<1>3. QED BY <1>1, <1>2

\* An idle caller is a caller's state, clear of the queue.
LEMMA IdleState == Idle \in CallState /\ Idle.stage = "ready" /\ Idle.at = "idle"
  BY DEF Idle, CallState, Kinds

\* What the actions need from the invariant about one caller.
LEMMA CallerTyped ==
  ASSUME ClientInv, NEW c \in Callers
  PROVE  /\ call \in Calls /\ call[c] \in CallState /\ Asking(call[c])
         /\ call[c].at \notin {"ask", "page", "credentials"} => call[c].stage = "ready"
  BY DEF ClientInv, CallsTyped, Calls, Asking

\* A caller that takes a new state of stage "ready", from stage "ready".
LEMMA MovesAside ==
  ASSUME ClientInv, NEW c \in Callers, NEW u \in CallState,
         call[c].stage = "ready", u.stage = "ready",
         call' = [call EXCEPT ![c] = u], UNCHANGED slots
  PROVE  CallsTyped' /\ SlotsExact(call', activeRequests', requestWaiters')
<1>1. call \in Calls /\ SlotsExact(call, activeRequests, requestWaiters)
  BY DEF ClientInv, CallsTyped
<1>2. SlotsExact(call', activeRequests', requestWaiters')
  BY <1>1, StaysClear DEF slots
<1>3. CallsTyped'
  BY <1>1 DEF ClientInv, CallsTyped, Calls, Asking
<1>4. QED BY <1>2, <1>3

\* Idle again, or on to the next request of the call.
LEMMA StateAfter ==
  ASSUME NEW t \in CallState,
         NEW at \in {"idle", "ask", "page", "credentials", "testLogin", "testWait"}
  PROVE  LET u == [t EXCEPT !.at = at, !.stage = "ready", !.cookie = None]
         IN  u \in CallState /\ u.stage = "ready"
  BY DEF CallState

\* Done and Proceed move the caller aside.
LEMMA DoneOrProceed ==
  ASSUME ClientInv, NEW c \in Callers, call[c].stage = "ready", UNCHANGED slots,
         \/ call' = [call EXCEPT ![c] = Idle]
         \/ \E t \in CallState, at \in {"ask", "page", "testLogin", "testWait"} :
              Proceed(c, t, at)
  PROVE  CallsTyped' /\ SlotsExact(call', activeRequests', requestWaiters')
<1>1. CASE call' = [call EXCEPT ![c] = Idle]
  BY <1>1, IdleState, MovesAside
<1>2. ASSUME NEW t \in CallState, NEW at \in {"ask", "page", "testLogin", "testWait"},
             Proceed(c, t, at)
      PROVE  CallsTyped' /\ SlotsExact(call', activeRequests', requestWaiters')
  <2> DEFINE u == [t EXCEPT !.at = at, !.stage = "ready", !.cookie = None]
  <2>1. u \in CallState /\ u.stage = "ready"
    BY StateAfter
  <2>2. call' = [call EXCEPT ![c] = u]
    BY <1>2 DEF Proceed
  <2> HIDE DEF u
  <2>3. QED BY <2>1, <2>2, MovesAside
<1>3. QED BY <1>1, <1>2

\* Start keeps the invariant.
LEMMA StartStep ==
  ASSUME ClientInv, NEW c \in Callers, Start(c)
  PROVE  ClientInv'
<1>1. PICK kind \in Kinds :
        LET t == [Idle EXCEPT !.kind = kind]
        IN  \/ HasSession /\ Proceed(c, t, "ask") /\ UNCHANGED loginInProgress
            \/ ~HasSession /\ LogIn(c, t)
  BY ClientAssumption DEF Start
<1> DEFINE t == [Idle EXCEPT !.kind = kind]
<1>2. t \in CallState
  BY DEF Idle, CallState, Kinds
<1> HIDE DEF t
<1>3. /\ \E at \in {"ask", "page", "testLogin", "testWait"} : Proceed(c, t, at)
      /\ loginInProgress' \in BOOLEAN
  BY <1>1 DEF LogIn, t, ClientInv, SessionTyped
<1>4. call[c].stage = "ready" /\ UNCHANGED <<slots, breaker, session>>
  BY IdleState DEF Start
<1>5. CallsTyped' /\ SlotsExact(call', activeRequests', requestWaiters')
  BY <1>2, <1>3, <1>4, DoneOrProceed
<1>6. BreakerTyped' /\ SessionTyped'
  BY <1>3, <1>4 DEF ClientInv, BreakerTyped, SessionTyped, breaker, session
<1>7. QED BY <1>5, <1>6 DEF ClientInv

\* Issue keeps the invariant: in a cooldown the call ends, with a slot free its
\* request goes out, and otherwise it queues.
LEMMA IssueStep ==
  ASSUME ClientInv, NEW c \in Callers, Issue(c)
  PROVE  ClientInv'
<1>1. call[c].stage = "ready" /\ UNCHANGED <<breaker, session, loginInProgress>>
  BY DEF Issue, Done
<1>2. BreakerTyped' /\ SessionTyped'
  BY <1>1 DEF ClientInv, BreakerTyped, SessionTyped, breaker, session
<1>3. CASE cooldown
  <2>1. call' = [call EXCEPT ![c] = Idle] /\ UNCHANGED slots
    BY <1>3 DEF Issue, Done
  <2>2. QED BY <2>1, <1>1, <1>2, DoneOrProceed DEF ClientInv
<1>4. CASE ~cooldown
  <2> DEFINE full == activeRequests >= MaxConcurrent
             cookie == IF call[c].at = "ask" THEN sessionCookie ELSE None
             stage == IF full THEN "waiting" ELSE "sent"
             u == [call[c] EXCEPT !.cookie = cookie, !.stage = stage]
  <2>1. call \in Calls /\ call[c] \in CallState
    BY CallerTyped
  <2>2. u \in CallState /\ u.stage = stage /\ u.at = call[c].at
    BY <2>1 DEF CallState, ClientInv, SessionTyped
  <2>3. /\ call' = [call EXCEPT ![c] = u]
        /\ activeRequests' = IF full THEN activeRequests ELSE activeRequests + 1
        /\ requestWaiters' = IF full THEN Append(requestWaiters, c) ELSE requestWaiters
    BY <1>4, <2>1 DEF Issue, Calls, CallState
  <2>4. call[c].at \in {"ask", "page", "credentials"}
    BY DEF Issue
  <2>5. SlotsExact(call, activeRequests, requestWaiters)
    BY DEF ClientInv
  <2>6. PICK v \in CallState : v = u /\ v.stage = stage /\ v.at = call[c].at
    BY <2>2
  <2> HIDE DEF u, cookie
  <2>7. CallsTyped'
    BY <2>1, <2>3, <2>4, <2>6 DEF ClientInv, CallsTyped, Calls, Asking
  <2>8. SlotsExact(call', activeRequests', requestWaiters')
    <3>1. CASE full
      BY <3>1, <2>1, <2>3, <2>5, <2>6, <1>1, JoinsQueue
    <3>2. CASE ~full
      BY <3>2, <2>1, <2>3, <2>5, <2>6, <1>1, TakesSlot
    <3>3. QED BY <3>1, <3>2
  <2>9. QED BY <2>7, <2>8, <1>2 DEF ClientInv
<1>5. QED BY <1>3, <1>4

\* Resume keeps the invariant.
LEMMA ResumeStep ==
  ASSUME ClientInv, NEW c \in Callers, Resume(c)
  PROVE  ClientInv'
<1> DEFINE u == [call[c] EXCEPT !.stage = "sent"]
<1>1. call \in Calls /\ call[c] \in CallState /\ call[c].stage = "granted"
  BY CallerTyped DEF Resume
<1>2. u \in CallState /\ u.stage = "sent" /\ u.at = call[c].at
  BY <1>1 DEF CallState
<1>3. /\ call' = [call EXCEPT ![c] = u]
      /\ activeRequests' = activeRequests + 1 /\ requestWaiters' = requestWaiters
      /\ UNCHANGED <<breaker, session, loginInProgress>>
  BY <1>1 DEF Resume, Calls, CallState
<1>4. BreakerTyped' /\ SessionTyped'
  BY <1>3 DEF ClientInv, BreakerTyped, SessionTyped, breaker, session
<1> HIDE DEF u
<1>5. CallsTyped'
  BY <1>1, <1>2, <1>3 DEF ClientInv, CallsTyped, Calls, Asking
<1>6. SlotsExact(call', activeRequests', requestWaiters')
  BY <1>1, <1>2, <1>3, UsesGrant DEF ClientInv
<1>7. QED BY <1>4, <1>5, <1>6 DEF ClientInv

\* The release keeps the slots exact, with and without a waiter.
LEMMA ReleasedStep ==
  ASSUME ClientInv, NEW c \in Callers, NEW u \in CallState,
         call[c].stage = "sent", u.stage = "ready",
         Released([call EXCEPT ![c] = u])
  PROVE  CallsTyped' /\ SlotsExact(call', activeRequests', requestWaiters')
<1> DEFINE g == [call EXCEPT ![c] = u]
<1>1. call \in Calls /\ SlotsExact(call, activeRequests, requestWaiters)
  BY DEF ClientInv, CallsTyped
<1>2. /\ g \in Calls /\ \A d \in Callers : Asking(g[d])
      /\ \A d \in Callers : g[d] = IF d = c THEN u ELSE call[d]
  BY <1>1 DEF ClientInv, CallsTyped, Calls, Asking
<1>3. activeRequests' = activeRequests - 1
  BY DEF Released
<1>4. CASE requestWaiters = <<>>
  <2>1. call' = g /\ requestWaiters' = <<>>
    BY <1>4 DEF Released
  <2>2. SlotsExact(g, activeRequests - 1, <<>>)
    BY <1>1, <1>4, FreesSlot
  <2> HIDE DEF g
  <2>3. QED BY <1>2, <1>3, <2>1, <2>2 DEF CallsTyped
<1>5. CASE requestWaiters # <<>>
  <2> DEFINE h == Head(requestWaiters)
             w == HandedOver(g, requestWaiters)
  <2>1. call' = w /\ requestWaiters' = Tail(requestWaiters)
    BY <1>5 DEF Released, HandedOver
  <2>2. /\ h \in Callers /\ h # c /\ call[h].stage = "waiting" /\ w \in Calls
        /\ SlotsExact(w, activeRequests - 1, Tail(requestWaiters))
    BY <1>1, <1>5, HandsSlotOver
  <2>3. Asking(call[h]) /\ g[h] = call[h]
    BY <2>2, <1>2 DEF ClientInv, CallsTyped
  <2> HIDE DEF g
  <2>4. \A d \in Callers : Asking(w[d])
    BY <1>2, <2>2, <2>3 DEF Asking, Calls, CallState, HandedOver
  <2> HIDE DEF w
  <2>5. QED BY <1>3, <2>1, <2>2, <2>4 DEF CallsTyped
<1>6. QED BY <1>4, <1>5

\* Reply keeps the invariant, whatever the reply and whatever comes of it.
LEMMA ReplyStep ==
  ASSUME ClientInv, NEW c \in Callers, Reply(c)
  PROVE  ClientInv'
<1>1. call[c] \in CallState /\ call[c].stage = "sent"
  BY CallerTyped DEF Reply
<1> DEFINE t == [call[c] EXCEPT !.stage = "ready", !.cookie = None]
<1>2. t \in CallState /\ t.stage = "ready" /\ t.asked \in BOOLEAN
  BY <1>1 DEF CallState
<1>3. ASSUME NEW at \in {"ask", "page", "credentials", "testLogin", "testWait"},
             NEW asked \in BOOLEAN
      PROVE  LET u == [t EXCEPT !.asked = asked, !.at = at]
             IN  u \in CallState /\ u.stage = "ready"
  BY <1>2 DEF CallState
<1>4. ASSUME NEW at \in {"ask", "page", "credentials", "testLogin", "testWait"}
      PROVE  LET u == [t EXCEPT !.at = at]
             IN  u \in CallState /\ u.stage = "ready"
  BY <1>2 DEF CallState
<1>5. PICK r \in Replies(call[c]) :
        LET again == Server(t.kind) = "test"
            To(u) == [call EXCEPT ![c] = u]
        IN  /\ CountReply(r)
            /\ \/ /\ t.at = "page" /\ r = "ok"
                  /\ ReleaseRequestSlot(To([t EXCEPT !.at = "credentials"]), r)
                  /\ UNCHANGED <<session, loginInProgress>>
               \/ /\ t.at = "credentials" /\ r = "redirect"
                  /\ sessionCookie' = "production" /\ cookieOld' = FALSE
                  /\ ReleaseRequestSlot(To([t EXCEPT !.at = "ask"]), r)
                  /\ UNCHANGED loginInProgress
               \/ /\ t.at = "ask" /\ MayRetry(t, r)
                  /\ ReleaseRequestSlot(To([t EXCEPT !.asked = TRUE,
                       !.at = CASE ~again -> "page"
                                [] again /\ LoginFree -> "testLogin"
                                [] again /\ ~LoginFree -> "testWait"]), r)
                  /\ loginInProgress' = (loginInProgress \/ again)
                  /\ UNCHANGED session
               \/ /\ \/ t.at = "page" /\ r # "ok"
                     \/ t.at = "credentials" /\ r # "redirect"
                     \/ t.at = "ask" /\ ~MayRetry(t, r)
                  /\ ReleaseRequestSlot(To(Idle), r)
                  /\ UNCHANGED <<session, loginInProgress>>
  BY DEF Reply
<1>6. BreakerTyped'
  BY <1>5, ClientAssumption DEF CountReply, ClientInv, BreakerTyped
<1>7. SessionTyped'
  <2> HIDE DEF t
  <2>1. UNCHANGED session \/ LoggedIn("production")
    BY <1>5 DEF session, LoggedIn
  <2>2. loginInProgress' \in BOOLEAN
    BY <1>5 DEF ClientInv, SessionTyped
  <2>3. QED BY <2>1, <2>2, SessionKept DEF Servers
<1>8. \E u \in CallState : u.stage = "ready" /\ Released([call EXCEPT ![c] = u])
  <2>1. CASE ReleaseRequestSlot([call EXCEPT ![c] = [t EXCEPT !.at = "credentials"]], r)
    BY <2>1, <1>4 DEF ReleaseRequestSlot
  <2>2. CASE ReleaseRequestSlot([call EXCEPT ![c] = [t EXCEPT !.at = "ask"]], r)
    BY <2>2, <1>4 DEF ReleaseRequestSlot
  <2>3. CASE \E at \in {"page", "testLogin", "testWait"} :
               ReleaseRequestSlot([call EXCEPT ![c] =
                 [t EXCEPT !.asked = TRUE, !.at = at]], r)
    BY <2>3, <1>3 DEF ReleaseRequestSlot
  <2>4. CASE ReleaseRequestSlot([call EXCEPT ![c] = Idle], r)
    BY <2>4, IdleState DEF ReleaseRequestSlot
  <2> DEFINE again == Server(t.kind) = "test"
             next == CASE ~again -> "page"
                       [] again /\ LoginFree -> "testLogin"
                       [] again /\ ~LoginFree -> "testWait"
  <2>5. next \in {"page", "testLogin", "testWait"}
    OBVIOUS
  <2>6. QED BY <1>5, <2>1, <2>2, <2>3, <2>4, <2>5
<1>9. CallsTyped' /\ SlotsExact(call', activeRequests', requestWaiters')
  BY <1>1, <1>8, ReleasedStep
<1>10. QED BY <1>6, <1>7, <1>9 DEF ClientInv

\* The login to the test server, and the wait for another's, keep the invariant.
LEMMA TestLoginStep ==
  ASSUME ClientInv, NEW c \in Callers, TestLogin(c) \/ TestWait(c)
  PROVE  ClientInv'
<1>1. call[c] \in CallState /\ call[c].stage = "ready"
  BY CallerTyped DEF TestLogin, TestWait
<1>2. UNCHANGED <<slots, breaker>>
  BY DEF TestLogin, TestWait
<1>3. call' = [call EXCEPT ![c] = Idle] \/ Proceed(c, call[c], "ask")
  BY DEF TestLogin, TestWait, Done
<1>4. BreakerTyped' /\ SessionTyped'
  <2>1. UNCHANGED session \/ LoggedIn("test")
    BY DEF TestLogin, TestWait, LoggedIn
  <2>2. loginInProgress' \in BOOLEAN
    BY DEF ClientInv, SessionTyped, TestLogin, TestWait, Done
  <2>3. QED BY <1>2, <2>1, <2>2, SessionKept DEF Servers, ClientInv, BreakerTyped, breaker
<1>5. CallsTyped' /\ SlotsExact(call', activeRequests', requestWaiters')
  BY <1>1, <1>2, <1>3, DoneOrProceed
<1>6. QED BY <1>4, <1>5 DEF ClientInv

\* The clock and the steps that change nothing keep the invariant.
LEMMA TimeStep ==
  ASSUME ClientInv, CooldownEnds \/ CookieAges \/ UNCHANGED vars
  PROVE  ClientInv'
<1>1. UNCHANGED <<call, slots>>
  BY DEF CooldownEnds, CookieAges, vars, slots
<1>2. CASE CooldownEnds
  BY <1>1, <1>2 DEF ClientInv, CallsTyped, BreakerTyped, SessionTyped, CooldownEnds,
                    slots, session
<1>3. CASE CookieAges
  BY <1>1, <1>3 DEF ClientInv, CallsTyped, BreakerTyped, SessionTyped, CookieAges,
                    slots, breaker, HasSession
<1>4. CASE UNCHANGED vars
  BY <1>1, <1>4 DEF ClientInv, CallsTyped, BreakerTyped, SessionTyped, vars, slots
<1>5. QED BY <1>2, <1>3, <1>4

\* The first state satisfies the invariant: nobody asks and no slot is taken.
LEMMA ClientInit == Init => ClientInv
<1> SUFFICES ASSUME Init PROVE ClientInv
  OBVIOUS
<1>1. call \in Calls /\ \A c \in Callers : call[c] = Idle
  BY IdleState DEF Init, Calls
<1>2. CallsTyped
  BY <1>1, IdleState DEF CallsTyped, Asking
<1>3. At(call, "sent") = {}
  BY <1>1, IdleState DEF At
<1>4. SlotsExact(call, 0, <<>>)
  BY <1>1, <1>3, IdleState, FS_EmptySet DEF SlotsExact, Queued, Size
<1>5. QED
  <2>1. activeRequests = 0 /\ requestWaiters = <<>>
    BY DEF Init
  <2>2. BreakerTyped /\ SessionTyped
    <3>1. failures \in 0..FailureThreshold
      BY ClientAssumption DEF Init
    <3>2. sessionCookie \in Servers \cup {None}
      BY DEF Init
    <3>3. QED BY <3>1, <3>2, Zenon DEF Init, BreakerTyped, SessionTyped
  <2>3. QED BY <1>2, <1>4, <2>1, <2>2 DEF ClientInv

-----------------------------------------------------------------------------
(* Theorems *)

\* The slots, the queue and the callers agree in every reachable state.
THEOREM ClientInvariant == Spec => []ClientInv
<1>1. ClientInv /\ [Next]_vars => ClientInv'
  BY StartStep, IssueStep, ResumeStep, ReplyStep, TestLoginStep, TimeStep
     DEF Next, Continue
<1>2. QED
  BY ClientInit, <1>1, PTL DEF Spec

\* Types: in particular no more requests are out than there are callers.
THEOREM ClientTypes == Spec => []TypeOK
<1>1. ClientInv => TypeOK
  BY SizeBounded DEF ClientInv, CallsTyped, Calls, CallState, Asking, BreakerTyped,
     SessionTyped, SlotsExact, TypeOK
<1>2. QED
  BY ClientInvariant, <1>1, PTL

\* No path out of fetchWithTimeout loses a slot or forgets a waiter, for any
\* number of callers and of slots.
THEOREM SlotsAreNeverLost == Spec => []NoSlotIsLost
<1>1. ASSUME ClientInv PROVE NoSlotIsLost
  <2>1. \A s : At(call, s) = InStage(s)
    BY DEF At, InStage
  <2>2. SlotsExact(call, activeRequests, requestWaiters)
    BY <1>1 DEF ClientInv
  <2>3. DOMAIN requestWaiters = 1..Len(requestWaiters)
    BY <2>2 DEF SlotsExact
  <2>4. \A i \in 1..Len(requestWaiters) : requestWaiters[i] \in Callers
    BY <2>2 DEF SlotsExact
  <2>5. \A c : c \in ToSet(requestWaiters) <=> c \in InStage("waiting")
    BY <2>2, <2>3, <2>4 DEF ToSet, InStage, SlotsExact, Queued
  <2>6. QED BY <2>1, <2>2, <2>5 DEF NoSlotIsLost, SlotsExact, Size
<1>2. QED
  BY ClientInvariant, <1>1, PTL

-----------------------------------------------------------------------------
(* The test server's login: f assigns states to callers, b is the flag.        *)

InLogin(f) == {c \in Callers : f[c].at = "testLogin"}
Exclusive(f, b) == /\ b <=> InLogin(f) # {}
                   /\ \A c, d \in InLogin(f) : c = d

\* One caller at most logs in to the test server, and the flag is set exactly
\* while it does: no way out of loginToTestEnv leaves it set, which would turn
\* every later login into a wait for nobody.
LoginIsExclusive == Exclusive(call, loginInProgress)

\* A caller that moves, and whether it is in a login before and after.
LEMMA LoginMoved ==
  ASSUME NEW f \in Calls, NEW c \in Callers, NEW u \in CallState, NEW b \in BOOLEAN,
         Exclusive(f, b)
  PROVE  LET g == [f EXCEPT ![c] = u]
         IN  /\ f[c].at # "testLogin" /\ u.at # "testLogin" => Exclusive(g, b)
             /\ f[c].at # "testLogin" /\ u.at = "testLogin" /\ ~b => Exclusive(g, TRUE)
             /\ f[c].at = "testLogin" /\ u.at # "testLogin" => Exclusive(g, FALSE)
<1> DEFINE g == [f EXCEPT ![c] = u]
<1>1. \A d \in Callers : g[d] = IF d = c THEN u ELSE f[d]
  BY DEF Calls
<1> HIDE DEF g
<1>2. \A d : d \in InLogin(g) <=>
        d \in Callers /\ (IF d = c THEN u.at ELSE f[d].at) = "testLogin"
  BY <1>1 DEF InLogin
<1>3. \A d : d \in InLogin(f) <=> d \in Callers /\ f[d].at = "testLogin"
  BY DEF InLogin
<1>4. \A d, e \in InLogin(f) : d = e
  BY DEF Exclusive
<1>5. b <=> InLogin(f) # {}
  BY DEF Exclusive
<1>6. ASSUME f[c].at # "testLogin", u.at # "testLogin"
      PROVE  Exclusive(g, b)
  <2>1. InLogin(g) = InLogin(f)
    BY <1>2, <1>3, <1>6
  <2>2. QED BY <2>1, <1>4, <1>5 DEF Exclusive
<1>7. ASSUME f[c].at # "testLogin", u.at = "testLogin", ~b
      PROVE  Exclusive(g, TRUE)
  <2>1. InLogin(g) = {c}
    BY <1>2, <1>3, <1>5, <1>7
  <2>2. QED BY <2>1 DEF Exclusive
<1>8. ASSUME f[c].at = "testLogin", u.at # "testLogin"
      PROVE  Exclusive(g, FALSE)
  <2>1. InLogin(g) = {}
    BY <1>2, <1>3, <1>4, <1>8
  <2>2. QED BY <2>1 DEF Exclusive
<1>9. QED BY <1>6, <1>7, <1>8 DEF g

\* Handing a slot over moves nobody in or out of a login.
LEMMA LoginReleased ==
  ASSUME ClientInv, NEW c \in Callers, NEW u \in CallState,
         Released([call EXCEPT ![c] = u]), call[c].stage = "sent", u.stage = "ready"
  PROVE  \A b \in BOOLEAN : Exclusive([call EXCEPT ![c] = u], b) => Exclusive(call', b)
<1> DEFINE g == [call EXCEPT ![c] = u]
<1>1. g \in Calls /\ \A d \in Callers : call'[d].at = g[d].at
  <2>1. g \in Calls
    BY DEF ClientInv, CallsTyped, Calls
  <2>2. CASE requestWaiters = <<>>
    BY <2>1, <2>2 DEF Released
  <2>3. CASE requestWaiters # <<>>
    <3>1. Head(requestWaiters) \in Callers
      BY <2>3, HandsSlotOver DEF ClientInv, CallsTyped
    <3> HIDE DEF g
    <3>2. call' = [g EXCEPT ![Head(requestWaiters)].stage = "granted"]
      BY <2>3 DEF Released, g
    <3>3. QED BY <2>1, <3>1, <3>2 DEF Calls, CallState
  <2>4. QED BY <2>1, <2>2, <2>3
<1> HIDE DEF g
<1>2. InLogin(call') = InLogin(g)
  BY <1>1 DEF InLogin
<1>3. QED BY <1>2 DEF Exclusive, g

\* Starting a call, and waiting for another's login.
LEMMA StartLogin ==
  ASSUME ClientInv, LoginIsExclusive, NEW c \in Callers, Start(c) \/ TestWait(c)
  PROVE  LoginIsExclusive'
<1>1. call \in Calls /\ call[c] \in CallState /\ call[c].at # "testLogin"
  BY CallerTyped, IdleState DEF Start, TestWait
<1>2. \/ /\ \/ \E t \in CallState, at \in {"ask", "page", "testWait"} : Proceed(c, t, at)
            \/ call' = [call EXCEPT ![c] = Idle]
         /\ UNCHANGED loginInProgress
      \/ /\ \E t \in CallState : Proceed(c, t, "testLogin")
         /\ ~loginInProgress /\ loginInProgress' = TRUE
  <2>1. CASE TestWait(c)
    BY <2>1, <1>1 DEF TestWait, Done
  <2>2. CASE Start(c)
    <3>1. PICK kind \in Kinds :
            LET t == [Idle EXCEPT !.kind = kind]
            IN  \/ HasSession /\ Proceed(c, t, "ask") /\ UNCHANGED loginInProgress
                \/ ~HasSession /\ LogIn(c, t)
      BY <2>2, ClientAssumption DEF Start
    <3> DEFINE t == [Idle EXCEPT !.kind = kind]
    <3>2. t \in CallState
      BY DEF Idle, CallState, Kinds
    <3> HIDE DEF t
    <3>3. QED BY <3>1, <3>2 DEF LogIn, LoginFree, t
  <2>3. QED BY <2>1, <2>2
<1>3. ASSUME NEW t \in CallState, NEW at \in {"ask", "page", "testLogin", "testWait"},
             Proceed(c, t, at)
      PROVE  \E u \in CallState : u.at = at /\ call' = [call EXCEPT ![c] = u]
  <2> DEFINE u == [t EXCEPT !.at = at, !.stage = "ready", !.cookie = None]
  <2>1. u \in CallState /\ u.at = at
    BY DEF CallState
  <2>2. QED BY <1>3, <2>1 DEF Proceed
<1>4. \/ /\ \E u \in CallState : u.at # "testLogin" /\ call' = [call EXCEPT ![c] = u]
         /\ UNCHANGED loginInProgress
      \/ /\ \E u \in CallState : u.at = "testLogin" /\ call' = [call EXCEPT ![c] = u]
         /\ ~loginInProgress /\ loginInProgress' = TRUE
  <2>1. CASE \E t \in CallState, at \in {"ask", "page", "testWait"} : Proceed(c, t, at)
             /\ UNCHANGED loginInProgress
    BY <2>1, <1>3
  <2>2. CASE call' = [call EXCEPT ![c] = Idle] /\ UNCHANGED loginInProgress
    BY <2>2, IdleState
  <2>3. CASE /\ \E t \in CallState : Proceed(c, t, "testLogin")
             /\ ~loginInProgress /\ loginInProgress' = TRUE
    BY <2>3, <1>3
  <2>4. QED BY <1>2, <2>1, <2>2, <2>3
<1>5. loginInProgress \in BOOLEAN
  BY DEF ClientInv, SessionTyped
<1>6. QED BY <1>1, <1>4, <1>5, LoginMoved DEF LoginIsExclusive

\* Queueing, resuming and giving up on a cooldown.
LEMMA RequestLogin ==
  ASSUME ClientInv, LoginIsExclusive, NEW c \in Callers, Issue(c) \/ Resume(c)
  PROVE  LoginIsExclusive'
<1>1. call \in Calls /\ call[c] \in CallState /\ call[c].at # "testLogin"
  BY CallerTyped DEF Issue, Resume
<1>2. UNCHANGED loginInProgress
  BY DEF Issue, Resume, Done
<1>3. CASE call' = [call EXCEPT ![c] = Idle]
  <2>1. loginInProgress \in BOOLEAN
    BY DEF ClientInv, SessionTyped
  <2>2. QED BY <1>1, <1>2, <1>3, <2>1, IdleState, LoginMoved DEF LoginIsExclusive
<1>4. CASE call' # [call EXCEPT ![c] = Idle]
  <2>1. \A d \in Callers : call'[d].at = call[d].at
    BY <1>1, <1>4 DEF Issue, Resume, Done, Calls, CallState
  <2>2. InLogin(call') = InLogin(call)
    BY <2>1 DEF InLogin
  <2>3. QED BY <1>2, <2>2 DEF LoginIsExclusive, Exclusive
<1>5. QED BY <1>3, <1>4

\* A reply: only an expired session on the test server starts a login.
LEMMA ReplyLogin ==
  ASSUME ClientInv, LoginIsExclusive, NEW c \in Callers, Reply(c)
  PROVE  LoginIsExclusive'
<1>1. call \in Calls /\ call[c] \in CallState /\ call[c].stage = "sent"
  BY CallerTyped DEF Reply
<1>2. call[c].at # "testLogin"
  BY <1>1, CallerTyped
<1> DEFINE t == [call[c] EXCEPT !.stage = "ready", !.cookie = None]
           To(u) == [call EXCEPT ![c] = u]
           Ends(at) == \E u \in CallState : /\ u.at = at /\ u.stage = "ready"
                                            /\ Released(To(u))
<1>3. \A at \in {"credentials", "ask"} :
        LET u == [t EXCEPT !.at = at]
        IN  u \in CallState /\ u.at = at /\ u.stage = "ready"
  BY <1>1 DEF CallState
<1>4. \A at \in {"page", "testLogin", "testWait"} :
        LET u == [t EXCEPT !.asked = TRUE, !.at = at]
        IN  u \in CallState /\ u.at = at /\ u.stage = "ready"
  BY <1>1 DEF CallState
<1>5. PICK r \in Replies(call[c]) :
        LET again == Server(t.kind) = "test"
        IN  \/ /\ ReleaseRequestSlot(To([t EXCEPT !.at = "credentials"]), r)
               /\ UNCHANGED loginInProgress
            \/ /\ ReleaseRequestSlot(To([t EXCEPT !.at = "ask"]), r)
               /\ UNCHANGED loginInProgress
            \/ /\ ReleaseRequestSlot(To([t EXCEPT !.asked = TRUE,
                    !.at = CASE ~again -> "page"
                             [] again /\ LoginFree -> "testLogin"
                             [] again /\ ~LoginFree -> "testWait"]), r)
               /\ loginInProgress' = (loginInProgress \/ again)
            \/ /\ ReleaseRequestSlot(To(Idle), r)
               /\ UNCHANGED loginInProgress
  BY DEF Reply
<1> HIDE DEF t
<1>6. \/ /\ \E at \in {"credentials", "ask", "page", "testWait", "idle"} : Ends(at)
         /\ loginInProgress' = loginInProgress
      \/ /\ Ends("testLogin") /\ ~loginInProgress /\ loginInProgress' = TRUE
  <2>1. CASE \E at \in {"credentials", "ask"} :
               /\ ReleaseRequestSlot(To([t EXCEPT !.at = at]), r)
               /\ UNCHANGED loginInProgress
    BY <2>1, <1>3 DEF ReleaseRequestSlot
  <2>2. CASE ReleaseRequestSlot(To(Idle), r) /\ UNCHANGED loginInProgress
    BY <2>2, IdleState DEF ReleaseRequestSlot
  <2> DEFINE again == Server(t.kind) = "test"
             next == CASE ~again -> "page"
                       [] again /\ LoginFree -> "testLogin"
                       [] again /\ ~LoginFree -> "testWait"
  <2>3. CASE /\ ReleaseRequestSlot(To([t EXCEPT !.asked = TRUE, !.at = next]), r)
             /\ loginInProgress' = (loginInProgress \/ again)
    <3>1. loginInProgress \in BOOLEAN
      BY DEF ClientInv, SessionTyped
    <3>2. /\ ~again => next = "page" /\ loginInProgress' = loginInProgress
          /\ again /\ ~loginInProgress => next = "testLogin" /\ loginInProgress' = TRUE
          /\ again /\ loginInProgress => next = "testWait" /\ loginInProgress' = loginInProgress
      BY <2>3, <3>1 DEF LoginFree
    <3> HIDE DEF next, again
    <3>3. next \in {"page", "testLogin", "testWait"}
      BY <3>1, <3>2
    <3>4. Ends(next)
      BY <2>3, <3>3, <1>4 DEF ReleaseRequestSlot
    <3>5. QED BY <3>1, <3>2, <3>4
  <2>4. QED BY <1>5, <2>1, <2>2, <2>3
<1>7. ASSUME NEW u \in CallState, u.stage = "ready", Released(To(u))
      PROVE  \A b \in BOOLEAN : Exclusive(To(u), b) => Exclusive(call', b)
  BY <1>1, <1>7, LoginReleased
<1>8. ASSUME NEW u \in CallState
      PROVE  /\ u.at # "testLogin" => Exclusive(To(u), loginInProgress)
             /\ u.at = "testLogin" /\ ~loginInProgress => Exclusive(To(u), TRUE)
  <2>1. loginInProgress \in BOOLEAN
    BY DEF ClientInv, SessionTyped
  <2>2. Exclusive(call, loginInProgress)
    BY DEF LoginIsExclusive
  <2>3. QED BY <1>1, <1>2, <2>1, <2>2, LoginMoved
<1> HIDE DEF To
<1>9. CASE /\ \E at \in {"credentials", "ask", "page", "testWait", "idle"} : Ends(at)
           /\ loginInProgress' = loginInProgress
  <2>1. loginInProgress \in BOOLEAN
    BY DEF ClientInv, SessionTyped
  <2>2. QED BY <1>7, <1>8, <1>9, <2>1 DEF LoginIsExclusive
<1>10. CASE Ends("testLogin") /\ ~loginInProgress /\ loginInProgress' = TRUE
  BY <1>7, <1>8, <1>10 DEF LoginIsExclusive
<1>11. QED BY <1>6, <1>9, <1>10

\* The login comes to an end, one way or the other.
LEMMA LoginEnds ==
  ASSUME ClientInv, LoginIsExclusive, NEW c \in Callers, TestLogin(c)
  PROVE  LoginIsExclusive'
<1>1. call \in Calls /\ call[c] \in CallState /\ call[c].at = "testLogin"
  BY CallerTyped DEF TestLogin
<1>2. loginInProgress' = FALSE
  BY DEF TestLogin
<1> DEFINE u == [call[c] EXCEPT !.at = "ask", !.stage = "ready", !.cookie = None]
<1>3. u \in CallState /\ u.at = "ask"
  BY <1>1 DEF CallState
<1>4. call' = [call EXCEPT ![c] = Idle] \/ call' = [call EXCEPT ![c] = u]
  BY DEF TestLogin, Proceed
<1> HIDE DEF u
<1>5. loginInProgress \in BOOLEAN
  BY DEF ClientInv, SessionTyped
<1>6. QED BY <1>1, <1>2, <1>3, <1>4, <1>5, IdleState, LoginMoved DEF LoginIsExclusive

\* The flag of the test server's login is never left set and never shared.
THEOREM LoginsExclude == Spec => []LoginIsExclusive
<1>1. Init => LoginIsExclusive
  <2>1. Init => InLogin(call) = {} /\ loginInProgress = FALSE
    BY IdleState DEF Init, InLogin
  <2>2. QED BY <2>1 DEF LoginIsExclusive, Exclusive
<1>2. ClientInv /\ LoginIsExclusive /\ [Next]_vars => LoginIsExclusive'
  <2> SUFFICES ASSUME ClientInv, LoginIsExclusive, [Next]_vars
               PROVE  LoginIsExclusive'
    OBVIOUS
  <2>1. CASE UNCHANGED <<call, loginInProgress>>
    BY <2>1 DEF LoginIsExclusive, Exclusive, InLogin
  <2>2. CASE \E c \in Callers : Start(c) \/ Continue(c)
    BY <2>2, StartLogin, RequestLogin, ReplyLogin, LoginEnds DEF Continue
  <2>3. QED BY <2>1, <2>2 DEF Next, CooldownEnds, CookieAges, vars
<1>3. QED
  BY <1>1, <1>2, ClientInvariant, PTL DEF Spec

-----------------------------------------------------------------------------
(* MPOCache, for every number of lookups and scanners, every window, every TTL *)
(* and every bound.                                                            *)

TaskState == [at : {"idle", "resolving", "first", "window", "pages", "building"},
              mpo : 0..MaxOrders, total : 0..MaxOrders, got : SUBSET MPOs,
              header : Ages]

\* A scan past its first page has the orders from the first up to some k: pages
\* are read in order and one that is lost ends the scan, so there is no hole.
\* A header in hand was chosen from a list that was fresh.
Young(age) == age # Absent => age < TTL
Prefix(t) ==
  /\ t.at \in {"window", "pages"} => \E k \in 1..t.total : t.got = 1..k
  /\ Young(t.header)

\* An entry is stamped when its lines are read, keeps its stamp on disk, and has
\* the header the worker had in hand.
Genuine(e) == e # Absent => e.stamp = e.read /\ Young(e.header)
Cache == [Wanted -> Entries \cup {Absent}]

ClockOK == now \in 0..MaxTime /\ restarts \in 0..MaxRestarts /\ orders \in MPOs
ListOK ==
  /\ headers \in (SUBSET MPOs) \cup {Absent}
  /\ listed \in 0..MaxOrders /\ stamp \in 0..now /\ saved \in BOOLEAN
  /\ disk # Absent => /\ disk.headers \in (SUBSET MPOs) \ {{}}
                     /\ disk.listed \in 0..MaxOrders
  /\ CacheIsWhole
Scanning(t) == t.at \in {"first", "pages"}
FlightOK ==
  /\ flight \in Scanners \cup {Absent}
  /\ \A s \in Scanners : Scanning(task[s]) <=> flight = s
TasksOK == task \in [Workers -> TaskState] /\ \A w \in Workers : Prefix(task[w])
DataOK ==
  /\ poData \in Cache /\ poDisk \in Cache
  /\ \A m \in Wanted : Genuine(poData[m]) /\ Genuine(poDisk[m])

CacheInv == ClockOK /\ ListOK /\ FlightOK /\ TasksOK /\ DataOK

-----------------------------------------------------------------------------
(* Moves of one worker *)

\* What the constants are.
LEMMA Constants ==
  /\ TTL \in Nat \ {0} /\ MaxOrders \in Nat /\ MaxTime \in Nat /\ MaxRestarts \in Nat
  /\ MPOs = 1..MaxOrders /\ Wanted \subseteq MPOs /\ 1 \in MPOs
  /\ Workers = Lookups \cup Scanners /\ Lookups \cap Scanners = {}
  /\ Absent \notin Scanners /\ 0 \in Ages /\ Young(0)
  BY CacheAssumption DEF MPOs, Workers, Ages, Young

\* A worker that moves to a state u that is a prefix keeps the others as they are.
LEMMA TaskMoves ==
  ASSUME TasksOK, NEW w \in Workers, NEW u \in TaskState, Prefix(u),
         task' = [task EXCEPT ![w] = u]
  PROVE  TasksOK' /\ task'[w] = u
<1>1. task' \in [Workers -> TaskState] /\ task'[w] = u
  BY DEF TasksOK
<1>2. \A v \in Workers : Prefix(task'[v])
  BY DEF TasksOK
<1>3. QED BY <1>1, <1>2 DEF TasksOK

\* An idle worker is clear of every scan.
LEMMA IdleTask ==
  IdleWorker \in TaskState /\ Prefix(IdleWorker) /\ ~Scanning(IdleWorker)
  BY Constants DEF IdleWorker, TaskState, Prefix, Scanning

\* A scanner ends its scan and gives up the flight, or neither changes.
LEMMA FlightMoves ==
  ASSUME FlightOK, TasksOK, NEW w \in Workers, NEW u \in TaskState,
         task' = [task EXCEPT ![w] = u],
         \/ w \in Scanners /\ ~Scanning(u) /\ FlightOver(w, TRUE)
         \/ w \in Scanners /\ (Scanning(u) <=> Scanning(task[w])) /\ UNCHANGED flight
         \/ w \in Lookups /\ (UNCHANGED flight \/ FlightOver(w, TRUE))
  PROVE  FlightOK'
<1>1. \A s \in Scanners : task'[s] = IF s = w THEN u ELSE task[s]
  BY Constants DEF TasksOK
<1>2. flight' \in Scanners \cup {Absent}
  BY DEF FlightOK, FlightOver
<1>3. CASE w \in Scanners /\ ~Scanning(u) /\ FlightOver(w, TRUE)
  BY <1>1, <1>2, <1>3, Constants DEF FlightOK, FlightOver, Scanning
<1>4. CASE w \in Scanners /\ (Scanning(u) <=> Scanning(task[w])) /\ UNCHANGED flight
  BY <1>1, <1>2, <1>4, Constants DEF FlightOK, Scanning
<1>5. CASE w \in Lookups /\ (UNCHANGED flight \/ FlightOver(w, TRUE))
  <2>1. \A s \in Scanners : s # w
    BY <1>5, Constants
  <2>2. \A s \in Scanners : flight' = s <=> flight = s
    BY <1>5, <2>1, Constants DEF FlightOver, FlightOK
  <2>3. QED BY <1>1, <1>2, <2>1, <2>2 DEF FlightOK, Scanning
<1>6. QED BY <1>3, <1>4, <1>5

\* Leaving a scan: the worker goes on with headers of the list, or is idle.
LEMMA LeaveMoves ==
  ASSUME TasksOK, NEW w \in Workers, NEW got \in SUBSET MPOs, NEW age \in Ages,
         Young(age), Leave(w, got, age)
  PROVE  \E u \in TaskState : /\ task' = [task EXCEPT ![w] = u] /\ Prefix(u)
                              /\ ~Scanning(u)
<1>1. PICK matches \in Matches(w, got) :
        task' = [task EXCEPT ![w] =
          IF matches = {} THEN IdleWorker
          ELSE [IdleWorker EXCEPT !.at = "building", !.got = matches, !.header = age]]
  BY DEF Leave
<1>2. matches \in SUBSET MPOs
  BY Constants DEF Matches
<1> DEFINE u == [IdleWorker EXCEPT !.at = "building", !.got = matches, !.header = age]
<1>3. u \in TaskState /\ u.at = "building" /\ u.header = age
  BY <1>2, IdleTask DEF TaskState
<1> HIDE DEF u
<1>4. Prefix(u) /\ ~Scanning(u)
  BY <1>3 DEF Prefix, Scanning
<1>5. QED BY <1>1, <1>3, <1>4, IdleTask DEF u

\* A scan that ends leaves the flight and its worker in order.
LEMMA ScanEnds ==
  ASSUME CacheInv, NEW w \in Workers, NEW got \in SUBSET MPOs, NEW failed,
         Leave(w, got, 0), FlightOver(w, failed)
  PROVE  TasksOK' /\ FlightOK'
<1>1. PICK u \in TaskState : /\ task' = [task EXCEPT ![w] = u] /\ Prefix(u)
                             /\ ~Scanning(u)
  BY LeaveMoves, Constants DEF CacheInv
<1>2. FlightOver(w, TRUE)
  BY DEF FlightOver
<1>3. QED
  BY <1>1, <1>2, TaskMoves, FlightMoves, Constants DEF CacheInv

\* Only a complete list is installed, or the empty one of a lost first page.
LEMMA Installs ==
  ASSUME CacheInv, NEW w \in Workers, NEW got, NEW total \in 0..MaxOrders,
         got = {} \/ got = 1..total, Install(w, got, total), UNCHANGED clock
  PROVE  ListOK' /\ TasksOK' /\ FlightOK'
<1>1. got \in SUBSET MPOs
  BY Constants
<1>2. TasksOK' /\ FlightOK'
  BY <1>1, ScanEnds DEF Install
<1>3. headers' = got /\ listed' = total /\ stamp' = now /\ now' = now /\ saved' = FALSE
  BY DEF Install, clock
<1>4. stamp' \in 0..now'
  BY <1>3, Constants DEF CacheInv, ClockOK
<1>5. CASE got = {}
  <2>1. disk' = disk
    BY <1>5 DEF Install
  <2>2. ListOK'
    BY <1>1, <1>3, <1>4, <1>5, <2>1 DEF CacheInv, ListOK, CacheIsWhole
  <2>3. QED BY <1>2, <2>2
<1>6. CASE got # {}
  <2>1. disk' = [headers |-> got, listed |-> total] /\ got = 1..total
    BY <1>6 DEF Install
  <2>2. disk'.headers = 1..total /\ disk'.listed = total
    BY <2>1
  <2>3. ListOK'
    BY <1>1, <1>3, <1>4, <1>6, <2>1, <2>2 DEF ListOK, CacheIsWhole
  <2>4. QED BY <1>2, <2>3
<1>7. QED BY <1>2, <1>5, <1>6

\* The variables a step on the list leaves alone.
LEMMA ListSame ==
  ASSUME CacheInv, UNCHANGED list, UNCHANGED now
  PROVE  ListOK'
  BY DEF CacheInv, ListOK, CacheIsWhole, list

\* The clock and the data, left alone.
LEMMA RestSame ==
  ASSUME CacheInv, UNCHANGED <<orders, data, clock>>
  PROVE  ClockOK' /\ DataOK'
  BY DEF CacheInv, ClockOK, DataOK, data, clock

-----------------------------------------------------------------------------
(* The actions *)

\* The state a worker takes, as one record of its old state.
LEMMA StartScanStep ==
  ASSUME CacheInv, NEW s \in Scanners, StartScan(s)
  PROVE  CacheInv'
<1>1. s \in Workers /\ task[s] = IdleWorker /\ flight' = s /\ flight = Absent
      /\ UNCHANGED <<orders, list, data, clock>>
  BY Constants DEF StartScan, MayScan
<1> DEFINE u == [IdleWorker EXCEPT !.at = "first"]
<1>2. u \in TaskState /\ Scanning(u) /\ Prefix(u)
  BY IdleTask DEF IdleWorker, TaskState, Prefix, Scanning
<1>3. task' = [task EXCEPT ![s] = u]
  BY <1>1 DEF StartScan, CacheInv, TasksOK
<1> HIDE DEF u
<1>4. TasksOK'
  BY <1>1, <1>2, <1>3, TaskMoves DEF CacheInv
<1>5. FlightOK'
  <2>1. \A r \in Scanners : task'[r] = IF r = s THEN u ELSE task[r]
    BY <1>3, Constants DEF CacheInv, TasksOK
  <2>2. QED BY <1>1, <1>2, <2>1, Constants DEF CacheInv, FlightOK, Scanning
<1>6. ListOK' /\ ClockOK' /\ DataOK'
  BY <1>1, ListSame, RestSame DEF clock
<1>7. QED BY <1>4, <1>5, <1>6 DEF CacheInv

\* The first page starts the prefix, fails, or installs the empty list.
LEMMA FirstPageStep ==
  ASSUME CacheInv, NEW w \in Workers, FirstPage(w)
  PROVE  CacheInv'
<1>1. task[w].at = "first" /\ UNCHANGED <<orders, data, clock>>
  BY DEF FirstPage
<1>2. ClockOK' /\ DataOK'
  BY <1>1, RestSame
<1>3. CASE ScanFails(w)
  BY <1>1, <1>2, <1>3, ScanEnds, ListSame, Constants DEF ScanFails, CacheInv, clock
<1>4. CASE Install(w, {}, orders)
  <2>1. orders \in 0..MaxOrders
    BY Constants DEF CacheInv, ClockOK
  <2>2. QED BY <1>1, <1>2, <1>4, <2>1, Installs DEF CacheInv
<1>5. ASSUME task' = [task EXCEPT ![w].total = orders, ![w].got = {1},
                        ![w].at = IF w \in Scanners \/ orders <= 1
                                  THEN "pages" ELSE "window"],
             UNCHANGED <<list, flight>>
      PROVE  CacheInv'
  <2> DEFINE at == IF w \in Scanners \/ orders <= 1 THEN "pages" ELSE "window"
             u == [task[w] EXCEPT !.total = orders, !.got = {1}, !.at = at]
  <2>1. task \in [Workers -> TaskState] /\ task[w] \in TaskState
    BY DEF CacheInv, TasksOK
  <2>2. orders \in 1..MaxOrders /\ MaxOrders \in Nat /\ {1} = 1..1 /\ {1} \subseteq MPOs
    BY Constants DEF CacheInv, ClockOK
  <2>3. task' = [task EXCEPT ![w] = u]
    BY <1>5, <2>1 DEF TaskState
  <2>4. u \in TaskState /\ u.total = orders /\ u.got = {1}
        /\ u.header = task[w].header /\ (w \in Scanners => Scanning(u))
    <3>1. at \in {"pages", "window"} /\ orders \in 0..MaxOrders /\ {1} \in SUBSET MPOs
      BY <2>2
    <3>2. w \in Scanners => at = "pages"
      OBVIOUS
    <3> HIDE DEF at
    <3>3. QED BY <2>1, <3>1, <3>2 DEF TaskState, Scanning
  <2> HIDE DEF u
  <2>5. Prefix(u)
    BY <2>2, <2>4 DEF Prefix, CacheInv, TasksOK
  <2>6. TasksOK'
    BY <2>3, <2>4, <2>5, TaskMoves DEF CacheInv
  <2>7. FlightOK'
    BY <1>1, <1>5, <2>3, <2>4, FlightMoves, Constants DEF CacheInv, Scanning
  <2>8. QED BY <1>1, <1>2, <1>5, <2>6, <2>7, ListSame DEF CacheInv, clock
<1>6. QED
  BY <1>3, <1>4, <1>5 DEF FirstPage

\* A window of pages is used by its lookup and never becomes the list.
LEMMA WindowStep ==
  ASSUME CacheInv, NEW w \in Lookups, Window(w)
  PROVE  CacheInv'
<1>1. w \in Workers /\ task[w].at = "window" /\ UNCHANGED <<orders, data, clock>>
  BY Constants DEF Window
<1>2. ClockOK' /\ DataOK'
  BY <1>1, RestSame
<1>3. CASE ScanFails(w)
  BY <1>1, <1>2, <1>3, ScanEnds, ListSame, Constants DEF ScanFails, CacheInv, clock
<1>4. ASSUME NEW got \in SUBSET MPOs, Leave(w, got, 0), UNCHANGED <<list, flight>>
      PROVE  CacheInv'
  <2>1. PICK u \in TaskState : task' = [task EXCEPT ![w] = u] /\ Prefix(u)
    BY <1>1, <1>4, LeaveMoves, Constants DEF CacheInv
  <2>2. TasksOK' /\ FlightOK'
    BY <1>1, <1>4, <2>1, TaskMoves, FlightMoves DEF CacheInv
  <2>3. QED BY <1>1, <1>2, <1>4, <2>2, ListSame DEF CacheInv, clock
<1>5. ASSUME task' = [task EXCEPT ![w].at = "pages"], UNCHANGED <<list, flight>>
      PROVE  CacheInv'
  <2> DEFINE u == [task[w] EXCEPT !.at = "pages"]
  <2>1. task \in [Workers -> TaskState] /\ task[w] \in TaskState /\ Prefix(task[w])
    BY <1>1 DEF CacheInv, TasksOK
  <2>2. task' = [task EXCEPT ![w] = u] /\ u \in TaskState
    BY <1>5, <2>1 DEF TaskState
  <2>3. Prefix(u)
    BY <1>1, <2>1 DEF Prefix, TaskState
  <2> HIDE DEF u
  <2>4. TasksOK' /\ FlightOK'
    BY <1>1, <1>5, <2>2, <2>3, TaskMoves, FlightMoves DEF CacheInv
  <2>5. QED BY <1>1, <1>2, <1>5, <2>4, ListSame DEF CacheInv, clock
<1>6. \A p \in 1..task[w].total : p \in MPOs
  BY <1>1, Constants DEF CacheInv, TasksOK, TaskState
<1>7. QED
  BY <1>3, <1>4, <1>5, <1>6 DEF Window

\* A page extends the prefix by the next order; the list is installed when the
\* prefix has reached the total.
LEMMA NextPageStep ==
  ASSUME CacheInv, NEW w \in Workers, NextPage(w)
  PROVE  CacheInv'
<1>1. task[w].at = "pages" /\ UNCHANGED <<orders, data, clock>>
  BY DEF NextPage
<1>2. ClockOK' /\ DataOK'
  BY <1>1, RestSame
<1>3. task \in [Workers -> TaskState] /\ task[w] \in TaskState
  BY DEF CacheInv, TasksOK
<1>4. PICK k \in 1..task[w].total : task[w].got = 1..k
  BY <1>1 DEF CacheInv, TasksOK, Prefix
<1>5. task[w].total \in 0..MaxOrders /\ MaxOrders \in Nat
  BY <1>3, Constants DEF TaskState
<1>6. Cardinality(task[w].got) = k
  <2>1. 1 \in Int /\ k \in Int /\ 1 <= k
    BY <1>4, <1>5
  <2>2. Cardinality(1..k) = k - 1 + 1
    BY <2>1, FS_Interval
  <2>3. QED BY <2>1, <2>2, <1>4
<1>7. CASE ScanFails(w)
  BY <1>1, <1>2, <1>7, ScanEnds, ListSame, Constants DEF ScanFails, CacheInv, clock
<1>8. CASE ListComplete(task[w]) /\ Install(w, task[w].got, task[w].total)
  <2>1. k = task[w].total
    BY <1>4, <1>5, <1>6, <1>8 DEF ListComplete
  <2>2. Install(w, 1..k, k) /\ k \in 0..MaxOrders
    BY <1>4, <1>5, <1>8, <2>1
  <2>3. QED BY <1>1, <1>2, <2>2, Installs DEF CacheInv
<1>9. ASSUME k < task[w].total, UNCHANGED <<list, flight>>,
             task' = [task EXCEPT ![w].got = @ \cup {k + 1}]
      PROVE  CacheInv'
  <2> DEFINE got == task[w].got \cup {k + 1}
             u == [task[w] EXCEPT !.got = got]
  <2>1. got = 1..(k + 1) /\ got \subseteq MPOs /\ k + 1 \in 1..task[w].total
    BY <1>4, <1>5, <1>9, Constants
  <2>2. task' = [task EXCEPT ![w] = u]
    BY <1>3, <1>9 DEF TaskState
  <2> HIDE DEF got
  <2>3. u \in TaskState /\ u.at = task[w].at /\ u.total = task[w].total /\ u.got = got
        /\ u.header = task[w].header
    BY <1>3, <2>1 DEF TaskState
  <2> HIDE DEF u
  <2>4. Prefix(u)
    BY <2>1, <2>3 DEF Prefix, CacheInv, TasksOK
  <2>5. TasksOK'
    BY <2>2, <2>3, <2>4, TaskMoves DEF CacheInv
  <2>6. FlightOK'
    BY <1>1, <1>9, <2>2, <2>3, FlightMoves, Constants DEF CacheInv, Scanning
  <2>7. QED BY <1>1, <1>2, <1>9, <2>5, <2>6, ListSame DEF CacheInv, clock
<1>10. QED
  BY <1>6, <1>7, <1>8, <1>9 DEF NextPage

\* A worker's new state after a step that touches neither the list nor a scan.
Aside(w) ==
  \E u \in TaskState :
    /\ task' = [task EXCEPT ![w] = u] /\ Prefix(u) /\ ~Scanning(u)

\* The age of the cached list is one a header may have, while the list is fresh.
LEMMA CachedIsYoung ==
  ASSUME CacheInv, Fresh
  PROVE  CachedAge \in Ages /\ Young(CachedAge) /\ headers \in SUBSET MPOs
<1>1. CachedAge \in Ages
  BY Constants DEF CacheInv, ListOK, ClockOK, CachedAge, Ages
<1>2. Young(CachedAge)
  BY DEF Fresh, CachedAge, Young
<1>3. QED BY <1>1, <1>2 DEF CacheInv, ListOK, Fresh

\* Starting a lookup and resolving it move the lookup.
LEMMA LookupStep ==
  ASSUME CacheInv, NEW l \in Lookups, (\E m \in Wanted : StartLookup(l, m)) \/ Resolve(l)
  PROVE  CacheInv'
<1>1. l \in Workers /\ UNCHANGED <<orders, list, flight, poDisk, clock>>
  BY Constants DEF StartLookup, Resolve, data
<1>2. task \in [Workers -> TaskState] /\ task[l] \in TaskState /\ Prefix(task[l])
  BY <1>1 DEF CacheInv, TasksOK
<1>3. \E u \in TaskState : task' = [task EXCEPT ![l] = u] /\ Prefix(u)
  <2>1. ASSUME NEW m \in Wanted, StartLookup(l, m)
        PROVE  \E u \in TaskState : task' = [task EXCEPT ![l] = u] /\ Prefix(u)
    <3> DEFINE u == [task[l] EXCEPT !.at = "resolving", !.mpo = m]
    <3>1. u \in TaskState /\ u.at = "resolving" /\ u.header = task[l].header
      <4>1. m \in 0..MaxOrders
        BY Constants
      <4>2. QED BY <4>1, <1>2 DEF TaskState
    <3>2. task' = [task EXCEPT ![l] = u]
      BY <1>2, <2>1 DEF StartLookup, TaskState
    <3> HIDE DEF u
    <3>3. QED BY <1>2, <3>1, <3>2 DEF Prefix
  <2>2. CASE task' = [task EXCEPT ![l].at = "first"]
    <3> DEFINE u == [task[l] EXCEPT !.at = "first"]
    <3>1. u \in TaskState /\ u.at = "first" /\ u.header = task[l].header
      BY <1>2 DEF TaskState
    <3>2. task' = [task EXCEPT ![l] = u]
      BY <1>2, <2>2 DEF TaskState
    <3> HIDE DEF u
    <3>3. QED BY <1>2, <3>1, <3>2 DEF Prefix
  <2>3. CASE Leave(l, MPOs, 0)
    BY <1>1, <2>3, LeaveMoves, Constants DEF CacheInv
  <2>4. CASE Fresh /\ Leave(l, headers, CachedAge)
    BY <1>1, <2>4, LeaveMoves, CachedIsYoung DEF CacheInv
  <2>5. QED BY <2>1, <2>2, <2>3, <2>4 DEF Resolve
<1>4. TasksOK' /\ FlightOK'
  BY <1>1, <1>3, TaskMoves, FlightMoves DEF CacheInv
<1>5. ListOK' /\ ClockOK'
  BY <1>1, ListSame DEF CacheInv, ClockOK, clock
<1>6. DataOK'
  <2>1. CASE \E m \in Wanted : StartLookup(l, m)
    BY <1>1, <2>1 DEF StartLookup, CacheInv, DataOK, Cache, Genuine
  <2>2. CASE Resolve(l)
    BY <1>1, <2>2 DEF Resolve, CacheInv, DataOK, data
  <2>3. QED BY <2>1, <2>2
<1>7. QED BY <1>4, <1>5, <1>6 DEF CacheInv

\* A search picks its matches from a fresh list.
LEMMA SearchStep ==
  ASSUME CacheInv, NEW s \in Scanners, Search(s)
  PROVE  CacheInv'
<1>1. s \in Workers /\ task[s] = IdleWorker /\ UNCHANGED <<orders, list, flight, data, clock>>
  BY Constants DEF Search
<1>2. Aside(s)
  BY <1>1, LeaveMoves, CachedIsYoung DEF Search, CacheInv, Aside
<1>3. TasksOK' /\ FlightOK'
  BY <1>1, <1>2, IdleTask, TaskMoves, FlightMoves DEF CacheInv, Aside
<1>4. QED BY <1>1, <1>3, ListSame, RestSame DEF CacheInv, clock

\* What is built is genuine, and the worker goes on or is done.
LEMMA BuildStep ==
  ASSUME CacheInv, NEW w \in Workers, Build(w)
  PROVE  CacheInv'
<1>1. task[w].at = "building" /\ UNCHANGED <<orders, list, flight, poDisk, clock>>
  BY DEF Build
<1>2. task \in [Workers -> TaskState] /\ task[w] \in TaskState /\ Prefix(task[w])
  BY DEF CacheInv, TasksOK
<1> DEFINE e == [stamp |-> now, read |-> now, header |-> task[w].header]
<1>3. PICK m \in task[w].got :
        /\ poData' = [poData EXCEPT ![m] = e]
        /\ task' = [task EXCEPT ![w] =
             IF task[w].got = {m} THEN IdleWorker ELSE [task[w] EXCEPT !.got = @ \ {m}]]
  BY DEF Build
<1>4. Aside(w)
  <2> DEFINE u == [task[w] EXCEPT !.got = @ \ {m}]
  <2>1. u \in TaskState /\ u.at = "building" /\ u.header = task[w].header
    BY <1>1, <1>2 DEF TaskState
  <2> HIDE DEF u
  <2>2. Prefix(u) /\ ~Scanning(u)
    BY <1>2, <2>1 DEF Prefix, Scanning
  <2>3. QED BY <1>3, <2>1, <2>2, IdleTask DEF Aside, u
<1>5. TasksOK' /\ FlightOK'
  <2>1. ~Scanning(task[w])
    BY <1>1 DEF Scanning
  <2>2. QED BY <1>1, <1>4, <2>1, TaskMoves, FlightMoves, Constants DEF CacheInv, Aside
<1>6. e \in Entries /\ Genuine(e)
  BY <1>2 DEF CacheInv, ClockOK, Entries, Genuine, Prefix, TaskState
<1> HIDE DEF e
<1>7. DataOK'
  BY <1>1, <1>3, <1>6 DEF CacheInv, DataOK, Cache
<1>8. QED BY <1>1, <1>5, <1>7, ListSame DEF CacheInv, ClockOK, clock

\* A restart reads back what was saved: a whole list, and entries as stamped.
LEMMA RestartStep ==
  ASSUME CacheInv, Restart
  PROVE  CacheInv'
<1>1. UNCHANGED <<orders, disk, poDisk, now>> /\ flight' = Absent
      /\ task' = [w \in Workers |-> IdleWorker] /\ poData' = [m \in Wanted |-> Loaded(m)]
  BY DEF Restart
<1>2. ClockOK'
  BY <1>1, Constants DEF CacheInv, ClockOK, Restart
<1>3. TasksOK' /\ FlightOK'
  BY <1>1, IdleTask, Constants DEF TasksOK, FlightOK
<1>4. DataOK'
  <2>1. \A m \in Wanted : Loaded(m) \in Entries \cup {Absent} /\ Genuine(Loaded(m))
    BY DEF CacheInv, DataOK, Cache, Loaded, Genuine
  <2>2. QED BY <1>1, <2>1 DEF CacheInv, DataOK, Cache
<1>5. ListOK'
  <2>1. 0 \in 0..now' /\ now \in 0..now' /\ 0 \in 0..MaxOrders
    BY <1>1, Constants DEF CacheInv, ClockOK
  <2>2. CASE disk = Absent
    <3>1. headers' = Absent /\ listed' = 0 /\ stamp' = 0 /\ saved' = FALSE
      BY <2>2 DEF Restart
    <3>2. QED BY <1>1, <2>1, <2>2, <3>1 DEF ListOK, CacheIsWhole
  <2>3. CASE disk # Absent
    <3>1. /\ headers' = disk.headers /\ listed' = disk.listed /\ stamp' = now
          /\ saved' \in BOOLEAN
      BY <2>3 DEF Restart
    <3>2. QED BY <1>1, <2>1, <2>3, <3>1 DEF CacheInv, ListOK, CacheIsWhole
  <2>4. QED BY <2>2, <2>3
<1>6. QED BY <1>2, <1>3, <1>4, <1>5 DEF CacheInv

\* The flush, the clock and new orders keep the invariant.
LEMMA WorldStep ==
  ASSUME CacheInv, FlushPOData \/ Tick \/ NextGenAddsOrder \/ UNCHANGED cacheVars
  PROVE  CacheInv'
<1>1. UNCHANGED <<list, flight, task>>
  BY DEF FlushPOData, Tick, NextGenAddsOrder, cacheVars, list
<1>2. TasksOK' /\ FlightOK'
  BY <1>1 DEF CacheInv, TasksOK, FlightOK
<1>3. ClockOK' /\ now <= now'
  BY Constants DEF CacheInv, ClockOK, FlushPOData, Tick, NextGenAddsOrder, cacheVars, clock
<1>4. ListOK'
  <2>1. stamp' \in 0..now'
    BY <1>1, <1>3, Constants DEF CacheInv, ListOK, ClockOK, list
  <2>2. QED BY <1>1, <2>1 DEF CacheInv, ListOK, CacheIsWhole, list
<1>5. DataOK'
  BY DEF CacheInv, DataOK, FlushPOData, Tick, NextGenAddsOrder, cacheVars, data
<1>6. QED BY <1>2, <1>3, <1>4, <1>5 DEF CacheInv

\* The first state: nothing is cached and nobody scans.
LEMMA CacheStart == InitCache => CacheInv
<1> SUFFICES ASSUME InitCache PROVE CacheInv
  OBVIOUS
<1>1. ClockOK
  BY Constants DEF InitCache, ClockOK
<1>2. ListOK
  <2>1. headers = Absent /\ disk = Absent /\ saved = FALSE
    BY DEF InitCache
  <2>2. CacheIsWhole
    BY <2>1, Zenon DEF CacheIsWhole
  <2>3. listed \in 0..MaxOrders /\ stamp \in 0..now
    BY Constants DEF InitCache
  <2>4. QED BY <2>1, <2>2, <2>3, Zenon DEF ListOK
<1>3. TasksOK /\ FlightOK
  BY IdleTask, Constants DEF InitCache, TasksOK, FlightOK
<1>4. DataOK
  BY DEF InitCache, DataOK, Cache, Genuine
<1>5. QED BY <1>1, <1>2, <1>3, <1>4 DEF CacheInv

-----------------------------------------------------------------------------
(* Theorems *)

\* Scans are prefixes, cached lists are whole and entries genuine, always.
THEOREM CacheInvariant == CacheSpec => []CacheInv
<1>1. ASSUME CacheInv, NEW w \in Workers, ScanStep(w) PROVE CacheInv'
  BY <1>1, FirstPageStep, NextPageStep, BuildStep, WindowStep, LookupStep DEF ScanStep
<1>2. ASSUME CacheInv, [NextCache]_cacheVars PROVE CacheInv'
  BY <1>1, <1>2, StartScanStep, SearchStep, LookupStep, RestartStep, WorldStep DEF NextCache
<1>3. QED
  BY CacheStart, <1>2, PTL DEF CacheSpec

\* Types: in particular at most one scanner is at work, and it holds the flight.
THEOREM CacheTypes == CacheSpec => []CacheTypeOK
<1>1. CacheInv => CacheTypeOK
  BY DEF CacheInv, ClockOK, ListOK, FlightOK, TasksOK, DataOK, TaskState, Cache, CacheTypeOK, Scanning
<1>2. QED
  BY CacheInvariant, <1>1, PTL

\* Whatever pages are lost and however many scans overlap, a cached list has every
\* order of its time or, its first page lost, none; files and reloads are whole.
THEOREM ListsHaveNoHoles == CacheSpec => []CacheIsWhole
<1>1. CacheInv => CacheIsWhole
  BY DEF CacheInv, ListOK
<1>2. QED
  BY CacheInvariant, <1>1, PTL

\* PO data that is served has lines younger than a TTL, and a header chosen from a
\* list younger than a TTL or reloaded by a restart: by any path, for any bounds.
THEOREM POsAreDated == CacheSpec => []PODataAge
<1>1. CacheInv => PODataAge
  BY DEF CacheInv, DataOK, Genuine, Young, Served, PODataAge
<1>2. QED
  BY CacheInvariant, <1>1, PTL

\* At most one scan of the order list runs at a time, and the promise that later
\* callers wait for is that of the scan that runs.
ScansShared ==
  /\ \A s, t \in Scanners : Scanning(task[s]) /\ Scanning(task[t]) => s = t
  /\ flight # Absent => flight \in Scanners /\ Scanning(task[flight])

\* A request for the list never starts a second scan, and nobody waits for a
\* scan that has ended: neither a lost page nor a failed login leaves a promise.
THEOREM ScansAreShared == CacheSpec => []ScansShared
<1>1. CacheInv => ScansShared
  BY Constants DEF CacheInv, FlightOK, ScansShared
<1>2. QED
  BY CacheInvariant, <1>1, PTL
=============================================================================
