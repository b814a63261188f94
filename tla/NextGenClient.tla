---------------------------- MODULE NextGenClient ----------------------------
(***************************************************************************)
(* The HTTP client for NextGen (nextGenService.ts): every request goes     *)
(* through fetchWithTimeout, which admits MaxConcurrent requests, keeps    *)
(* the rest in a FIFO queue and stops asking for a while after             *)
(* FailureThreshold failures in a row.  Four helpers use it: post/get      *)
(* ("read"), postForm ("form"), postWrite ("write") and postWriteForm      *)
(* ("writeForm").  Each asks once, logs in again and asks once more when   *)
(* the reply says the session is gone.                                     *)
(*                                                                         *)
(* A cookie is the server it came from.  What a reply carries is left out: *)
(* a reply is the class the helpers tell apart.  The test server's login   *)
(* uses plain fetch, outside the queue and the breaker.                    *)
(***************************************************************************)
EXTENDS Naturals, Sequences, FiniteSets, SequencesExt

CONSTANTS
  Callers,          \* callers of the helpers
  KindsOf,          \* the helpers a caller uses
  None,
  MaxConcurrent,    \* NEXTGEN_MAX_CONCURRENT_REQUESTS
  FailureThreshold  \* NEXTGEN_FAILURE_THRESHOLD

Kinds == {"read", "form", "write", "writeForm"}
Servers == {"production", "test"}

ASSUME ClientAssumption ==
  /\ IsFiniteSet(Callers)
  /\ KindsOf \in [Callers -> SUBSET Kinds]
  /\ MaxConcurrent \in Nat \ {0} /\ FailureThreshold \in Nat \ {0}
  /\ None \notin Servers

VARIABLES
  call,              \* what each caller is doing
  activeRequests, requestWaiters,
  failures,          \* consecutive_failures, counted up to the threshold
  cooldown,          \* now < cooldown_until
  sessionCookie,     \* the server whose login set it
  cookieOld,         \* older than COOKIE_MAX_AGE
  loginInProgress

vars == <<call, activeRequests, requestWaiters, failures, cooldown,
          sessionCookie, cookieOld, loginInProgress>>
slots == <<activeRequests, requestWaiters>>
breaker == <<failures, cooldown>>
session == <<sessionCookie, cookieOld>>

Idle == [at |-> "idle", kind |-> "read", stage |-> "ready", asked |-> FALSE, cookie |-> None]
InStage(s) == {c \in Callers : call[c].stage = s}

TypeOK ==
  /\ call \in [Callers -> [at : {"idle", "ask", "page", "credentials",
                                 "testLogin", "testWait"},
                           kind : Kinds, asked : BOOLEAN,
                           stage : {"ready", "waiting", "granted", "sent"},
                           cookie : Servers \cup {None}]]
  /\ \A c \in Callers :
       call[c].at \in {"ask", "page", "credentials"} \/ call[c].stage = "ready"
  /\ activeRequests \in 0..Cardinality(Callers)
  /\ requestWaiters \in Seq(Callers)
  /\ failures \in 0..FailureThreshold /\ cooldown \in BOOLEAN
  /\ sessionCookie \in Servers \cup {None} /\ cookieOld \in BOOLEAN
  /\ (cookieOld => sessionCookie # None)
  /\ loginInProgress \in BOOLEAN

Init ==
  /\ call = [c \in Callers |-> Idle]
  /\ activeRequests = 0 /\ requestWaiters = <<>>
  /\ failures = 0 /\ cooldown = FALSE
  /\ sessionCookie = None /\ cookieOld = FALSE
  /\ loginInProgress = FALSE

-----------------------------------------------------------------------------
(* A call *)

Server(kind) == IF kind \in {"write", "writeForm"} THEN "test" ELSE "production"
HasSession == sessionCookie # None /\ ~cookieOld

\* The replies after which a helper logs in and asks again.
RetryOn(kind) ==
  CASE kind = "read"      -> {"expired", "page"}
    [] kind = "form"      -> {"expired", "page", "failed"}
    [] kind = "write"     -> {"expired"}
    [] kind = "writeForm" -> {"expired", "page", "garbled"}

Done(c) == call' = [call EXCEPT ![c] = Idle] /\ UNCHANGED loginInProgress
Proceed(c, t, at) ==
  call' = [call EXCEPT ![c] = [t EXCEPT !.at = at, !.stage = "ready", !.cookie = None]]

LoginFree == ~loginInProgress

\* login, or loginToTestEnv: a second caller of the latter only waits 2 s.
LogIn(c, t) ==
  \/ /\ Server(t.kind) = "production"
     /\ Proceed(c, t, "page") /\ UNCHANGED loginInProgress
  \/ /\ Server(t.kind) = "test" /\ LoginFree
     /\ Proceed(c, t, "testLogin") /\ loginInProgress' = TRUE
  \/ /\ Server(t.kind) = "test" /\ ~LoginFree
     /\ Proceed(c, t, "testWait") /\ UNCHANGED loginInProgress

Start(c) ==
  /\ call[c] = Idle
  /\ \E kind \in KindsOf[c] :
       LET t == [Idle EXCEPT !.kind = kind]
       IN  \/ HasSession /\ Proceed(c, t, "ask") /\ UNCHANGED loginInProgress
           \/ ~HasSession /\ LogIn(c, t)
  /\ UNCHANGED <<slots, breaker, session>>

-----------------------------------------------------------------------------
(* fetchWithTimeout *)

\* The breaker is looked at before the queue; the cookie is read here.  In a
\* cooldown the error ends the call: login turns it into "not logged in".
Issue(c) ==
  /\ call[c].at \in {"ask", "page", "credentials"} /\ call[c].stage = "ready"
  /\ \/ cooldown /\ Done(c) /\ UNCHANGED slots
     \/ /\ ~cooldown
        /\ LET full == activeRequests >= MaxConcurrent
               cookie == IF call[c].at = "ask" THEN sessionCookie ELSE None
           IN  /\ call' = [call EXCEPT ![c].cookie = cookie,
                             ![c].stage = IF full THEN "waiting" ELSE "sent"]
               /\ activeRequests' = IF full THEN activeRequests ELSE activeRequests + 1
               /\ requestWaiters' = IF full THEN Append(requestWaiters, c)
                                    ELSE requestWaiters
        /\ UNCHANGED loginInProgress
  /\ UNCHANGED <<breaker, session>>

\* The awaited promise of acquireRequestSlot has resolved.
Resume(c) ==
  /\ call[c].stage = "granted"
  /\ call' = [call EXCEPT ![c].stage = "sent"]
  /\ activeRequests' = activeRequests + 1
  /\ UNCHANGED <<requestWaiters, breaker, session, loginInProgress>>

\* The finally of fetchWithTimeout: `moved` is call once the caller has its
\* reply r; the first waiter's promise resolves.
Released(moved) ==
  /\ activeRequests' = activeRequests - 1
  /\ requestWaiters' = IF requestWaiters = <<>> THEN <<>> ELSE Tail(requestWaiters)
  /\ call' = IF requestWaiters = <<>> THEN moved
             ELSE [moved EXCEPT ![Head(requestWaiters)].stage = "granted"]

\* Faulty variant: a request that throws keeps its slot.
ReleaseUnlessLost(moved, r) ==
  IF r = "lost" THEN UNCHANGED slots /\ call' = moved ELSE Released(moved)
\* Faulty variant: catch and finally both give the slot back.
ReleaseTwice(moved, r) ==
  IF r = "lost"
  THEN activeRequests' = activeRequests - 2 /\ UNCHANGED requestWaiters /\ call' = moved
  ELSE Released(moved)
ReleaseRequestSlot(moved, r) == Released(moved)

\* Any reply that is not 2xx is a failure, the 302 of a login included.
CountReply(r) ==
  LET ok == r \in {"ok", "garbled", "page"}
      more == IF failures < FailureThreshold THEN failures + 1 ELSE failures
  IN  /\ failures' = IF ok THEN 0 ELSE more
      /\ cooldown' = (cooldown \/ (~ok /\ more >= FailureThreshold))

\* What the server may answer: it knows only its own sessions.
Replies(t) ==
  CASE t.at = "page" -> {"ok", "garbled", "failed", "lost"}
    [] t.at = "credentials" -> {"redirect", "page", "failed", "lost"}
    [] t.at = "ask" ->
         {"page", "expired", "refused", "failed", "lost"} \cup
         (IF t.cookie = Server(t.kind) THEN {"ok", "garbled"} ELSE {})

\* Faulty variant: the second refusal is retried like the first.
RetryAgain(t, r) == r \in RetryOn(t.kind)
MayRetry(t, r) == ~t.asked /\ r \in RetryOn(t.kind)

\* A reply, or the timeout of the request ("lost"), and what the helper does.  The
\* abort timer stops at the headers: that a body then ends too is left to fetch.
Reply(c) ==
  /\ call[c].stage = "sent"
  /\ \E r \in Replies(call[c]) :
       LET t == [call[c] EXCEPT !.stage = "ready", !.cookie = None]
           To(u) == [call EXCEPT ![c] = u]
           again == Server(t.kind) = "test"
       IN  /\ CountReply(r)
           /\ \/ /\ t.at = "page" /\ r = "ok"
                 /\ ReleaseRequestSlot(To([t EXCEPT !.at = "credentials"]), r)
                 /\ UNCHANGED <<session, loginInProgress>>
              \/ /\ t.at = "credentials" /\ r = "redirect"
                 /\ sessionCookie' = "production" /\ cookieOld' = FALSE
                 /\ ReleaseRequestSlot(To([t EXCEPT !.at = "ask"]), r)
                 /\ UNCHANGED loginInProgress
              \/ /\ t.at = "ask" /\ MayRetry(t, r)
                 /\ ReleaseRequestSlot(To([t EXCEPT !.asked = TRUE,
                      !.at = CASE ~again -> "page"
                               [] again /\ LoginFree -> "testLogin"
                               [] again /\ ~LoginFree -> "testWait"]), r)
                 /\ loginInProgress' = (loginInProgress \/ again)
                 /\ UNCHANGED session
              \/ /\ \/ t.at = "page" /\ r # "ok"
                    \/ t.at = "credentials" /\ r # "redirect"
                    \/ t.at = "ask" /\ ~MayRetry(t, r)
                 /\ ReleaseRequestSlot(To(Idle), r)
                 /\ UNCHANGED <<session, loginInProgress>>

-----------------------------------------------------------------------------
(* The test server's login, and time *)

TestLogin(c) ==
  /\ call[c].at = "testLogin"
  /\ loginInProgress' = FALSE
  /\ \/ /\ sessionCookie' = "test" /\ cookieOld' = FALSE
        /\ Proceed(c, call[c], "ask")
     \/ /\ call' = [call EXCEPT ![c] = Idle]
        /\ UNCHANGED session
  /\ UNCHANGED <<slots, breaker>>

TestWait(c) ==
  /\ call[c].at = "testWait"
  /\ \/ HasSession /\ Proceed(c, call[c], "ask") /\ UNCHANGED loginInProgress
     \/ ~HasSession /\ Done(c)
  /\ UNCHANGED <<slots, breaker, session>>

CooldownEnds ==
  /\ cooldown /\ cooldown' = FALSE
  /\ UNCHANGED <<call, slots, failures, session, loginInProgress>>

CookieAges ==
  /\ HasSession /\ cookieOld' = TRUE
  /\ UNCHANGED <<call, slots, breaker, sessionCookie, loginInProgress>>

Continue(c) == Issue(c) \/ Resume(c) \/ Reply(c) \/ TestLogin(c) \/ TestWait(c)

Next ==
  \/ \E c \in Callers : Start(c) \/ Continue(c)
  \/ CooldownEnds
  \/ CookieAges

\* Every request is aborted after FETCH_TIMEOUT_MS (a body that hangs after its
\* headers, by the timeout of fetch itself) and every continuation runs.
Spec == Init /\ [][Next]_vars /\ \A c \in Callers : WF_vars(Continue(c))

-----------------------------------------------------------------------------
(* Properties *)

\* activeRequests counts exactly the requests out, and nobody waits while a
\* slot is free and promised to no one: no slot is lost on any path out of
\* fetchWithTimeout and no waiter is forgotten.
NoSlotIsLost ==
  /\ activeRequests = Cardinality(InStage("sent"))
  /\ ToSet(requestWaiters) = InStage("waiting")
  /\ requestWaiters # <<>> =>
       activeRequests + Cardinality(InStage("granted")) >= MaxConcurrent

\* Every call comes back: whatever the servers answer, with any mixture of
\* queueing, cooldowns, expired sessions and logins that fail.
EveryCallReturns ==
  \A c \in Callers : call[c].at # "idle" ~> call[c].at = "idle"
=============================================================================
