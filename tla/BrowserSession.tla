---------------------------- MODULE BrowserSession ----------------------------
(***************************************************************************)
(* Session renewal in the browser (frontend/src): the tabs of one browser  *)
(* share one cookie jar; each keeps its access token in memory, renews it  *)
(* through lib/session-refresh.ts, hydrates it through the auth store, and *)
(* learns of a session's end through lib/session-expiry.ts.                *)
(*                                                                         *)
(* What is abstracted: token contents (a pair is a number; pairs fall due  *)
(* and expire in the order they were issued), the requests whose 401 asks  *)
(* for a renewal, the profile in the auth store, the two transports of one *)
(* broadcast.  Access and refresh cookie are set and cleared together, so  *)
(* the jar is one pair; that the browser drops a remembered access cookie  *)
(* when it ages out is a choice of StartGet.                               *)
(***************************************************************************)
EXTENDS RefreshExchange

CONSTANTS
    Tabs,        \* the open tabs
    NoAsk,       \* nobody awaits a renewal
    MaxGestures  \* bound: logins, logouts, reloads and profile refreshes by the user

ASSUME BrowserAssumption == NoAsk \notin Tokens /\ MaxGestures \in Nat

VARIABLES
    jar,      \* the pair in the httpOnly cookies, 0 for none
    dueTo,    \* the pairs whose access token is due for renewal are 1..dueTo
    expTo,    \* the pairs whose access token has expired are 1..expTo
    page,     \* what each tab shows
    mem,      \* accessToken of lib/auth.ts, 0 for null
    latch,    \* terminating of lib/session-expiry.ts
    ask,      \* a renewal is asked for, and the token a 401 is judged by
    get,      \* has the page asked for GET /api/auth/session?
    run,      \* the serialized operation the tab is running
    inbox,    \* is a broadcast on its way to the tab?
    dels,     \* the tabs whose fire-and-forget DELETE is under way
    gestures, \* what the user may still do
    ended,    \* has any tab ended the session other than by a logout?
    signedOut \* has the user logged out?

clockVars   == <<dueTo, expTo>>
tabVars     == <<page, mem, latch, ask, get, run, inbox>>
ghostVars   == <<ended, signedOut>>
browserVars == <<jar, clockVars, tabVars, dels, gestures, ghostVars>>
vars        == <<exchangeVars, browserVars>>

\* "landing": an auth page after a login; "leaving": location.href is set.
PageKinds == {"app", "auth", "site", "landing", "leaving"}
OpKinds   == {"refresh", "hydrate", "probe"}

\* A running operation: it awaits exchange via or, once that is NoSlot, the
\* response with this verdict; "none" is a 401 without Set-Cookie.
Runs == [op : OpKinds \cup {"idle"}, via : Slots \cup {NoSlot}, verdict : Verdicts, got : Tokens, sets : BOOLEAN]

NoRun == [op |-> "idle", via |-> NoSlot, verdict |-> "none", got |-> 0, sets |-> FALSE]

JarOK == jar \in 0..issued /\ dueTo \in 0..issued /\ expTo \in 0..dueTo

PagesOK ==
    /\ page \in [Tabs -> PageKinds] /\ mem \in [Tabs -> Tokens] /\ latch \in [Tabs -> BOOLEAN]
    /\ ask \in [Tabs -> Tokens \cup {NoAsk}] /\ get \in [Tabs -> BOOLEAN] /\ run \in [Tabs -> Runs]

\* An operation awaits only an exchange that will answer.
AwaitsOK ==
    \A t \in Tabs : /\ run[t].got <= issued
                    /\ run[t].via # NoSlot => run[t].sets /\ slot[run[t].via].flying

MessagesOK ==
    /\ inbox \in [Tabs -> BOOLEAN] /\ dels \subseteq Tabs /\ gestures \in 0..MaxGestures
    /\ ended \in BOOLEAN /\ signedOut \in BOOLEAN

TypeOK == ExchangeTypeOK /\ JarOK /\ PagesOK /\ AwaitsOK /\ MessagesOK

\* The user has signed in, with pair 1, in some of the tabs; the others still
\* show the login page, or open the public site.
Init ==
    /\ ExchangeInit
    /\ jar = 1 /\ dueTo = 0 /\ expTo = 0
    /\ page \in [Tabs -> {"app", "auth", "site"}]
    /\ mem = [t \in Tabs |-> IF page[t] = "app" THEN 1 ELSE 0]
    /\ latch = [t \in Tabs |-> FALSE]
    /\ ask = [t \in Tabs |-> NoAsk]
    /\ get = [t \in Tabs |-> page[t] = "site"]
    /\ run = [t \in Tabs |-> NoRun]
    /\ inbox = [t \in Tabs |-> FALSE]
    /\ dels = {} /\ gestures = MaxGestures
    /\ ended = FALSE /\ signedOut = FALSE

Due(p)     == p <= dueTo
Expired(p) == p <= expTo
AccessCookieValid == jar # 0 /\ ~Expired(jar)

\* onAuthSurface.
OnAuthSurface(t) == page[t] \in {"auth", "landing"}

-----------------------------------------------------------------------------
(* Time.                                                                   *)

BecomesDue ==
    /\ dueTo < issued
    /\ dueTo' = dueTo + 1
    /\ UNCHANGED <<exchangeVars, jar, expTo, tabVars, dels, gestures, ghostVars>>

Expires ==
    /\ expTo < dueTo
    /\ expTo' = expTo + 1
    /\ UNCHANGED <<exchangeVars, jar, dueTo, tabVars, dels, gestures, ghostVars>>

-----------------------------------------------------------------------------
(* Who asks for a renewal.  Callers share the request in flight.           *)

Gesture == gestures > 0 /\ gestures' = gestures - 1

\* renewIfNeeded: the token in memory is inside the renewal lead; its expiry,
\* read now, is what a rejection will be judged by.
Watchdog(t) ==
    /\ page[t] \in {"app", "auth", "landing"} /\ mem[t] # 0 /\ Due(mem[t])
    /\ ask[t] = NoAsk
    /\ ask' = [ask EXCEPT ![t] = mem[t]]
    /\ UNCHANGED <<exchangeVars, jar, clockVars, page, mem, latch, get, run, inbox, dels, gestures, ghostVars>>

\* A request of an app page is answered 401, its token being absent or expired:
\* the interceptor takes a rejection for the end of the session at once, as for
\* token 0, which has always expired.
Unauthorized(t) ==
    /\ page[t] = "app" /\ ask[t] # 0
    /\ mem[t] = 0 \/ Expired(mem[t])
    /\ ask' = [ask EXCEPT ![t] = 0]
    /\ UNCHANGED <<exchangeVars, jar, clockVars, page, mem, latch, get, run, inbox, dels, gestures, ghostVars>>

\* refreshSession after the mount: a settings page reloads the profile.
RefreshSession(t) ==
    /\ page[t] = "app" /\ ~get[t] /\ Gesture
    /\ get' = [get EXCEPT ![t] = TRUE]
    /\ UNCHANGED <<exchangeVars, jar, clockVars, page, mem, latch, ask, run, inbox, dels, ghostVars>>

-----------------------------------------------------------------------------
(* Serialized operations.                                                  *)

\* Mutant of LockFree: an operation is chained in its own tab only.
OwnChainFree(t) == run[t] = NoRun

\* serializeSessionOp: the Web Lock is free, and with it the tab's own chain.
LockFree(t) == \A s \in Tabs : run[s] = NoRun

Await(t, op, i)                   == run' = [run EXCEPT ![t] = [NoRun EXCEPT !.op = op, !.via = i, !.sets = TRUE]]
Answer(t, op, verdict, got, sets) ==
    run' = [run EXCEPT ![t] = [op |-> op, via |-> NoSlot, verdict |-> verdict, got |-> got, sets |-> sets]]

\* exchangeRefreshToken for the token in the jar: the remembered answer unless
\* it is too old, the exchange in flight, a new one; a rate-limited gateway
\* proves nothing.
ExchangeCookie(t, op) ==
    \/ recent[jar] # 0 /\ Answer(t, op, "ok", recent[jar], TRUE) /\ UNCHANGED exchangeVars
    \/ \E i \in InFlight(jar) : Await(t, op, i) /\ Join(jar)
    \/ /\ InFlight(jar) = {}
       /\ \E i \in Slots : Launch(i, jar) /\ Await(t, op, i)
    \/ /\ InFlight(jar) = {} /\ \A i \in Slots : slot[i] # FreeSlot
       /\ Answer(t, op, "unavailable", 0, FALSE)
       /\ Join(jar)

\* POST /api/auth/refresh.
StartRefresh(t) ==
    /\ ask[t] # NoAsk /\ LockFree(t)
    /\ \/ jar = 0 /\ Answer(t, "refresh", "none", 0, FALSE) /\ UNCHANGED exchangeVars
       \/ jar # 0 /\ ExchangeCookie(t, "refresh")
    /\ UNCHANGED <<jar, clockVars, page, mem, latch, ask, get, inbox, dels, gestures, ghostVars>>

\* GET /api/auth/session: a valid access cookie is handed back as it is, an
\* expired one is rotated, none (never set, or a remembered one aged out) is 401.
StartGet(t, op) ==
    /\ get[t] /\ LockFree(t)
    /\ \/ AccessCookieValid /\ Answer(t, op, "ok", jar, FALSE) /\ UNCHANGED exchangeVars
       \/ ~AccessCookieValid /\ Answer(t, op, "none", 0, FALSE) /\ UNCHANGED exchangeVars
       \/ jar # 0 /\ Expired(jar) /\ ExchangeCookie(t, op)
    /\ UNCHANGED <<jar, clockVars, page, mem, latch, ask, get, inbox, dels, gestures, ghostVars>>

StartHydrate(t) == page[t] # "site" /\ StartGet(t, "hydrate")

\* The badge of the public site, whose fetch has no timeout of its own.
StartProbe(t) == page[t] = "site" /\ StartGet(t, "probe")

\* The exchange behind an operation is settled: its response is on the way.
Inform(i, verdict, p) ==
    run' = [t \in Tabs |-> IF run[t].via = i THEN [run[t] EXCEPT !.via = NoSlot, !.verdict = verdict, !.got = p]
                           ELSE run[t]]

Answered(t, op, verdicts) == run[t].op = op /\ run[t].via = NoSlot /\ run[t].verdict \in verdicts

\* Mutant of SetCookie: a hydration does not pass the rotated cookies on.
SetCookieByRefresh(t) ==
    jar' = IF run[t].op # "refresh" THEN jar
           ELSE CASE run[t].sets /\ run[t].verdict = "ok"       -> run[t].got
                  [] run[t].sets /\ run[t].verdict = "rejected" -> 0
                  [] OTHER                                      -> jar

\* The Set-Cookie of the response.
SetCookie(t) ==
    jar' = CASE run[t].sets /\ run[t].verdict = "ok"       -> run[t].got
             [] run[t].sets /\ run[t].verdict = "rejected" -> 0
             [] OTHER                                      -> jar

Release(t) == run' = [run EXCEPT ![t] = NoRun]

-----------------------------------------------------------------------------
(* The end of a session.                                                   *)

Broadcast(t) == inbox' = [s \in Tabs |-> inbox[s] \/ (s # t /\ page[s] # "site")]

\* expireSession.
ExpireSession(t) ==
    \/ /\ OnAuthSurface(t)
       /\ mem' = [mem EXCEPT ![t] = 0]
       /\ UNCHANGED <<page, latch, inbox, dels, ended>>
    \/ /\ ~OnAuthSurface(t) /\ latch[t]
       /\ UNCHANGED <<page, mem, latch, inbox, dels, ended>>
    \/ /\ ~OnAuthSurface(t) /\ ~latch[t]
       /\ latch' = [latch EXCEPT ![t] = TRUE]
       /\ mem' = [mem EXCEPT ![t] = 0]
       /\ page' = [page EXCEPT ![t] = "leaving"]
       /\ dels' = dels \cup {t}
       /\ Broadcast(t)
       /\ ended' = TRUE

RefreshOk(t) ==
    /\ Answered(t, "refresh", {"ok"})
    /\ SetCookie(t) /\ Release(t)
    /\ mem' = [mem EXCEPT ![t] = run[t].got]
    /\ ask' = [ask EXCEPT ![t] = NoAsk]
    /\ UNCHANGED <<exchangeVars, clockVars, page, latch, get, inbox, dels, gestures, ghostVars>>

\* Mutants of RefreshTerminal: a 503 ends the session too; and a 401 does not
\* stop the caller from asking again.
EndOnTransient(t) ==
    /\ Answered(t, "refresh", {"rejected", "none", "unavailable"})
    /\ SetCookie(t) /\ Release(t)
    /\ ask' = [ask EXCEPT ![t] = NoAsk]
    /\ IF Expired(ask[t]) THEN ExpireSession(t) ELSE UNCHANGED <<page, mem, latch, inbox, dels, ended>>
    /\ UNCHANGED <<exchangeVars, clockVars, get, gestures, signedOut>>

RetryTerminal(t) ==
    /\ Answered(t, "refresh", {"rejected", "none"})
    /\ SetCookie(t) /\ Release(t)
    /\ UNCHANGED <<exchangeVars, clockVars, page, mem, latch, ask, get, inbox, dels, gestures, ghostVars>>

\* A 401: the interceptor ends the session; the watchdog does so only when the
\* token it had read has expired by now.
RefreshTerminal(t) ==
    /\ Answered(t, "refresh", {"rejected", "none"})
    /\ SetCookie(t) /\ Release(t)
    /\ ask' = [ask EXCEPT ![t] = NoAsk]
    /\ IF Expired(ask[t]) THEN ExpireSession(t) ELSE UNCHANGED <<page, mem, latch, inbox, dels, ended>>
    /\ UNCHANGED <<exchangeVars, clockVars, get, gestures, signedOut>>

\* 503: the callers give up for now.
RefreshTransient(t) ==
    /\ Answered(t, "refresh", {"unavailable"})
    /\ Release(t)
    /\ ask' = [ask EXCEPT ![t] = NoAsk]
    /\ UNCHANGED <<exchangeVars, jar, clockVars, page, mem, latch, get, inbox, dels, gestures, ghostVars>>

HydrateOk(t) ==
    /\ Answered(t, "hydrate", {"ok"})
    /\ SetCookie(t) /\ Release(t)
    /\ mem' = [mem EXCEPT ![t] = run[t].got]
    /\ get' = [get EXCEPT ![t] = FALSE]
    /\ UNCHANGED <<exchangeVars, clockVars, page, latch, ask, inbox, dels, gestures, ghostVars>>

\* Without a session in the store, PermissionRedirect replaces an app page by
\* /login, which the middleware turns back while the access cookie is valid.
GuardRedirect(t, cookie) ==
    page' = [page EXCEPT ![t] = IF @ = "app" /\ (cookie = 0 \/ Expired(cookie)) THEN "auth" ELSE @]

\* Any other outcome leaves the store unauthenticated, a 503 included.
HydrateFails(t) ==
    /\ Answered(t, "hydrate", {"rejected", "none", "unavailable"})
    /\ SetCookie(t) /\ Release(t)
    /\ get' = [get EXCEPT ![t] = FALSE]
    /\ GuardRedirect(t, jar')
    /\ UNCHANGED <<exchangeVars, clockVars, mem, latch, ask, inbox, dels, gestures, ghostVars>>

ProbeDone(t) ==
    /\ Answered(t, "probe", Verdicts)
    /\ SetCookie(t) /\ Release(t)
    /\ get' = [get EXCEPT ![t] = FALSE]
    /\ UNCHANGED <<exchangeVars, clockVars, page, mem, latch, ask, inbox, dels, gestures, ghostVars>>

Deliver(t) ==
    RefreshOk(t) \/ RefreshTerminal(t) \/ RefreshTransient(t) \/ HydrateOk(t) \/ HydrateFails(t) \/ ProbeDone(t)

\* Dropping the answer of an exchange is a mishap.
DropAnswer(t) == mishap' = (mishap \/ run[t].sets)

\* The client's timer on a slow exchange, or a network failure: the answer and
\* its cookies are lost to this browser, and nothing is proved.
Aborted(t) ==
    /\ \/ run[t].via # NoSlot /\ slot[run[t].via].slow /\ UNCHANGED budget
       \/ Fault
    /\ DropAnswer(t) /\ Release(t)
    /\ UNCHANGED <<iamVars, slot, recent, reused, jar, clockVars, mem, latch, inbox, dels, gestures, ghostVars>>

\* REFRESH_TIMEOUT_MS.
RefreshAborted(t) ==
    /\ run[t].op = "refresh" /\ Aborted(t)
    /\ ask' = [ask EXCEPT ![t] = NoAsk]
    /\ UNCHANGED <<page, get>>

HydrateAborted(t) ==
    /\ run[t].op = "hydrate" /\ Aborted(t)
    /\ get' = [get EXCEPT ![t] = FALSE]
    /\ GuardRedirect(t, jar)
    /\ UNCHANGED ask

-----------------------------------------------------------------------------
(* Logging in and out, broadcasts, page loads.                             *)

\* login: the gateway issues a pair, storeSessionInBFF (not serialized) puts it
\* into the jar, setAccessToken into memory.
Login(t) ==
    /\ page[t] = "auth" /\ account = "open" /\ Gesture
    /\ Issue(0)
    /\ jar' = issued + 1
    /\ mem' = [mem EXCEPT ![t] = issued + 1]
    /\ page' = [page EXCEPT ![t] = "landing"]
    /\ UNCHANGED <<accountVars, slot, recent, reused, mishap, budget>>
    /\ UNCHANGED <<clockVars, latch, ask, get, run, inbox, dels, ghostVars>>

\* navigateAfterAuth: a client-side navigation past the middleware; the app
\* layout hydrates on mount and the tab's module state survives.
Land(t) ==
    /\ page[t] = "landing"
    /\ page' = [page EXCEPT ![t] = IF AccessCookieValid THEN "app" ELSE "auth"]
    /\ get' = [get EXCEPT ![t] = get[t] \/ AccessCookieValid]
    /\ UNCHANGED <<exchangeVars, jar, clockVars, mem, latch, ask, run, inbox, dels, gestures, ghostVars>>

\* logout: the POST to the gateway has no body and revokes nothing; the DELETE
\* of the cookies is awaited but may fail.
Logout(t) ==
    /\ page[t] = "app" /\ Gesture
    /\ \/ jar' = 0 /\ UNCHANGED budget
       \/ Fault /\ UNCHANGED jar
    /\ mem' = [mem EXCEPT ![t] = 0]
    /\ page' = [page EXCEPT ![t] = "leaving"]
    /\ Broadcast(t)
    /\ signedOut' = TRUE
    /\ UNCHANGED <<iamVars, slot, recent, reused, mishap, clockVars, latch, ask, get, run, dels, ended>>

\* initAuthSync's handler.
Hear(t) ==
    /\ inbox[t]
    /\ inbox' = [inbox EXCEPT ![t] = FALSE]
    /\ IF latch[t] THEN UNCHANGED <<mem, latch, page>>
       ELSE /\ latch' = [latch EXCEPT ![t] = TRUE]
            /\ mem' = [mem EXCEPT ![t] = 0]
            /\ page' = IF OnAuthSurface(t) THEN page ELSE [page EXCEPT ![t] = "leaving"]
    /\ UNCHANGED <<exchangeVars, jar, clockVars, ask, get, run, dels, gestures, ghostVars>>

\* The DELETE of expireSession takes effect.
ClearCookies(t) ==
    /\ t \in dels
    /\ jar' = 0
    /\ dels' = dels \ {t}
    /\ UNCHANGED <<exchangeVars, clockVars, tabVars, gestures, ghostVars>>

\* A full page load: module state starts afresh and what the old document was
\* waiting for is lost, its DELETE included.  The middleware admits an app
\* page, and refuses the login page, exactly while the access cookie is valid.
PageLoad(t, kind) ==
    /\ kind = (IF AccessCookieValid THEN "app" ELSE "auth") \/ kind = "site"
    /\ Gesture \/ (page[t] = "leaving" /\ kind # "site" /\ UNCHANGED gestures)
    /\ page' = [page EXCEPT ![t] = kind]
    /\ get' = [get EXCEPT ![t] = kind # "auth"]
    /\ DropAnswer(t) /\ Release(t)
    /\ mem' = [mem EXCEPT ![t] = 0]
    /\ latch' = [latch EXCEPT ![t] = FALSE]
    /\ ask' = [ask EXCEPT ![t] = NoAsk]
    /\ inbox' = [inbox EXCEPT ![t] = FALSE]
    /\ dels' = dels \ {t}
    /\ UNCHANGED <<iamVars, slot, recent, reused, budget, jar, clockVars, ghostVars>>

-----------------------------------------------------------------------------
\* What the web server learns of an exchange it passes on.
ExchangeSettles(i) ==
    /\ \/ BffReceive(i) /\ Inform(i, slot[i].verdict, slot[i].next)
       \/ BffAbort(i) /\ Inform(i, "unavailable", 0)
    /\ UNCHANGED <<jar, clockVars, page, mem, latch, ask, get, inbox, dels, gestures, ghostVars>>

ServerStep ==
    /\ \/ \E i \in Slots : GatewayStep(i) \/ SlowDown(i)
       \/ AccountStep
    /\ UNCHANGED browserVars

TabStep(t) ==
    \/ Watchdog(t) \/ Unauthorized(t) \/ RefreshSession(t)
    \/ StartRefresh(t) \/ StartHydrate(t) \/ StartProbe(t)
    \/ Deliver(t) \/ RefreshAborted(t) \/ HydrateAborted(t)
    \/ Login(t) \/ Land(t) \/ Logout(t) \/ Hear(t) \/ ClearCookies(t)
    \/ \E kind \in {"app", "auth", "site"} : PageLoad(t, kind)

Next ==
    \/ ServerStep \/ BecomesDue \/ Expires
    \/ \E i \in Slots : ExchangeSettles(i)
    \/ \E t \in Tabs : TabStep(t)

Spec == Init /\ [][Next]_vars

\* What the schedulers owe: a request that is not slow is handled, the timer of
\* a slow one fires, the answer of a timed operation reaches its tab, and the
\* Web Lock is granted in the order it is asked for.  Nothing is owed to a
\* probe, whose fetch no timer bounds.
ServerFairness(i) ==
    /\ WF_vars(~slot[i].slow /\ GatewayStep(i) /\ UNCHANGED browserVars)
    /\ WF_vars(ExchangeSettles(i))

TabFairness(t) ==
    /\ WF_vars(run[t].op # "probe" /\ Deliver(t))
    /\ SF_vars(StartRefresh(t))

LiveSpec == Spec /\ (\A i \in Slots : ServerFairness(i)) /\ (\A t \in Tabs : TabFairness(t))

-----------------------------------------------------------------------------
(* Properties.                                                             *)

\* Reuse detection never fires because tabs raced: it takes for stolen only the
\* tokens whose rows an operation on the account deleted, until some exchange
\* has lost its answer or failed half-way (lib/session-refresh.ts: "a harmless
\* extra rotation, never a replay").
ReuseExplained == \A p \in reused : p \in revoked \/ mishap

\* Nobody is logged out for nothing: a tab ends the session only after a
\* logout, a closing of the account, a deletion of the user's sessions by an
\* operation on the account, or a mishap of some exchange.
NoLogoutForNothing == ended => signedOut \/ barred \/ revoked # {} \/ mishap

\* Of one token and the pairs rotated from it at most one is live, unless an
\* exchange was abandoned or failed half-way (auth_service.go RefreshToken is
\* not one transaction, and its delete does not look at the rows it affected).
ForksExplained ==
    \A p \in live : parent[p] # 0 =>
        mishap \/ (parent[p] \notin live /\ \A q \in live : parent[q] = parent[p] => p = q)

\* The cookies stay usable: the refresh token in the jar is live, or its row
\* was deleted by an operation on the account, or it has been spent or revoked
\* by an operation whose response is still to come, unless an exchange lost its
\* answer or failed half-way.
CookieUsable ==
    jar # 0 /\ jar \notin live => jar \in revoked \/ mishap \/ \E t \in Tabs : run[t].sets

\* Only a probe that hangs can keep a renewal from being settled: serialized
\* operations, shared exchanges, slow answers and reloads cannot.
RenewalSettlesOrProbeHangs ==
    \A t \in Tabs : ask[t] # NoAsk ~> (ask[t] = NoAsk \/ \E s \in Tabs : run[s].op = "probe")

\* No app page stays open with its session-end handling switched off.
NotStranded == \A t \in Tabs : page[t] = "app" => ~latch[t]
=============================================================================
