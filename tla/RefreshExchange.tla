--------------------------- MODULE RefreshExchange ---------------------------
(***************************************************************************)
(* The server side of session renewal, for one user: the sessions table of *)
(* the identity service (backend/internal/iam), whose refresh tokens are   *)
(* single-use and whose reuse revokes every session of the user, the       *)
(* operations on the account that delete rows of that table, and the       *)
(* per-token single flight of the web server in front of it                *)
(* (frontend/src/lib/bff-refresh.ts).                                      *)
(*                                                                         *)
(* A token pair is a number: pair p is access token p with refresh token   *)
(* p, in the order they are issued.  A slot is one request from the web    *)
(* server to the identity service; its step names the statement that runs  *)
(* next.  A request is handled to its end even when the web server has     *)
(* given up on it.                                                         *)
(***************************************************************************)
EXTENDS Integers, FiniteSets

CONSTANTS
    MaxPairs,   \* bound: token pairs issued
    Slots,      \* bound: exchanges under way at once
    MaxFaults   \* bound: slow requests, lost answers, failed statements, account operations

\* What an operation that awaits no exchange awaits.
NoSlot == 0

ASSUME ExchangeAssumption ==
    /\ MaxPairs \in Nat \ {0}
    /\ MaxFaults \in Nat
    /\ NoSlot \notin Slots

VARIABLES
    issued,   \* how many pairs the identity service has issued
    live,     \* the refresh tokens with a row in the sessions table
    parent,   \* the refresh token each pair was rotated from, 0 for a login
    account,  \* may its holder sign in?
    purges,   \* account operations that have yet to delete the user's sessions
    barred,   \* has the account ever been closed to its holder?
    revoked,  \* the refresh tokens whose rows operations on the account deleted
    slot,     \* the exchanges under way
    recent,   \* recentOk: the answer remembered for a spent token, 0 if none
    reused,   \* the tokens that reuse detection took for stolen ones
    mishap,   \* has an exchange ever lost its answer or failed half-way?
    budget    \* faults left

accountVars  == <<account, purges, barred, revoked>>
iamVars      == <<issued, live, parent, accountVars>>
exchangeVars == <<iamVars, slot, recent, reused, mishap, budget>>

Pairs    == 1..MaxPairs
Tokens   == 0..MaxPairs
Steps    == {"free", "lookup", "revoke", "delete", "check", "create", "answer"}
Verdicts == {"ok", "rejected", "unavailable", "none"}

\* "open": active, or not yet verified; "barred": suspended or inactive.
AccountStates == {"open", "barred", "deleted"}

\* flying: the web server still awaits the answer; slow: its timers may fire.
Requests == [token : Tokens, step : Steps, verdict : Verdicts, next : Tokens, flying : BOOLEAN, slow : BOOLEAN]

FreeSlot == [token |-> 0, step |-> "free", verdict |-> "none", next |-> 0, flying |-> FALSE, slow |-> FALSE]

IamOK ==
    /\ issued \in Pairs /\ live \subseteq 1..issued /\ revoked \subseteq 1..issued
    /\ account \in AccountStates /\ purges \in Nat /\ barred \in BOOLEAN
    /\ parent \in [Pairs -> Tokens]
    /\ \A p \in Pairs : parent[p] <= issued

\* Nobody takes the answer to a request the web server has given up on.
BffOK ==
    /\ slot \in [Slots -> Requests] /\ recent \in [Pairs -> Tokens]
    /\ \A i \in Slots : /\ slot[i].step = "answer" => slot[i].flying
                        /\ slot[i].token <= issued /\ slot[i].next <= issued
    /\ \A p \in Pairs : recent[p] <= issued

HistoryOK == reused \subseteq Tokens /\ mishap \in BOOLEAN /\ budget \in 0..MaxFaults

ExchangeTypeOK == IamOK /\ BffOK /\ HistoryOK

ExchangeInit ==
    /\ issued = 1 /\ live = {1} /\ parent = [p \in Pairs |-> 0]
    /\ account = "open" /\ purges = 0 /\ barred = FALSE /\ revoked = {}
    /\ slot = [i \in Slots |-> FreeSlot]
    /\ recent = [p \in Pairs |-> 0]
    /\ reused = {} /\ mishap = FALSE /\ budget = MaxFaults

-----------------------------------------------------------------------------
(* The identity service.                                                   *)

\* generateTokens: a fresh pair and its session row.
Issue(from) ==
    /\ issued < MaxPairs
    /\ issued' = issued + 1
    /\ live' = live \cup {issued + 1}
    /\ parent' = [parent EXCEPT ![issued + 1] = from]

\* The request of slot i goes on to step s.
Proceed(i, s) == slot' = [slot EXCEPT ![i].step = s]

\* Mutant of Reply: the answer waits for a web server that has given up.
ReplyToNobody(i, v, p) == slot' = [slot EXCEPT ![i] = [@ EXCEPT !.step = "answer", !.verdict = v, !.next = p]]

\* The identity service answers slot i: to nobody if the web server gave up.
Reply(i, v, p) ==
    slot' = [slot EXCEPT ![i] = IF @.flying THEN [@ EXCEPT !.step = "answer", !.verdict = v, !.next = p]
                                ELSE FreeSlot]

Fault == budget > 0 /\ budget' = budget - 1

\* The gateway turns a request away (rate limit, no upstream) before the
\* identity service has seen it.
GatewayRefuses(i) ==
    /\ slot[i].step = "lookup"
    /\ Fault
    /\ Reply(i, "unavailable", 0)
    /\ UNCHANGED <<iamVars, recent, reused, mishap>>

\* GetByTokenHash: any error of the query is taken for a missing row, and a
\* missing row for a replayed token.
Lookup(i) ==
    /\ slot[i].step = "lookup"
    /\ \/ slot[i].token \in live /\ Proceed(i, "delete") /\ UNCHANGED <<mishap, budget>>
       \/ slot[i].token \notin live /\ Proceed(i, "revoke") /\ UNCHANGED <<mishap, budget>>
       \/ Fault /\ Proceed(i, "revoke") /\ mishap' = TRUE
    /\ UNCHANGED <<iamVars, recent, reused>>

\* Reuse detection: DeleteByUserID, whose error is ignored, then ErrInvalidToken.
RevokeAll(i) ==
    /\ slot[i].step = "revoke"
    /\ \/ live' = {} /\ UNCHANGED budget
       \/ Fault /\ UNCHANGED live
    /\ Reply(i, "rejected", 0)
    /\ reused' = reused \cup {slot[i].token}
    /\ UNCHANGED <<issued, parent, accountVars, recent, mishap>>

\* Mutant of DeleteOld: the old session survives its rotation.
KeepOld(i) ==
    /\ slot[i].step = "delete"
    /\ Proceed(i, "check")
    /\ UNCHANGED <<iamVars, recent, reused, mishap, budget>>

\* Delete(session.ID): rows affected are not looked at and an error is only logged.
DeleteOld(i) ==
    /\ slot[i].step = "delete"
    /\ \/ live' = live \ {slot[i].token} /\ UNCHANGED <<mishap, budget>>
       \/ Fault /\ mishap' = TRUE /\ UNCHANGED live
    /\ Proceed(i, "check")
    /\ UNCHANGED <<issued, parent, accountVars, recent, reused>>

\* The token is spent and its owner gets neither a pair nor a definitive answer.
FailHalfway(i) == Reply(i, "unavailable", 0) /\ mishap' = TRUE

\* GetByID and the status of the account: a closed one is a definitive 403, a
\* deleted one a 404, which the web server takes for an outage.
CheckAccount(i) ==
    /\ slot[i].step = "check"
    /\ \/ account = "open" /\ Proceed(i, "create") /\ UNCHANGED <<mishap, budget>>
       \/ account = "barred" /\ Reply(i, "rejected", 0) /\ UNCHANGED <<mishap, budget>>
       \/ account = "deleted" /\ FailHalfway(i) /\ UNCHANGED budget
       \/ Fault /\ FailHalfway(i)
    /\ UNCHANGED <<iamVars, recent, reused>>

\* A pair is issued, whatever became of the account since; or a statement
\* fails, as it always does at the bound on pairs.
CreateNew(i) ==
    /\ slot[i].step = "create"
    /\ \/ Issue(slot[i].token) /\ Reply(i, "ok", issued + 1) /\ UNCHANGED <<mishap, budget>>
       \/ /\ Fault \/ (issued = MaxPairs /\ UNCHANGED budget)
          /\ FailHalfway(i)
          /\ UNCHANGED <<issued, live, parent>>
    /\ UNCHANGED <<accountVars, recent, reused>>

IamStep(i) == Lookup(i) \/ RevokeAll(i) \/ DeleteOld(i) \/ CheckAccount(i) \/ CreateNew(i)

GatewayStep(i) == GatewayRefuses(i) \/ IamStep(i)

-----------------------------------------------------------------------------
(* Operations on the account, by its holder or an administrator: what they *)
(* write to the account and their DeleteByUserID are separate statements.  *)

\* UpdateStatus: only a suspension goes on to delete the user's sessions.  To
\* activate an active account changes nothing and is no step.
UpdateStatus(status) ==
    /\ account \in IF status = "active" THEN {"barred"} ELSE {"open", "barred"}
    /\ Fault
    /\ account' = IF status = "active" THEN "open" ELSE "barred"
    /\ barred' = (barred \/ status # "active")
    /\ purges' = IF status = "suspended" THEN purges + 1 ELSE purges
    /\ UNCHANGED revoked

\* Delete: the user is soft-deleted first.
DeleteAccount ==
    /\ account # "deleted" /\ Fault
    /\ account' = "deleted" /\ barred' = TRUE
    /\ purges' = purges + 1
    /\ UNCHANGED revoked

\* ChangePassword, which spares not even the session it is called from;
\* ResetPassword and DeleteSessions of all sessions have the same shape.
ChangePassword ==
    /\ account # "deleted" /\ Fault
    /\ purges' = purges + 1
    /\ UNCHANGED <<account, barred, revoked>>

\* DeleteByUserID, whose error these operations ignore.
Purge ==
    /\ purges > 0 /\ purges' = purges - 1
    /\ \/ live' = {} /\ revoked' = revoked \cup live /\ UNCHANGED budget
       \/ Fault /\ UNCHANGED <<live, revoked>>
    /\ UNCHANGED <<account, barred>>

\* DeleteSession, from another session of the user; DeleteSessions deletes in
\* this way, one by one, all but the session used last.
DeleteSession ==
    /\ Fault
    /\ \E p \in live : live' = live \ {p} /\ revoked' = revoked \cup {p}
    /\ UNCHANGED <<account, barred, purges>>

AccountStep ==
    /\ \/ /\ \/ \E status \in {"active", "inactive", "suspended"} : UpdateStatus(status)
             \/ DeleteAccount \/ ChangePassword
          /\ UNCHANGED live
       \/ Purge \/ DeleteSession
    /\ UNCHANGED <<issued, parent, slot, recent, reused, mishap>>

-----------------------------------------------------------------------------
(* The web server's single flight.                                         *)

\* inflight: the exchanges of a token that callers may join.
InFlight(tok) == {i \in Slots : slot[i].token = tok /\ slot[i].flying}

\* pruneRecent: what is remembered of a token is past RECENT_OK_TTL_MS.
Prune(tok) == recent' = [recent EXCEPT ![tok] = 0]

\* A caller joins the exchange under way.
Join(tok) == Prune(tok) /\ UNCHANGED <<iamVars, slot, reused, mishap, budget>>

\* A new exchange of a token.
Launch(i, tok) ==
    /\ slot[i] = FreeSlot
    /\ slot' = [slot EXCEPT ![i] = [FreeSlot EXCEPT !.token = tok, !.step = "lookup", !.flying = TRUE]]
    /\ Prune(tok)
    /\ UNCHANGED <<iamVars, reused, mishap, budget>>

\* The fetch resolves; a pair is remembered for stragglers.
BffReceive(i) ==
    /\ slot[i].step = "answer"
    /\ slot' = [slot EXCEPT ![i] = FreeSlot]
    /\ recent' = IF slot[i].verdict = "ok" THEN [recent EXCEPT ![slot[i].token] = slot[i].next] ELSE recent
    /\ UNCHANGED <<iamVars, reused, mishap, budget>>

\* A request becomes so slow that the timers on it may fire.
SlowDown(i) ==
    /\ slot[i].flying /\ ~slot[i].slow
    /\ Fault
    /\ slot' = [slot EXCEPT ![i].slow = TRUE]
    /\ UNCHANGED <<iamVars, recent, reused, mishap>>

\* UPSTREAM_TIMEOUT_MS: the fetch is aborted; what it was doing goes on.
BffAbort(i) ==
    /\ slot[i].flying /\ slot[i].slow
    /\ slot' = [slot EXCEPT ![i] = IF @.step = "answer" THEN FreeSlot ELSE [@ EXCEPT !.flying = FALSE]]
    /\ mishap' = TRUE
    /\ UNCHANGED <<iamVars, recent, reused, budget>>
=============================================================================
