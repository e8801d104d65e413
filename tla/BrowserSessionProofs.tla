------------------------- MODULE BrowserSessionProofs -------------------------
(***************************************************************************)
(* Proofs about BrowserSession, for any number of tabs, slots and pairs.   *)
(*                                                                         *)
(* The safety properties say that something bad is always explained, most  *)
(* often by a mishap, so the invariant that proves them describes the      *)
(* state while no mishap has happened: the lock lets one operation run at  *)
(* a time, that operation awaits the only exchange there is, and until the *)
(* exchange spends its token nothing but an operation on the account       *)
(* deletes the token's row.                                                *)
(***************************************************************************)
EXTENDS BrowserSession, TLAPS

\* The Web Lock has one holder.
Serial == \A s, t \in Tabs : s # t => run[s] = NoRun \/ run[t] = NoRun

\* Every exchange is awaited.
Awaited == \A i \in Slots : slot[i] # FreeSlot => slot[i].flying /\ \E t \in Tabs : run[t].via = i

\* No exchange has spent the pair, which an operation on the account may have
\* revoked.
Unspent(p) == p \in live \cup revoked /\ recent[p] = 0

\* What each step of an exchange knows of its token and of its answer.
Stages ==
    \A i \in Slots :
        /\ slot[i].step = "free" => slot[i] = FreeSlot
        /\ slot[i].step \in {"lookup", "delete"} => slot[i].token \in live \cup revoked
        /\ slot[i].step = "revoke" => slot[i].token \in revoked
        /\ slot[i].step \in {"delete", "check", "create"} => \A q \in live : parent[q] # slot[i].token
        /\ slot[i].step \in {"check", "create"} => slot[i].token \in Pairs \ live
        /\ slot[i].step = "answer" => slot[i].verdict # "none"
        /\ slot[i].step = "answer" /\ slot[i].verdict = "ok" =>
              Unspent(slot[i].next) /\ slot[i].token \notin live /\ slot[i].token # slot[i].next

\* A pair on its way to the browser is unspent; a remembered one's parent is not.
Answers ==
    /\ \A t \in Tabs : run[t].sets /\ run[t].via = NoSlot /\ run[t].verdict = "ok" => Unspent(run[t].got)
    /\ \A p \in Pairs : recent[p] # 0 => p <= issued /\ p \notin live

Conclusive == {"ok", "rejected"}

\* Why the token in the jar may be spent.
JarOwed ==
    jar # 0 /\ ~Unspent(jar) =>
        \/ \E i \in Slots : slot[i].step \in {"check", "create"} /\ slot[i].token = jar
        \/ \E i \in Slots : slot[i].step = "answer" /\ slot[i].verdict \in Conclusive
        \/ \E t \in Tabs : run[t].sets /\ run[t].via = NoSlot /\ run[t].verdict \in Conclusive

NoForks ==
    \A p \in live : parent[p] # 0 => parent[p] \notin live /\ \A q \in live : parent[q] = parent[p] => p = q

\* The state while nothing has gone wrong.
Sound == reused \subseteq revoked /\ Awaited /\ Stages /\ Answers /\ JarOwed /\ NoForks

\* The state while the account is in order and the user has not logged out.
SignedIn ==
    /\ ~ended /\ jar # 0 /\ dels = {}
    /\ \A i \in Slots : slot[i].verdict # "rejected"
    /\ \A t \in Tabs : /\ run[t].verdict # "rejected"
                       /\ run[t].op = "refresh" /\ run[t].via = NoSlot => run[t].verdict # "none"

IInv ==
    /\ TypeOK /\ Serial
    /\ account # "open" => barred
    /\ ~mishap => Sound
    /\ ~mishap /\ ~barred /\ revoked = {} /\ ~signedOut => SignedIn
-----------------------------------------------------------------------------
(* What the shared operators do to the tables of slots and of operations.  *)

USE ExchangeAssumption, BrowserAssumption DEF accountVars

\* Slots other than i keep their request.
OthersKeep(i) == \A j \in Slots : j # i => slot'[j] = slot[j]

LEMMA FreeSlotTyped == FreeSlot \in Requests
  BY DEF FreeSlot, Requests, Tokens, Steps, Verdicts

LEMMA ProceedEffect ==
    ASSUME slot \in [Slots -> Requests], NEW i \in Slots, NEW s \in Steps, Proceed(i, s)
    PROVE  /\ slot' \in [Slots -> Requests] /\ OthersKeep(i)
           /\ slot'[i].step = s /\ slot'[i].token = slot[i].token /\ slot'[i].next = slot[i].next
           /\ slot'[i].verdict = slot[i].verdict /\ slot'[i].flying = slot[i].flying
  BY DEF Proceed, OthersKeep, Requests, Steps

LEMMA ReplyEffect ==
    ASSUME slot \in [Slots -> Requests], NEW i \in Slots, NEW v \in Verdicts, NEW p \in Tokens, Reply(i, v, p)
    PROVE  /\ slot' \in [Slots -> Requests] /\ OthersKeep(i)
           /\ slot[i].flying =>
                 /\ slot'[i].step = "answer" /\ slot'[i].verdict = v /\ slot'[i].next = p
                 /\ slot'[i].token = slot[i].token /\ slot'[i].flying
           /\ ~slot[i].flying => slot'[i] = FreeSlot
  <1>1. CASE slot[i].flying
    <2>1. slot' = [slot EXCEPT ![i] = [@ EXCEPT !.step = "answer", !.verdict = v, !.next = p]]
      BY <1>1 DEF Reply
    <2>. QED  BY <2>1, <1>1 DEF OthersKeep, Requests, Steps, Verdicts
  <1>2. CASE ~slot[i].flying
    <2>1. slot' = [slot EXCEPT ![i] = FreeSlot]
      BY <1>2 DEF Reply
    <2>. QED  BY <2>1, <1>2, FreeSlotTyped DEF OthersKeep
  <1>. QED  BY <1>1, <1>2

LEMMA LaunchEffect ==
    ASSUME slot \in [Slots -> Requests], NEW i \in Slots, NEW tok \in Tokens, Launch(i, tok)
    PROVE  /\ slot' \in [Slots -> Requests] /\ OthersKeep(i)
           /\ slot[i] = FreeSlot
           /\ slot'[i].token = tok /\ slot'[i].step = "lookup" /\ slot'[i].next = 0
           /\ slot'[i].verdict = "none" /\ slot'[i].flying
  <1>. DEFINE r == [FreeSlot EXCEPT !.token = tok, !.step = "lookup", !.flying = TRUE]
  <1>1. r \in Requests
    BY FreeSlotTyped DEF Requests, Steps
  <1>2. /\ r.token = tok /\ r.step = "lookup" /\ r.next = 0 /\ r.verdict = "none" /\ r.flying
    BY DEF FreeSlot
  <1>3. slot' = [slot EXCEPT ![i] = r] /\ slot[i] = FreeSlot
    BY DEF Launch
  <1>. HIDE DEF r
  <1>. QED  BY <1>1, <1>2, <1>3 DEF OthersKeep

LEMMA ReceiveEffect ==
    ASSUME slot \in [Slots -> Requests], NEW i \in Slots, BffReceive(i)
    PROVE  slot' \in [Slots -> Requests] /\ OthersKeep(i) /\ slot'[i] = FreeSlot
  BY FreeSlotTyped DEF BffReceive, OthersKeep

LEMMA SlowDownEffect ==
    ASSUME slot \in [Slots -> Requests], NEW i \in Slots, SlowDown(i)
    PROVE  /\ slot' \in [Slots -> Requests] /\ OthersKeep(i)
           /\ slot'[i].step = slot[i].step /\ slot'[i].token = slot[i].token /\ slot'[i].next = slot[i].next
           /\ slot'[i].verdict = slot[i].verdict /\ slot'[i].flying = slot[i].flying
           /\ slot[i].flying
  BY DEF SlowDown, OthersKeep, Requests

LEMMA AbortEffect ==
    ASSUME slot \in [Slots -> Requests], NEW i \in Slots, BffAbort(i)
    PROVE  /\ slot' \in [Slots -> Requests] /\ OthersKeep(i)
           /\ \/ slot[i].step = "answer" /\ slot'[i] = FreeSlot
              \/ /\ slot[i].step # "answer" /\ slot'[i].step = slot[i].step
                 /\ slot'[i].token = slot[i].token /\ slot'[i].next = slot[i].next
  <1>1. CASE slot[i].step = "answer"
    <2>1. slot' = [slot EXCEPT ![i] = FreeSlot]
      BY <1>1 DEF BffAbort
    <2>. QED  BY <2>1, <1>1, FreeSlotTyped DEF OthersKeep
  <1>2. CASE slot[i].step # "answer"
    <2>1. slot' = [slot EXCEPT ![i] = [@ EXCEPT !.flying = FALSE]]
      BY <1>2 DEF BffAbort
    <2>. QED  BY <2>1, <1>2 DEF OthersKeep, Requests
  <1>. QED  BY <1>1, <1>2

\* Tabs other than t keep their operation.
OthersRun(t) == \A s \in Tabs : s # t => run'[s] = run[s]

LEMMA NoRunTyped == NoRun \in Runs
  BY DEF NoRun, Runs, OpKinds, Verdicts, Tokens

LEMMA ReleaseEffect ==
    ASSUME run \in [Tabs -> Runs], NEW t \in Tabs, Release(t)
    PROVE  run' \in [Tabs -> Runs] /\ OthersRun(t) /\ run'[t] = NoRun
  BY NoRunTyped DEF Release, OthersRun

LEMMA AwaitEffect ==
    ASSUME run \in [Tabs -> Runs], NEW t \in Tabs, NEW op \in OpKinds, NEW i \in Slots, Await(t, op, i)
    PROVE  /\ run' \in [Tabs -> Runs] /\ OthersRun(t)
           /\ run'[t].op = op /\ run'[t].via = i /\ run'[t].verdict = "none"
           /\ run'[t].got = 0 /\ run'[t].sets
  <1>. DEFINE r == [NoRun EXCEPT !.op = op, !.via = i, !.sets = TRUE]
  <1>1. r \in Runs
    BY NoRunTyped DEF Runs
  <1>2. /\ r.op = op /\ r.via = i /\ r.verdict = "none" /\ r.got = 0 /\ r.sets
    BY DEF NoRun
  <1>3. run' = [run EXCEPT ![t] = r]
    BY DEF Await
  <1>. HIDE DEF r
  <1>. QED  BY <1>1, <1>2, <1>3 DEF OthersRun

LEMMA AnswerEffect ==
    ASSUME run \in [Tabs -> Runs], NEW t \in Tabs, NEW op \in OpKinds, NEW v \in Verdicts, NEW p \in Tokens,
           NEW b \in BOOLEAN, Answer(t, op, v, p, b)
    PROVE  /\ run' \in [Tabs -> Runs] /\ OthersRun(t)
           /\ run'[t].op = op /\ run'[t].via = NoSlot /\ run'[t].verdict = v /\ run'[t].got = p /\ run'[t].sets = b
  BY DEF Answer, OthersRun, Runs, OpKinds, Verdicts, Tokens

LEMMA InformEffect ==
    ASSUME run \in [Tabs -> Runs], NEW i \in Slots, NEW v \in Verdicts, NEW p \in Tokens, Inform(i, v, p)
    PROVE  /\ run' \in [Tabs -> Runs]
           /\ \A t \in Tabs : run[t].via # i => run'[t] = run[t]
           /\ \A t \in Tabs : run[t].via = i =>
                 /\ run'[t].op = run[t].op /\ run'[t].sets = run[t].sets
                 /\ run'[t].via = NoSlot /\ run'[t].verdict = v /\ run'[t].got = p
  <1>1. \A t \in Tabs : [run[t] EXCEPT !.via = NoSlot, !.verdict = v, !.got = p] \in Runs
    BY DEF Runs
  <1>. QED  BY <1>1 DEF Inform, Runs

-----------------------------------------------------------------------------
(* Type correctness.                                                       *)

USE DEF Tokens, Pairs

LEMMA InitType == Init => TypeOK
  <1>. SUFFICES ASSUME Init PROVE TypeOK
    OBVIOUS
  <1>1. ExchangeTypeOK
    <2>1. IamOK
      <3>1. issued = 1 /\ live = {1} /\ parent = [p \in Pairs |-> 0]
        BY DEF Init, ExchangeInit
      <3>2. barred \in BOOLEAN
        BY Zenon DEF Init, ExchangeInit
      <3>5. account \in AccountStates /\ purges \in Nat /\ revoked = {}
        BY DEF Init, ExchangeInit, AccountStates
      <3>3. live \subseteq 1..issued /\ issued \in Pairs
        BY <3>1
      <3>4. parent \in [Pairs -> Tokens] /\ \A p \in Pairs : parent[p] <= issued
        BY <3>1
      <3>. QED  BY <3>2, <3>3, <3>4, <3>5 DEF IamOK
    <2>2. /\ slot \in [Slots -> Requests] /\ recent \in [Pairs -> Tokens]
          /\ \A i \in Slots : slot[i] = FreeSlot
      BY FreeSlotTyped DEF Init, ExchangeInit
    <2>3. BffOK
      BY <2>1, <2>2 DEF Init, ExchangeInit, BffOK, FreeSlot
    <2>4. mishap \in BOOLEAN
      BY Zenon DEF Init, ExchangeInit
    <2>5. reused \subseteq Tokens /\ budget \in 0..MaxFaults
      BY DEF Init, ExchangeInit
    <2>. QED  BY <2>1, <2>3, <2>4, <2>5 DEF ExchangeTypeOK, HistoryOK
  <1>2. JarOK
    BY DEF Init, ExchangeInit, JarOK
  <1>3. PagesOK
    BY NoRunTyped DEF Init, PagesOK, PageKinds
  <1>4. MessagesOK
    <2>1. inbox \in [Tabs -> BOOLEAN] /\ dels \subseteq Tabs /\ gestures \in 0..MaxGestures
      BY DEF Init
    <2>2. ended \in BOOLEAN /\ signedOut \in BOOLEAN
      BY Zenon DEF Init
    <2>. QED  BY <2>1, <2>2 DEF MessagesOK
  <1>5. AwaitsOK
    BY DEF Init, ExchangeInit, AwaitsOK, NoRun
  <1>. QED  BY <1>1, <1>2, <1>3, <1>4, <1>5 DEF TypeOK

\* A step of the servers leaves the browser's part of the state typed.
LEMMA QuietBrowser ==
    ASSUME TypeOK, UNCHANGED browserVars, ExchangeTypeOK', issued <= issued',
           \A i \in Slots : slot[i].flying => slot'[i].flying
    PROVE  TypeOK'
  <1>. USE DEF TypeOK, browserVars, clockVars, tabVars, ghostVars
  <1>1. JarOK'
    BY DEF JarOK, ExchangeTypeOK, IamOK
  <1>2. PagesOK' /\ MessagesOK'
    BY DEF PagesOK, MessagesOK
  <1>3. AwaitsOK'
    <2>. SUFFICES ASSUME NEW t \in Tabs
                  PROVE  /\ run[t].got <= issued'
                         /\ run[t].via # NoSlot => run[t].sets /\ slot'[run[t].via].flying
      BY DEF AwaitsOK
    <2>1. run[t] \in Runs /\ run[t].got <= issued
      BY DEF PagesOK, AwaitsOK
    <2>2. run[t].got <= issued'
      BY <2>1 DEF ExchangeTypeOK, IamOK, Runs
    <2>3. run[t].via # NoSlot => run[t].sets /\ slot'[run[t].via].flying
      BY <2>1 DEF AwaitsOK, Runs
    <2>. QED  BY <2>2, <2>3
  <1>. QED  BY <1>1, <1>2, <1>3

\* What the steps of a request do to the table of slots.
LEMMA ProceedType ==
    ASSUME BffOK, NEW i \in Slots, NEW s \in Steps \ {"answer"}, Proceed(i, s), issued' = issued, recent' = recent
    PROVE  BffOK' /\ \A j \in Slots : slot[j].flying => slot'[j].flying
  <1>1. slot' \in [Slots -> Requests] /\ OthersKeep(i) /\ slot'[i].step = s /\ slot'[i].flying = slot[i].flying
        /\ slot'[i].token = slot[i].token /\ slot'[i].next = slot[i].next
    BY ProceedEffect DEF BffOK
  <1>. QED  BY <1>1 DEF BffOK, OthersKeep

LEMMA ReplyType ==
    ASSUME BffOK, issued \in Nat, issued' \in Nat, issued <= issued',
           NEW i \in Slots, NEW v \in Verdicts, NEW p \in Tokens, Reply(i, v, p), p <= issued', recent' = recent
    PROVE  BffOK' /\ \A j \in Slots : slot[j].flying => slot'[j].flying
  <1>1. slot' \in [Slots -> Requests] /\ OthersKeep(i)
    BY ReplyEffect DEF BffOK
  <1>2. slot[i].flying => /\ slot'[i].next = p /\ slot'[i].token = slot[i].token /\ slot'[i].flying
    BY ReplyEffect DEF BffOK
  <1>3. ~slot[i].flying => slot'[i].token = 0 /\ slot'[i].next = 0 /\ slot'[i].step = "free"
    BY ReplyEffect DEF BffOK, FreeSlot
  <1>4. \A j \in Slots : slot[j].token \in Nat /\ slot[j].next \in Nat /\ slot[j].token <= issued /\ slot[j].next <= issued
    BY DEF BffOK, Requests
  <1>5. \A j \in Slots : slot'[j].token <= issued' /\ slot'[j].next <= issued'
    BY <1>1, <1>2, <1>3, <1>4 DEF OthersKeep
  <1>6. \A j \in Slots : slot'[j].step = "answer" => slot'[j].flying
    BY <1>1, <1>2, <1>3 DEF OthersKeep, BffOK
  <1>7. \A q \in Pairs : recent'[q] <= issued'
    BY DEF BffOK
  <1>. QED  BY <1>1, <1>2, <1>5, <1>6, <1>7 DEF OthersKeep, BffOK

LEMMA IssueType ==
    ASSUME IamOK, NEW p \in Tokens, p <= issued, Issue(p), UNCHANGED accountVars
    PROVE  IamOK' /\ issued' = issued + 1 /\ issued' \in Pairs
  BY DEF IamOK, Issue

LEMMA ServerType ==
    ASSUME TypeOK, ServerStep
    PROVE  TypeOK'
  <1>. USE DEF TypeOK, ExchangeTypeOK, iamVars
  <1>. SUFFICES ExchangeTypeOK' /\ issued <= issued' /\ \A j \in Slots : slot[j].flying => slot'[j].flying
    BY QuietBrowser DEF ServerStep
  <1>0. issued \in Nat /\ HistoryOK
    BY DEF IamOK
  <1>1. ASSUME NEW i \in Slots, GatewayRefuses(i)
        PROVE  ExchangeTypeOK' /\ issued <= issued' /\ \A j \in Slots : slot[j].flying => slot'[j].flying
    <2>1. Reply(i, "unavailable", 0) /\ issued' = issued /\ recent' = recent
      BY <1>1 DEF GatewayRefuses
    <2>2. BffOK' /\ \A j \in Slots : slot[j].flying => slot'[j].flying
      BY <1>0, <2>1, ReplyType DEF Verdicts
    <2>3. IamOK' /\ HistoryOK'
      BY <1>1 DEF GatewayRefuses, Fault, IamOK, HistoryOK
    <2>. QED  BY <1>0, <2>1, <2>2, <2>3
  <1>2. ASSUME NEW i \in Slots, Lookup(i)
        PROVE  ExchangeTypeOK' /\ issued <= issued' /\ \A j \in Slots : slot[j].flying => slot'[j].flying
    <2>1. (Proceed(i, "delete") \/ Proceed(i, "revoke")) /\ issued' = issued /\ recent' = recent
      BY <1>2 DEF Lookup
    <2>2. BffOK' /\ \A j \in Slots : slot[j].flying => slot'[j].flying
      BY <2>1, ProceedType DEF Steps
    <2>3. IamOK'
      BY <1>2 DEF Lookup, IamOK
    <2>4. mishap' \in BOOLEAN
      BY <1>2, Zenon DEF Lookup, HistoryOK
    <2>5. HistoryOK'
      BY <2>4, <1>2 DEF Lookup, Fault, HistoryOK
    <2>. QED  BY <1>0, <2>1, <2>2, <2>3, <2>5
  <1>3. ASSUME NEW i \in Slots, RevokeAll(i)
        PROVE  ExchangeTypeOK' /\ issued <= issued' /\ \A j \in Slots : slot[j].flying => slot'[j].flying
    <2>1. Reply(i, "rejected", 0) /\ issued' = issued /\ recent' = recent
      BY <1>3 DEF RevokeAll
    <2>2. BffOK' /\ \A j \in Slots : slot[j].flying => slot'[j].flying
      BY <1>0, <2>1, ReplyType DEF Verdicts
    <2>3. IamOK'
      <3>1. live' \subseteq live /\ UNCHANGED <<issued, parent, accountVars>>
        BY <1>3 DEF RevokeAll
      <3>. QED  BY <3>1 DEF IamOK
    <2>4. HistoryOK'
      <3>1. slot[i].token \in Tokens
        BY DEF BffOK, Requests
      <3>2. reused' \subseteq Tokens
        BY <1>0, <1>3, <3>1 DEF RevokeAll, HistoryOK
      <3>3. budget' \in 0..MaxFaults
        BY <1>0, <1>3 DEF RevokeAll, Fault, HistoryOK
      <3>4. mishap' \in BOOLEAN
        BY <1>0, <1>3, Zenon DEF RevokeAll, HistoryOK
      <3>. QED  BY <3>2, <3>3, <3>4 DEF HistoryOK
    <2>. QED  BY <1>0, <2>1, <2>2, <2>3, <2>4
  <1>4. ASSUME NEW i \in Slots, DeleteOld(i)
        PROVE  ExchangeTypeOK' /\ issued <= issued' /\ \A j \in Slots : slot[j].flying => slot'[j].flying
    <2>1. Proceed(i, "check") /\ issued' = issued /\ recent' = recent
      BY <1>4 DEF DeleteOld
    <2>2. BffOK' /\ \A j \in Slots : slot[j].flying => slot'[j].flying
      BY <2>1, ProceedType DEF Steps
    <2>3. IamOK'
      <3>1. live' \subseteq live /\ UNCHANGED <<issued, parent, accountVars>>
        BY <1>4 DEF DeleteOld
      <3>. QED  BY <3>1 DEF IamOK
    <2>4. mishap' \in BOOLEAN
      BY <1>4, Zenon DEF DeleteOld, HistoryOK
    <2>5. HistoryOK'
      BY <2>4, <1>4 DEF DeleteOld, Fault, HistoryOK
    <2>. QED  BY <1>0, <2>1, <2>2, <2>3, <2>5
  <1>5. ASSUME NEW i \in Slots, CreateNew(i)
        PROVE  ExchangeTypeOK' /\ issued <= issued' /\ \A j \in Slots : slot[j].flying => slot'[j].flying
    <2>0. slot[i].token \in Tokens /\ slot[i].token <= issued /\ recent' = recent /\ UNCHANGED accountVars
      BY <1>5 DEF CreateNew, BffOK, Requests
    <2>1. CASE Issue(slot[i].token) /\ Reply(i, "ok", issued + 1) /\ UNCHANGED <<mishap, budget>>
      <3>1. IamOK' /\ issued' = issued + 1 /\ issued' \in Pairs
        BY <2>0, <2>1, IssueType
      <3>2. BffOK' /\ \A j \in Slots : slot[j].flying => slot'[j].flying
        BY <1>0, <2>0, <2>1, <3>1, ReplyType DEF Verdicts
      <3>. QED  BY <1>0, <1>5, <2>1, <3>1, <3>2 DEF HistoryOK, CreateNew
    <2>2. CASE UNCHANGED <<issued, live, parent>> /\ FailHalfway(i)
      <3>0. Reply(i, "unavailable", 0)
        BY <2>2 DEF FailHalfway
      <3>1. BffOK' /\ \A j \in Slots : slot[j].flying => slot'[j].flying
        BY <1>0, <2>0, <2>2, <3>0, ReplyType DEF Verdicts
      <3>2. mishap' \in BOOLEAN
        BY <2>2, Zenon DEF FailHalfway
      <3>3. HistoryOK'
        BY <3>2, <1>5 DEF CreateNew, Fault, HistoryOK
      <3>. QED  BY <1>0, <2>0, <2>2, <3>1, <3>3 DEF IamOK
    <2>. QED  BY <1>5, <2>1, <2>2 DEF CreateNew
  <1>6. ASSUME NEW i \in Slots, SlowDown(i)
        PROVE  ExchangeTypeOK' /\ issued <= issued' /\ \A j \in Slots : slot[j].flying => slot'[j].flying
    <2>1. /\ slot' \in [Slots -> Requests] /\ OthersKeep(i)
          /\ slot'[i].token = slot[i].token /\ slot'[i].next = slot[i].next /\ slot'[i].flying = slot[i].flying
          /\ slot[i].flying
      BY <1>6, SlowDownEffect DEF BffOK
    <2>2. BffOK' /\ \A j \in Slots : slot[j].flying => slot'[j].flying
      BY <1>6, <2>1 DEF BffOK, OthersKeep, SlowDown
    <2>. QED  BY <1>0, <1>6, <2>2 DEF SlowDown, Fault, HistoryOK, IamOK
  <1>7. ASSUME AccountStep
        PROVE  ExchangeTypeOK' /\ issued <= issued' /\ \A j \in Slots : slot[j].flying => slot'[j].flying
    <2>1. UNCHANGED <<issued, parent, slot, recent, reused, mishap>>
      BY <1>7 DEF AccountStep
    <2>2. budget' \in 0..MaxFaults
      BY <1>0, <1>7 DEF AccountStep, UpdateStatus, DeleteAccount, ChangePassword, Purge, DeleteSession, Fault, HistoryOK
    <2>3. BffOK' /\ HistoryOK'
      BY <1>0, <2>1, <2>2 DEF BffOK, HistoryOK
    <2>4. live' \subseteq 1..issued /\ revoked' \subseteq 1..issued
      BY <1>7 DEF AccountStep, UpdateStatus, DeleteAccount, ChangePassword, Purge, DeleteSession, IamOK
    <2>5. account' \in AccountStates /\ purges' \in Nat
      BY <1>7 DEF AccountStep, UpdateStatus, DeleteAccount, ChangePassword, Purge, DeleteSession, IamOK, AccountStates
    <2>6. barred' \in BOOLEAN
      <3>1. barred \in BOOLEAN
        BY DEF IamOK
      <3>. QED  BY <1>7, <3>1, Zenon DEF AccountStep, UpdateStatus, DeleteAccount, ChangePassword, Purge, DeleteSession
    <2>7. IamOK'
      BY <2>1, <2>4, <2>5, <2>6 DEF IamOK
    <2>. QED  BY <1>0, <2>1, <2>3, <2>7
  <1>8. ASSUME NEW i \in Slots, CheckAccount(i)
        PROVE  ExchangeTypeOK' /\ issued <= issued' /\ \A j \in Slots : slot[j].flying => slot'[j].flying
    <2>1. UNCHANGED <<iamVars, recent, reused>> /\ IamOK'
      BY <1>8 DEF CheckAccount, IamOK
    <2>2. budget' \in 0..MaxFaults
      BY <1>0, <1>8 DEF CheckAccount, Fault, HistoryOK
    <2>3. mishap' \in BOOLEAN
      BY <1>0, <1>8, Zenon DEF CheckAccount, FailHalfway, HistoryOK
    <2>4. HistoryOK'
      BY <1>0, <2>1, <2>2, <2>3 DEF HistoryOK
    <2>5. CASE Proceed(i, "create")
      <3>1. BffOK' /\ \A j \in Slots : slot[j].flying => slot'[j].flying
        BY <2>1, <2>5, ProceedType DEF Steps
      <3>. QED  BY <1>0, <2>1, <2>4, <3>1
    <2>6. CASE Reply(i, "rejected", 0) \/ Reply(i, "unavailable", 0)
      <3>1. BffOK' /\ \A j \in Slots : slot[j].flying => slot'[j].flying
        BY <1>0, <2>1, <2>6, ReplyType DEF Verdicts
      <3>. QED  BY <1>0, <2>1, <2>4, <3>1
    <2>. QED  BY <1>8, <2>5, <2>6 DEF CheckAccount, FailHalfway
  <1>. QED  BY <1>1, <1>2, <1>3, <1>4, <1>5, <1>6, <1>7, <1>8 DEF ServerStep, GatewayStep, IamStep

\* A step of the browser leaves the servers' part of the state typed.
LEMMA QuietExchange ==
    ASSUME ExchangeTypeOK, UNCHANGED exchangeVars
    PROVE  ExchangeTypeOK'
  BY DEF ExchangeTypeOK, IamOK, BffOK, HistoryOK, exchangeVars, iamVars

\* What a change of one tab's operation must respect.
LEMMA OneRunType ==
    ASSUME TypeOK, NEW t \in Tabs, run' \in [Tabs -> Runs], OthersRun(t), issued' = issued,
           \A i \in Slots : slot[i].flying => slot'[i].flying,
           run'[t].got <= issued, run'[t].via # NoSlot => run'[t].sets /\ slot'[run'[t].via].flying
    PROVE  AwaitsOK'
  <1>. SUFFICES ASSUME NEW s \in Tabs
                PROVE  run'[s].got <= issued /\ (run'[s].via # NoSlot => run'[s].sets /\ slot'[run'[s].via].flying)
    BY DEF AwaitsOK
  <1>1. CASE s = t
    BY <1>1
  <1>2. CASE s # t
    <2>1. run'[s] = run[s] /\ run[s] \in Runs
      BY <1>2 DEF OthersRun, TypeOK, PagesOK
    <2>2. run[s].got <= issued /\ (run[s].via # NoSlot => run[s].sets /\ run[s].via \in Slots /\ slot[run[s].via].flying)
      BY <2>1 DEF TypeOK, AwaitsOK, Runs
    <2>. QED  BY <2>1, <2>2
  <1>. QED  BY <1>1, <1>2

LEMMA ReleaseType ==
    ASSUME TypeOK, NEW t \in Tabs, Release(t), UNCHANGED <<issued, slot>>
    PROVE  run' \in [Tabs -> Runs] /\ AwaitsOK'
  <1>1. run' \in [Tabs -> Runs] /\ OthersRun(t) /\ run'[t] = NoRun
    BY ReleaseEffect DEF TypeOK, PagesOK
  <1>2. NoRun.got = 0 /\ NoRun.via = NoSlot /\ issued \in Nat
    BY DEF NoRun, TypeOK, ExchangeTypeOK, IamOK
  <1>. QED  BY <1>1, <1>2, OneRunType

LEMMA ClockType ==
    ASSUME TypeOK, BecomesDue \/ Expires
    PROVE  TypeOK'
  <1>. USE DEF TypeOK
  <1>1. UNCHANGED <<exchangeVars, tabVars, dels, gestures, ghostVars>> /\ JarOK'
    BY DEF BecomesDue, Expires, JarOK, ExchangeTypeOK, IamOK, exchangeVars, iamVars
  <1>2. ExchangeTypeOK'
    BY <1>1, QuietExchange
  <1>3. PagesOK' /\ MessagesOK'
    BY <1>1 DEF PagesOK, MessagesOK, tabVars, ghostVars
  <1>4. AwaitsOK'
    BY <1>1 DEF AwaitsOK, tabVars, exchangeVars, iamVars
  <1>. QED  BY <1>1, <1>2, <1>3, <1>4

\* An exchange that settles is awaited by nobody afterwards.
LEMMA SettleType ==
    ASSUME TypeOK, NEW i \in Slots, ExchangeSettles(i)
    PROVE  TypeOK'
  <1>. USE DEF TypeOK, ExchangeTypeOK
  <1>0. /\ UNCHANGED <<jar, clockVars, page, mem, latch, ask, get, inbox, dels, gestures, ghostVars>>
        /\ UNCHANGED <<iamVars, reused, budget>> /\ issued \in Nat
    BY DEF ExchangeSettles, BffReceive, BffAbort, IamOK
  <1>1. PICK v \in Verdicts, p \in Tokens : Inform(i, v, p) /\ p <= issued
    <2>1. slot[i].verdict \in Verdicts /\ slot[i].next \in Tokens /\ slot[i].next <= issued
      BY DEF BffOK, Requests
    <2>2. "unavailable" \in Verdicts /\ 0 \in Tokens
      BY DEF Verdicts
    <2>. QED  BY <1>0, <2>1, <2>2 DEF ExchangeSettles
  <1>2. /\ run' \in [Tabs -> Runs]
        /\ \A t \in Tabs : run[t].via # i => run'[t] = run[t]
        /\ \A t \in Tabs : run[t].via = i => run'[t].via = NoSlot /\ run'[t].got = p
    BY <1>1, InformEffect DEF PagesOK
  <1>3. /\ slot' \in [Slots -> Requests] /\ OthersKeep(i)
        /\ slot'[i].token <= issued /\ slot'[i].next <= issued /\ slot'[i].step # "answer"
    <2>1. slot[i].token <= issued /\ slot[i].next <= issued
      BY DEF BffOK
    <2>2. FreeSlot.token = 0 /\ FreeSlot.next = 0 /\ FreeSlot.step = "free"
      BY DEF FreeSlot
    <2>3. CASE BffReceive(i)
      BY <1>0, <2>2, <2>3, ReceiveEffect DEF BffOK
    <2>4. CASE BffAbort(i)
      BY <1>0, <2>1, <2>2, <2>4, AbortEffect DEF BffOK
    <2>. QED  BY <2>3, <2>4 DEF ExchangeSettles
  <1>4. recent' \in [Pairs -> Tokens] /\ \A q \in Pairs : recent'[q] <= issued
    BY DEF ExchangeSettles, BffReceive, BffAbort, BffOK, Requests
  <1>5. BffOK'
    BY <1>0, <1>3, <1>4 DEF BffOK, OthersKeep, iamVars
  <1>6. IamOK' /\ JarOK'
    BY <1>0 DEF IamOK, JarOK, iamVars, clockVars
  <1>7. HistoryOK'
    <2>1. mishap' \in BOOLEAN
      BY Zenon DEF ExchangeSettles, BffReceive, BffAbort, HistoryOK
    <2>. QED  BY <1>0, <2>1 DEF HistoryOK
  <1>8. PagesOK' /\ MessagesOK'
    BY <1>0, <1>2 DEF PagesOK, MessagesOK, ghostVars
  <1>9. AwaitsOK'
    <2>. SUFFICES ASSUME NEW t \in Tabs
                  PROVE  run'[t].got <= issued /\ (run'[t].via # NoSlot => run'[t].sets /\ slot'[run'[t].via].flying)
      BY <1>0 DEF AwaitsOK, iamVars
    <2>1. CASE run[t].via = i
      BY <1>1, <1>2, <2>1
    <2>2. CASE run[t].via # i
      <3>1. run'[t] = run[t] /\ run[t] \in Runs
        BY <1>2, <2>2 DEF PagesOK
      <3>. QED  BY <1>3, <2>2, <3>1 DEF AwaitsOK, OthersKeep, Runs
    <2>. QED  BY <2>1, <2>2
  <1>. QED  BY <1>5, <1>6, <1>7, <1>8, <1>9

LEMMA AskType ==
    ASSUME TypeOK, NEW t \in Tabs, Watchdog(t) \/ Unauthorized(t) \/ RefreshSession(t)
    PROVE  TypeOK'
  <1>. USE DEF TypeOK
  <1>1. UNCHANGED <<exchangeVars, jar, clockVars, page, mem, latch, run, inbox, dels, ghostVars>>
    BY DEF Watchdog, Unauthorized, RefreshSession
  <1>2. ExchangeTypeOK'
    BY <1>1, QuietExchange
  <1>3. JarOK' /\ AwaitsOK'
    BY <1>1 DEF JarOK, AwaitsOK, exchangeVars, iamVars, clockVars
  <1>4. ask' \in [Tabs -> Tokens \cup {NoAsk}]
    BY DEF Watchdog, Unauthorized, RefreshSession, PagesOK
  <1>5. get' \in [Tabs -> BOOLEAN]
    BY DEF Watchdog, Unauthorized, RefreshSession, PagesOK
  <1>6. gestures' \in 0..MaxGestures
    BY DEF Watchdog, Unauthorized, RefreshSession, MessagesOK, Gesture
  <1>7. PagesOK' /\ MessagesOK'
    BY <1>1, <1>4, <1>5, <1>6 DEF PagesOK, MessagesOK, ghostVars
  <1>. QED  BY <1>2, <1>3, <1>7

\* Asking the web server for an exchange of the cookie.
LEMMA ExchangeCookieType ==
    ASSUME TypeOK, jar # 0, NEW t \in Tabs, NEW op \in OpKinds, ExchangeCookie(t, op)
    PROVE  /\ ExchangeTypeOK' /\ run' \in [Tabs -> Runs] /\ AwaitsOK'
           /\ UNCHANGED <<iamVars, reused, mishap, budget>>
  <1>. USE DEF TypeOK, ExchangeTypeOK
  <1>0. jar \in Pairs /\ run \in [Tabs -> Runs] /\ slot \in [Slots -> Requests] /\ issued \in Nat
    BY DEF JarOK, IamOK, PagesOK, BffOK
  <1>1. CASE recent[jar] # 0 /\ Answer(t, op, "ok", recent[jar], TRUE) /\ UNCHANGED exchangeVars
    <2>1. recent[jar] \in Tokens /\ recent[jar] <= issued
      BY <1>0 DEF BffOK
    <2>2. /\ run' \in [Tabs -> Runs] /\ OthersRun(t)
          /\ run'[t].op = op /\ run'[t].via = NoSlot /\ run'[t].verdict = "ok" /\ run'[t].got = recent[jar] /\ run'[t].sets = TRUE
      BY <1>0, <1>1, <2>1, AnswerEffect DEF Verdicts
    <2>3. AwaitsOK'
      BY <1>1, <2>1, <2>2, OneRunType DEF exchangeVars, iamVars
    <2>. QED  BY <1>1, <2>2, <2>3, QuietExchange DEF exchangeVars
  <1>2. ASSUME NEW i \in InFlight(jar), Await(t, op, i), Join(jar)
        PROVE  /\ ExchangeTypeOK' /\ run' \in [Tabs -> Runs] /\ AwaitsOK'
               /\ UNCHANGED <<iamVars, reused, mishap, budget>>
    <2>1. i \in Slots /\ slot[i].flying
      BY DEF InFlight
    <2>2. UNCHANGED <<iamVars, slot, reused, mishap, budget>> /\ recent' = [recent EXCEPT ![jar] = 0]
      BY <1>2 DEF Join, Prune
    <2>3. BffOK'
      BY <1>0, <2>2 DEF BffOK, iamVars
    <2>4. IamOK' /\ HistoryOK'
      BY <2>2 DEF IamOK, HistoryOK, iamVars
    <2>5. /\ run' \in [Tabs -> Runs] /\ OthersRun(t)
          /\ run'[t].got = 0 /\ run'[t].sets /\ run'[t].via = i
      BY <1>0, <1>2, <2>1, AwaitEffect
    <2>6. AwaitsOK'
      BY <1>0, <2>1, <2>2, <2>5, OneRunType DEF iamVars
    <2>. QED  BY <2>2, <2>3, <2>4, <2>5, <2>6
  <1>3. ASSUME NEW i \in Slots, Launch(i, jar), Await(t, op, i)
        PROVE  /\ ExchangeTypeOK' /\ run' \in [Tabs -> Runs] /\ AwaitsOK'
               /\ UNCHANGED <<iamVars, reused, mishap, budget>>
    <2>1. /\ slot' \in [Slots -> Requests] /\ OthersKeep(i) /\ slot'[i].token = jar /\ slot'[i].step = "lookup"
          /\ slot'[i].next = 0 /\ slot'[i].flying /\ slot[i] = FreeSlot
      BY <1>0, <1>3, LaunchEffect
    <2>2. UNCHANGED <<iamVars, reused, mishap, budget>> /\ recent' = [recent EXCEPT ![jar] = 0]
      BY <1>3 DEF Launch, Prune
    <2>3. jar <= issued
      BY DEF JarOK, IamOK
    <2>4. BffOK'
      <3>1. recent' \in [Pairs -> Tokens] /\ \A p \in Pairs : recent'[p] <= issued
        BY <1>0, <2>2 DEF BffOK
      <3>2. \A j \in Slots : /\ slot'[j].step = "answer" => slot'[j].flying
                             /\ slot'[j].token <= issued /\ slot'[j].next <= issued
        BY <1>0, <2>1, <2>3 DEF BffOK, OthersKeep
      <3>. QED  BY <2>1, <2>2, <3>1, <3>2 DEF BffOK, iamVars
    <2>5. IamOK' /\ HistoryOK'
      BY <2>2 DEF IamOK, HistoryOK, iamVars
    <2>6. /\ run' \in [Tabs -> Runs] /\ OthersRun(t)
          /\ run'[t].got = 0 /\ run'[t].sets /\ run'[t].via = i
      BY <1>0, <1>3, AwaitEffect
    <2>7. \A j \in Slots : slot[j].flying => slot'[j].flying
      BY <2>1 DEF OthersKeep
    <2>8. AwaitsOK'
      BY <1>0, <2>1, <2>2, <2>6, <2>7, OneRunType DEF iamVars
    <2>. QED  BY <2>2, <2>4, <2>5, <2>6, <2>8
  <1>4. CASE Answer(t, op, "unavailable", 0, FALSE) /\ Join(jar)
    <2>2. UNCHANGED <<iamVars, slot, reused, mishap, budget>> /\ recent' = [recent EXCEPT ![jar] = 0]
      BY <1>4 DEF Join, Prune
    <2>3. BffOK'
      BY <1>0, <2>2 DEF BffOK, iamVars
    <2>4. IamOK' /\ HistoryOK'
      BY <2>2 DEF IamOK, HistoryOK, iamVars
    <2>5. /\ run' \in [Tabs -> Runs] /\ OthersRun(t)
          /\ run'[t].op = op /\ run'[t].via = NoSlot /\ run'[t].verdict = "unavailable" /\ run'[t].got = 0 /\ run'[t].sets = FALSE
      <3>1. "unavailable" \in Verdicts /\ 0 \in Tokens
        BY DEF Verdicts
      <3>. QED  BY <1>0, <1>4, <3>1, AnswerEffect
    <2>6. AwaitsOK'
      BY <1>0, <2>2, <2>5, OneRunType DEF iamVars
    <2>. QED  BY <2>2, <2>3, <2>4, <2>5, <2>6
  <1>. QED  BY <1>1, <1>2, <1>3, <1>4 DEF ExchangeCookie

\* A response that exchanged nothing.
LEMMA PlainAnswerType ==
    ASSUME TypeOK, NEW t \in Tabs, NEW op \in OpKinds, NEW v \in Verdicts, NEW p \in Tokens, NEW b \in BOOLEAN,
           p <= issued, Answer(t, op, v, p, b), UNCHANGED exchangeVars
    PROVE  ExchangeTypeOK' /\ run' \in [Tabs -> Runs] /\ AwaitsOK'
  <1>1. /\ run' \in [Tabs -> Runs] /\ OthersRun(t)
        /\ run'[t].op = op /\ run'[t].via = NoSlot /\ run'[t].verdict = v /\ run'[t].got = p /\ run'[t].sets = b
    BY AnswerEffect DEF TypeOK, PagesOK
  <1>2. AwaitsOK'
    BY <1>1, OneRunType DEF exchangeVars, iamVars
  <1>. QED  BY <1>1, <1>2, QuietExchange DEF TypeOK

LEMMA StartType ==
    ASSUME TypeOK, NEW t \in Tabs, StartRefresh(t) \/ (\E op \in OpKinds : StartGet(t, op))
    PROVE  TypeOK'
  <1>1. UNCHANGED <<jar, clockVars, page, mem, latch, ask, get, inbox, dels, gestures, ghostVars>>
    BY DEF StartRefresh, StartGet
  <1>2. 0 <= issued /\ 0 \in Tokens /\ jar \in Tokens /\ jar <= issued
    BY DEF TypeOK, JarOK, ExchangeTypeOK, IamOK
  <1>3. ExchangeTypeOK' /\ run' \in [Tabs -> Runs] /\ AwaitsOK' /\ issued' = issued
    <2>1. CASE StartRefresh(t)
      <3>1. CASE Answer(t, "refresh", "none", 0, FALSE) /\ UNCHANGED exchangeVars
        BY <1>2, <3>1, PlainAnswerType DEF Verdicts, OpKinds, exchangeVars, iamVars
      <3>2. CASE jar # 0 /\ ExchangeCookie(t, "refresh")
        BY <3>2, ExchangeCookieType DEF OpKinds, iamVars
      <3>. QED  BY <2>1, <3>1, <3>2 DEF StartRefresh
    <2>2. ASSUME NEW op \in OpKinds, StartGet(t, op)
          PROVE  ExchangeTypeOK' /\ run' \in [Tabs -> Runs] /\ AwaitsOK' /\ issued' = issued
      <3>1. CASE Answer(t, op, "ok", jar, FALSE) /\ UNCHANGED exchangeVars
        BY <1>2, <3>1, PlainAnswerType DEF Verdicts, exchangeVars, iamVars
      <3>2. CASE Answer(t, op, "none", 0, FALSE) /\ UNCHANGED exchangeVars
        BY <1>2, <3>2, PlainAnswerType DEF Verdicts, exchangeVars, iamVars
      <3>3. CASE jar # 0 /\ ExchangeCookie(t, op)
        BY <3>3, ExchangeCookieType DEF iamVars
      <3>. QED  BY <2>2, <3>1, <3>2, <3>3 DEF StartGet
    <2>. QED  BY <2>1, <2>2
  <1>4. JarOK' /\ PagesOK' /\ MessagesOK'
    BY <1>1, <1>3 DEF TypeOK, JarOK, PagesOK, MessagesOK, clockVars, ghostVars
  <1>. QED  BY <1>3, <1>4 DEF TypeOK

\* The response of an operation: its cookie and the end of the operation.
LEMMA SetCookieType ==
    ASSUME TypeOK, NEW t \in Tabs, SetCookie(t)
    PROVE  jar' \in 0..issued
  <1>1. run[t].got \in 0..issued /\ jar \in 0..issued /\ 0 \in 0..issued
    BY DEF TypeOK, JarOK, PagesOK, AwaitsOK, Runs, ExchangeTypeOK, IamOK
  <1>. QED  BY <1>1 DEF SetCookie

LEMMA ExpireSessionType ==
    ASSUME PagesOK, MessagesOK, NEW t \in Tabs, ExpireSession(t), gestures' = gestures, signedOut' = signedOut
    PROVE  /\ page' \in [Tabs -> PageKinds] /\ mem' \in [Tabs -> Tokens] /\ latch' \in [Tabs -> BOOLEAN]
           /\ MessagesOK'
  <1>1. page' \in [Tabs -> PageKinds]
    BY DEF ExpireSession, PagesOK, PageKinds
  <1>2. mem' \in [Tabs -> Tokens]
    BY DEF ExpireSession, PagesOK
  <1>3. latch' \in [Tabs -> BOOLEAN]
    BY DEF ExpireSession, PagesOK
  <1>4. inbox' \in [Tabs -> BOOLEAN]
    BY DEF ExpireSession, Broadcast, MessagesOK
  <1>5. dels' \subseteq Tabs
    BY DEF ExpireSession, MessagesOK
  <1>6. ended' \in BOOLEAN
    BY Zenon DEF ExpireSession, MessagesOK
  <1>. QED  BY <1>1, <1>2, <1>3, <1>4, <1>5, <1>6 DEF MessagesOK

LEMMA GuardRedirectType ==
    ASSUME PagesOK, NEW t \in Tabs, NEW c, GuardRedirect(t, c)
    PROVE  page' \in [Tabs -> PageKinds]
  BY DEF GuardRedirect, PagesOK, PageKinds

LEMMA DeliverType ==
    ASSUME TypeOK, NEW t \in Tabs, Deliver(t)
    PROVE  TypeOK'
  <1>. USE DEF TypeOK
  <1>1. UNCHANGED <<exchangeVars, clockVars, gestures, signedOut>> /\ Release(t) /\ jar' \in 0..issued
    <2>1. jar \in 0..issued
      BY DEF JarOK
    <2>. QED  BY <2>1, SetCookieType
           DEF Deliver, RefreshOk, RefreshTerminal, RefreshTransient, HydrateOk, HydrateFails, ProbeDone, ghostVars
  <1>2. ExchangeTypeOK'
    BY <1>1, QuietExchange
  <1>3. JarOK'
    BY <1>1 DEF JarOK, exchangeVars, iamVars, clockVars
  <1>4. run' \in [Tabs -> Runs] /\ AwaitsOK'
    BY <1>1, ReleaseType DEF exchangeVars, iamVars
  <1>5. run[t].got \in Tokens
    BY DEF PagesOK, Runs
  <1>6. ask' \in [Tabs -> Tokens \cup {NoAsk}]
    BY DEF Deliver, RefreshOk, RefreshTerminal, RefreshTransient, HydrateOk, HydrateFails, ProbeDone, PagesOK
  <1>7. get' \in [Tabs -> BOOLEAN]
    BY DEF Deliver, RefreshOk, RefreshTerminal, RefreshTransient, HydrateOk, HydrateFails, ProbeDone, PagesOK
  <1>8. /\ page' \in [Tabs -> PageKinds] /\ mem' \in [Tabs -> Tokens] /\ latch' \in [Tabs -> BOOLEAN]
        /\ MessagesOK'
    <2>1. CASE ExpireSession(t)
      BY <1>1, <2>1, ExpireSessionType
    <2>2. CASE UNCHANGED <<latch, inbox, dels, ended>> /\ mem' \in [Tabs -> Tokens] /\ page' \in [Tabs -> PageKinds]
      BY <1>1, <2>2 DEF PagesOK, MessagesOK
    <2>3. CASE RefreshOk(t) \/ RefreshTransient(t) \/ HydrateOk(t) \/ ProbeDone(t)
      <3>1. UNCHANGED <<page, latch, inbox, dels, ended>>
        BY <2>3 DEF RefreshOk, RefreshTransient, HydrateOk, ProbeDone, ghostVars
      <3>2. mem' = mem \/ mem' = [mem EXCEPT ![t] = run[t].got]
        BY <2>3 DEF RefreshOk, RefreshTransient, HydrateOk, ProbeDone
      <3>. QED  BY <1>5, <2>2, <3>1, <3>2 DEF PagesOK
    <2>4. CASE HydrateFails(t)
      BY <2>2, <2>4, GuardRedirectType DEF HydrateFails, ghostVars, PagesOK
    <2>5. CASE RefreshTerminal(t)
      <3>1. ExpireSession(t) \/ UNCHANGED <<page, mem, latch, inbox, dels, ended>>
        BY <2>5 DEF RefreshTerminal
      <3>. QED  BY <2>1, <2>2, <3>1 DEF PagesOK
    <2>. QED  BY <2>3, <2>4, <2>5 DEF Deliver
  <1>. QED  BY <1>2, <1>3, <1>4, <1>6, <1>7, <1>8 DEF PagesOK

LEMMA AbortedType ==
    ASSUME TypeOK, NEW t \in Tabs, RefreshAborted(t) \/ HydrateAborted(t)
    PROVE  TypeOK'
  <1>. USE DEF TypeOK
  <1>1. /\ UNCHANGED <<iamVars, slot, recent, reused, jar, clockVars, mem, latch, inbox, dels, gestures, ghostVars>>
        /\ Release(t)
    BY DEF RefreshAborted, HydrateAborted, Aborted
  <1>2. mishap' \in BOOLEAN
    BY DEF RefreshAborted, HydrateAborted, Aborted, DropAnswer
  <1>3. budget' \in 0..MaxFaults
    BY DEF RefreshAborted, HydrateAborted, Aborted, Fault, ExchangeTypeOK, HistoryOK
  <1>4. ExchangeTypeOK'
    BY <1>1, <1>2, <1>3 DEF ExchangeTypeOK, IamOK, BffOK, HistoryOK, iamVars
  <1>5. JarOK'
    BY <1>1 DEF JarOK, iamVars, clockVars
  <1>6. run' \in [Tabs -> Runs] /\ AwaitsOK'
    BY <1>1, ReleaseType DEF iamVars
  <1>7. page' \in [Tabs -> PageKinds]
    BY GuardRedirectType DEF RefreshAborted, HydrateAborted, PagesOK
  <1>8. ask' \in [Tabs -> Tokens \cup {NoAsk}] /\ get' \in [Tabs -> BOOLEAN]
    BY DEF RefreshAborted, HydrateAborted, PagesOK
  <1>9. PagesOK' /\ MessagesOK'
    BY <1>1, <1>6, <1>7, <1>8 DEF PagesOK, MessagesOK, ghostVars
  <1>. QED  BY <1>4, <1>5, <1>6, <1>9

LEMMA LoginType ==
    ASSUME TypeOK, NEW t \in Tabs, Login(t)
    PROVE  TypeOK'
  <1>. USE DEF TypeOK, ExchangeTypeOK
  <1>1. /\ UNCHANGED <<accountVars, slot, recent, reused, mishap, budget>>
        /\ UNCHANGED <<clockVars, latch, ask, get, run, inbox, dels, ghostVars>>
        /\ Issue(0) /\ jar' = issued + 1 /\ mem' = [mem EXCEPT ![t] = issued + 1]
        /\ page' = [page EXCEPT ![t] = "landing"] /\ Gesture
    BY DEF Login
  <1>2. IamOK' /\ issued' = issued + 1 /\ issued' \in Pairs /\ issued \in Nat
    BY <1>1, IssueType DEF IamOK
  <1>3. BffOK'
    <2>1. \A i \in Slots : slot[i].token \in Nat /\ slot[i].next \in Nat
      BY DEF BffOK, Requests
    <2>. QED  BY <1>1, <1>2, <2>1 DEF BffOK
  <1>4. HistoryOK' /\ JarOK'
    BY <1>1, <1>2 DEF HistoryOK, JarOK, clockVars
  <1>5. AwaitsOK'
    <2>1. \A s \in Tabs : run[s].got \in Nat
      BY DEF PagesOK, Runs
    <2>. QED  BY <1>1, <1>2, <2>1 DEF AwaitsOK
  <1>6. PagesOK'
    <2>1. mem' \in [Tabs -> Tokens] /\ page' \in [Tabs -> PageKinds]
      BY <1>1, <1>2 DEF PagesOK, PageKinds
    <2>. QED  BY <1>1, <2>1 DEF PagesOK
  <1>7. MessagesOK'
    BY <1>1 DEF MessagesOK, Gesture, ghostVars
  <1>. QED  BY <1>2, <1>3, <1>4, <1>5, <1>6, <1>7

LEMMA HearType ==
    ASSUME TypeOK, NEW t \in Tabs, Land(t) \/ Hear(t) \/ ClearCookies(t)
    PROVE  TypeOK'
  <1>. USE DEF TypeOK
  <1>1. UNCHANGED <<exchangeVars, clockVars, ask, run, gestures, ghostVars>>
    BY DEF Land, Hear, ClearCookies, tabVars
  <1>2. ExchangeTypeOK'
    BY <1>1, QuietExchange
  <1>3. JarOK'
    BY <1>1 DEF Land, Hear, ClearCookies, JarOK, ExchangeTypeOK, IamOK, exchangeVars, iamVars, clockVars
  <1>4. AwaitsOK'
    BY <1>1 DEF AwaitsOK, exchangeVars, iamVars
  <1>5. page' \in [Tabs -> PageKinds]
    BY DEF Land, Hear, ClearCookies, tabVars, PagesOK, PageKinds
  <1>6. mem' \in [Tabs -> Tokens]
    BY DEF Land, Hear, ClearCookies, tabVars, PagesOK
  <1>7. latch' \in [Tabs -> BOOLEAN]
    BY DEF Land, Hear, ClearCookies, tabVars, PagesOK
  <1>8. get' \in [Tabs -> BOOLEAN]
    <2>1. (get[t] \/ AccessCookieValid) \in BOOLEAN
      BY DEF AccessCookieValid, PagesOK
    <2>. QED  BY <2>1 DEF Land, Hear, ClearCookies, tabVars, PagesOK
  <1>9. inbox' \in [Tabs -> BOOLEAN] /\ dels' \subseteq Tabs
    BY DEF Land, Hear, ClearCookies, tabVars, MessagesOK
  <1>. QED  BY <1>1, <1>2, <1>3, <1>4, <1>5, <1>6, <1>7, <1>8, <1>9 DEF PagesOK, MessagesOK, ghostVars

LEMMA LogoutType ==
    ASSUME TypeOK, NEW t \in Tabs, Logout(t)
    PROVE  TypeOK'
  <1>. USE DEF TypeOK
  <1>1. UNCHANGED <<iamVars, slot, recent, reused, mishap, clockVars, latch, ask, get, run, dels, ended>>
    BY DEF Logout
  <1>2. budget' \in 0..MaxFaults /\ gestures' \in 0..MaxGestures
    BY DEF Logout, Fault, Gesture, ExchangeTypeOK, HistoryOK, MessagesOK
  <1>3. ExchangeTypeOK'
    BY <1>1, <1>2 DEF ExchangeTypeOK, IamOK, BffOK, HistoryOK, iamVars
  <1>4. JarOK'
    BY <1>1 DEF Logout, JarOK, ExchangeTypeOK, IamOK, iamVars, clockVars
  <1>5. AwaitsOK'
    BY <1>1 DEF AwaitsOK, iamVars
  <1>6. page' \in [Tabs -> PageKinds] /\ mem' \in [Tabs -> Tokens]
    BY DEF Logout, PagesOK, PageKinds
  <1>7. inbox' \in [Tabs -> BOOLEAN] /\ signedOut' \in BOOLEAN
    BY DEF Logout, Broadcast, MessagesOK
  <1>. QED  BY <1>1, <1>2, <1>3, <1>4, <1>5, <1>6, <1>7 DEF PagesOK, MessagesOK

LEMMA PageLoadType ==
    ASSUME TypeOK, NEW t \in Tabs, NEW kind \in {"app", "auth", "site"}, PageLoad(t, kind)
    PROVE  TypeOK'
  <1>. USE DEF TypeOK
  <1>1. UNCHANGED <<iamVars, slot, recent, reused, budget, jar, clockVars, ghostVars>> /\ Release(t)
    BY DEF PageLoad
  <1>2. mishap' \in BOOLEAN
    BY DEF PageLoad, DropAnswer
  <1>3. ExchangeTypeOK'
    BY <1>1, <1>2 DEF ExchangeTypeOK, IamOK, BffOK, HistoryOK, iamVars
  <1>4. JarOK'
    BY <1>1 DEF JarOK, iamVars, clockVars
  <1>5. run' \in [Tabs -> Runs] /\ AwaitsOK'
    BY <1>1, ReleaseType DEF iamVars
  <1>6. gestures' \in 0..MaxGestures
    BY DEF PageLoad, Gesture, MessagesOK
  <1>7. page' \in [Tabs -> PageKinds] /\ mem' \in [Tabs -> Tokens]
    BY DEF PageLoad, PagesOK, PageKinds
  <1>8. get' \in [Tabs -> BOOLEAN] /\ latch' \in [Tabs -> BOOLEAN] /\ inbox' \in [Tabs -> BOOLEAN]
    BY DEF PageLoad, PagesOK, MessagesOK
  <1>9. ask' \in [Tabs -> Tokens \cup {NoAsk}] /\ dels' \subseteq Tabs
    BY DEF PageLoad, PagesOK, MessagesOK
  <1>. QED  BY <1>1, <1>3, <1>4, <1>5, <1>6, <1>7, <1>8, <1>9 DEF PagesOK, MessagesOK, ghostVars

LEMMA StutterType ==
    ASSUME TypeOK, UNCHANGED vars
    PROVE  TypeOK'
  <1>1. ExchangeTypeOK'
    BY QuietExchange DEF vars, TypeOK
  <1>. QED  BY <1>1, QuietBrowser DEF vars, exchangeVars, iamVars, TypeOK, ExchangeTypeOK, IamOK

LEMMA TabType ==
    ASSUME TypeOK, NEW t \in Tabs, TabStep(t)
    PROVE  TypeOK'
  <1>1. "hydrate" \in OpKinds /\ "probe" \in OpKinds
    BY DEF OpKinds
  <1>2. CASE Watchdog(t) \/ Unauthorized(t) \/ RefreshSession(t)
    BY <1>2, AskType
  <1>3. CASE StartRefresh(t) \/ StartHydrate(t) \/ StartProbe(t)
    BY <1>1, <1>3, StartType DEF StartHydrate, StartProbe
  <1>4. CASE Deliver(t)
    BY <1>4, DeliverType
  <1>5. CASE RefreshAborted(t) \/ HydrateAborted(t)
    BY <1>5, AbortedType
  <1>6. CASE Login(t)
    BY <1>6, LoginType
  <1>7. CASE Land(t) \/ Hear(t) \/ ClearCookies(t)
    BY <1>7, HearType
  <1>8. CASE Logout(t)
    BY <1>8, LogoutType
  <1>9. CASE \E kind \in {"app", "auth", "site"} : PageLoad(t, kind)
    BY <1>9, PageLoadType
  <1>. QED  BY <1>2, <1>3, <1>4, <1>5, <1>6, <1>7, <1>8, <1>9 DEF TabStep

LEMMA TypeStep ==
    ASSUME TypeOK, [Next]_vars
    PROVE  TypeOK'
  BY ServerType, ClockType, SettleType, TabType, StutterType DEF Next

\* Every variable keeps its type, whatever the tabs, the servers and the
\* faults do.
THEOREM TypeCorrect == Spec => []TypeOK
  <1>1. TypeOK /\ [Next]_vars => TypeOK'
    BY TypeStep
  <1>. QED  BY InitType, <1>1, PTL DEF Spec

-----------------------------------------------------------------------------
(* The lock.                                                               *)

LEMMA SerialStep ==
    ASSUME TypeOK, Serial, [Next]_vars
    PROVE  Serial'
  <1>. USE DEF TypeOK, PagesOK
  <1>1. ASSUME NEW t \in Tabs, run'[t] = NoRun, OthersRun(t)
        PROVE  Serial'
    BY <1>1 DEF Serial, OthersRun
  <1>2. ASSUME NEW t \in Tabs, LockFree(t), OthersRun(t)
        PROVE  Serial'
    BY <1>2 DEF Serial, OthersRun, LockFree
  <1>3. ASSUME UNCHANGED run
        PROVE  Serial'
    BY <1>3 DEF Serial
  <1>4. ASSUME NEW i \in Slots, ExchangeSettles(i)
        PROVE  Serial'
    <2>1. PICK v, p : Inform(i, v, p)
      BY <1>4 DEF ExchangeSettles
    <2>2. \A t \in Tabs : run[t] = NoRun => run'[t] = NoRun
      <3>1. NoRun.via # i
        BY DEF NoRun
      <3>. QED  BY <2>1, <3>1 DEF Inform
    <2>. QED  BY <2>2 DEF Serial
  <1>5. ASSUME NEW t \in Tabs, TabStep(t)
        PROVE  Serial'
    <2>1. CASE Release(t)
      BY <2>1, ReleaseEffect, <1>1
    <2>2. CASE StartRefresh(t) \/ StartHydrate(t) \/ StartProbe(t)
      <3>1. LockFree(t)
        BY <2>2 DEF StartRefresh, StartHydrate, StartProbe, StartGet
      <3>2. ASSUME NEW op, NEW v, NEW p, NEW b, Answer(t, op, v, p, b)
            PROVE  OthersRun(t)
        BY <3>2 DEF Answer, OthersRun
      <3>3. ASSUME NEW op, NEW i, Await(t, op, i)
            PROVE  OthersRun(t)
        BY <3>3 DEF Await, OthersRun
      <3>4. ASSUME NEW op, ExchangeCookie(t, op)
            PROVE  OthersRun(t)
        BY <3>2, <3>3, <3>4 DEF ExchangeCookie
      <3>5. ASSUME NEW op, StartGet(t, op)
            PROVE  OthersRun(t)
        BY <3>2, <3>4, <3>5 DEF StartGet
      <3>6. OthersRun(t)
        BY <2>2, <3>2, <3>4, <3>5 DEF StartRefresh, StartHydrate, StartProbe
      <3>. QED  BY <3>1, <3>6, <1>2
    <2>3. CASE UNCHANGED run
      BY <2>3, <1>3
    <2>. QED  BY <1>5, <2>1, <2>2, <2>3
         DEF TabStep, Watchdog, Unauthorized, RefreshSession, Deliver, RefreshOk, RefreshTerminal, RefreshTransient,
             HydrateOk, HydrateFails, ProbeDone, RefreshAborted, HydrateAborted, Aborted, Login, Land, Logout, Hear,
             ClearCookies, PageLoad, tabVars
  <1>6. CASE ServerStep \/ BecomesDue \/ Expires \/ UNCHANGED vars
    BY <1>3, <1>6 DEF ServerStep, BecomesDue, Expires, vars, browserVars, tabVars
  <1>. QED  BY <1>4, <1>5, <1>6 DEF Next

-----------------------------------------------------------------------------
(* While no mishap has happened.                                           *)

USE DEF IInv

\* The exchange under way is the only one, and one tab awaits it.
LEMMA Alone ==
    ASSUME IInv, ~mishap, NEW i \in Slots, slot[i].step # "free"
    PROVE  /\ slot[i].flying
           /\ \A j \in Slots : j # i => slot[j] = FreeSlot
           /\ \A t \in Tabs : run[t].via = i \/ run[t] = NoRun
           /\ \E t \in Tabs : run[t].via = i
  <1>0. NoRun.via = NoSlot /\ FreeSlot.step = "free"
    BY DEF NoRun, FreeSlot
  <1>1. PICK t \in Tabs : run[t].via = i
    BY <1>0 DEF Sound, Awaited
  <1>2. \A s \in Tabs : s # t => run[s] = NoRun
    BY <1>0, <1>1 DEF Serial
  <1>3. \A j \in Slots : j # i => slot[j] = FreeSlot
    BY <1>0, <1>1, <1>2 DEF Sound, Awaited
  <1>. QED  BY <1>0, <1>1, <1>2, <1>3 DEF Sound, Awaited

\* Once no operation awaits an exchange there is none.
LEMMA NoneUnderWay ==
    ASSUME IInv, ~mishap, \A t \in Tabs : run[t].via = NoSlot
    PROVE  \A i \in Slots : slot[i] = FreeSlot
  BY DEF Sound, Awaited

\* Steps that leave the exchanges and the operations alone; of the sessions
\* they delete only what an operation on the account revokes.
LEMMA QuietSound ==
    ASSUME IInv, ~mishap, UNCHANGED <<issued, parent, slot, recent, reused, run>>, jar' = jar \/ jar' = 0,
           live' \subseteq live, revoked \subseteq revoked', live \cup revoked \subseteq live' \cup revoked'
    PROVE  Sound'
  <1>. USE DEF Sound
  <1>1. \A p \in Tokens : Unspent(p) => Unspent(p)'
    BY DEF Unspent
  <1>2. /\ \A i \in Slots : slot[i].next \in Tokens /\ slot[i].token \in Tokens
        /\ \A t \in Tabs : run[t].got \in Tokens
        /\ jar \in Tokens
    BY DEF TypeOK, ExchangeTypeOK, IamOK, BffOK, JarOK, PagesOK, Requests, Runs
  <1>3. Awaited' /\ NoForks' /\ reused' \subseteq revoked'
    BY DEF Awaited, NoForks
  <1>4. Stages'
    <2>. SUFFICES ASSUME NEW i \in Slots
                  PROVE  /\ slot[i].step = "free" => slot[i] = FreeSlot
                         /\ slot[i].step \in {"lookup", "delete"} => slot[i].token \in live' \cup revoked'
                         /\ slot[i].step = "revoke" => slot[i].token \in revoked'
                         /\ slot[i].step \in {"delete", "check", "create"} => \A q \in live' : parent[q] # slot[i].token
                         /\ slot[i].step \in {"check", "create"} => slot[i].token \in Pairs \ live'
                         /\ slot[i].step = "answer" => slot[i].verdict # "none"
                         /\ slot[i].step = "answer" /\ slot[i].verdict = "ok" =>
                               Unspent(slot[i].next)' /\ slot[i].token \notin live' /\ slot[i].token # slot[i].next
      BY DEF Stages, Unspent
    <2>. QED  BY <1>1, <1>2 DEF Stages
  <1>5. Answers'
    <2>1. \A t \in Tabs : run[t].sets /\ run[t].via = NoSlot /\ run[t].verdict = "ok" => Unspent(run[t].got)'
      BY <1>1, <1>2 DEF Answers
    <2>. QED  BY <2>1 DEF Answers, Unspent
  <1>6. JarOwed'
    BY <1>1, <1>2 DEF JarOwed, Unspent
  <1>. QED  BY <1>3, <1>4, <1>5, <1>6

LEMMA AccountSound ==
    ASSUME IInv, ~mishap, AccountStep, UNCHANGED browserVars
    PROVE  Sound'
  <1>1. live' \subseteq live /\ revoked \subseteq revoked' /\ live \cup revoked \subseteq live' \cup revoked'
    BY DEF AccountStep, UpdateStatus, DeleteAccount, ChangePassword, Purge, DeleteSession
  <1>2. UNCHANGED <<issued, parent, slot, recent, reused, run, jar>>
    BY DEF AccountStep, browserVars, tabVars
  <1>. QED  BY <1>1, <1>2, QuietSound

\* A step of the one exchange under way.
LEMMA ServerSound ==
    ASSUME IInv, ServerStep, ~mishap'
    PROVE  ~mishap /\ Sound'
  <1>. USE DEF Sound
  <1>0. ~mishap /\ UNCHANGED browserVars
    BY DEF ServerStep, GatewayStep, IamStep, GatewayRefuses, Lookup, RevokeAll, DeleteOld, CheckAccount,
           CreateNew, FailHalfway, SlowDown, AccountStep
  <1>1. jar' = jar /\ run' = run
    BY <1>0 DEF browserVars, tabVars
  <1>2. NoRun.via = NoSlot /\ ~NoRun.sets /\ FreeSlot.step = "free" /\ FreeSlot.token = 0 /\ FreeSlot.verdict = "none"
    BY DEF NoRun, FreeSlot
  <1>3. slot \in [Slots -> Requests] /\ issued \in Nat /\ live \subseteq 1..issued /\ live \subseteq Pairs
    BY DEF TypeOK, ExchangeTypeOK, BffOK, IamOK
  <1>4. CASE AccountStep
    BY <1>0, <1>4, AccountSound
  <1>5. ASSUME NEW i \in Slots, GatewayStep(i) \/ SlowDown(i)
        PROVE  Sound'
    <2>1. slot[i].step # "free"
      <3>1. CASE GatewayStep(i)
        BY <3>1 DEF GatewayStep, IamStep, GatewayRefuses, Lookup, RevokeAll, DeleteOld, CheckAccount,
                       CreateNew
      <3>2. CASE SlowDown(i)
        BY <1>0, <3>2 DEF SlowDown, FreeSlot, Stages
      <3>. QED  BY <1>5, <3>1, <3>2
    <2>2. /\ slot[i].flying /\ \A j \in Slots : j # i => slot[j] = FreeSlot
          /\ \A t \in Tabs : run[t].via = i \/ run[t] = NoRun
          /\ \E t \in Tabs : run[t].via = i
      BY <1>0, <2>1, Alone
    <2>3. i # NoSlot
      OBVIOUS
    <2>. DEFINE tok == slot[i].token
    <2>4. tok \in Tokens /\ tok <= issued /\ slot[i].next <= issued
      BY <1>3 DEF TypeOK, ExchangeTypeOK, BffOK, Requests
    \* No response is on its way to a tab, and if the jar holds a spent token
    \* it is this exchange that spent it.
    <2>5. \A t \in Tabs : ~(run[t].sets /\ run[t].via = NoSlot)
      BY <1>2, <2>2, <2>3
    <2>6. jar # 0 /\ ~Unspent(jar) =>
            \/ slot[i].step \in {"check", "create"} /\ tok = jar
            \/ slot[i].step = "answer" /\ slot[i].verdict \in Conclusive
      <3>1. \A j \in Slots : slot[j].step \in {"check", "create", "answer"} => j = i
        BY <1>2, <2>2
      <3>2. JarOwed
        BY <1>0
      <3>. QED  BY <2>5, <3>1, <3>2 DEF JarOwed
    \* What remains to be shown once the effect on slot i is known.
    <2>7. ASSUME OthersKeep(i), slot'[i].flying, slot'[i].step # "free",
                 slot'[i].step \in {"lookup", "delete"} => slot'[i].token \in live' \cup revoked',
                 slot'[i].step = "revoke" => slot'[i].token \in revoked',
                 slot'[i].step \in {"delete", "check", "create"} => \A q \in live' : parent'[q] # slot'[i].token,
                 slot'[i].step \in {"check", "create"} => slot'[i].token \in Pairs \ live',
                 slot'[i].step = "answer" => slot'[i].verdict # "none",
                 slot'[i].step = "answer" /\ slot'[i].verdict = "ok" =>
                     Unspent(slot[i].next)' /\ slot'[i].token \notin live' /\ slot'[i].token # slot'[i].next
          PROVE  Awaited' /\ Stages'
      <3>1. \A j \in Slots : j # i => slot'[j] = FreeSlot
        BY <2>2, <2>7 DEF OthersKeep
      <3>2. Awaited'
        BY <1>1, <2>2, <2>7, <3>1 DEF Awaited
      <3>3. Stages'
        BY <1>2, <2>7, <3>1 DEF Stages, Unspent
      <3>. QED  BY <3>2, <3>3
    <2>8. ASSUME live' \subseteq live, UNCHANGED <<issued, parent, recent>>
          PROVE  Answers' /\ NoForks'
      BY <1>0, <1>1, <2>5, <2>8 DEF Answers, NoForks
    \* The jar while the sessions and what is remembered of them stay as they are.
    <2>15. ASSUME UNCHANGED <<live, revoked, recent>>,
                  slot[i].step \in {"check", "create"} =>
                      \/ slot'[i].step \in {"check", "create"} /\ slot'[i].token = tok
                      \/ slot'[i].step = "answer" /\ slot'[i].verdict \in Conclusive,
                  slot[i].step = "answer" => slot'[i].step = "answer" /\ slot'[i].verdict = slot[i].verdict
           PROVE  JarOwed'
      <3>1. Unspent(jar)' = Unspent(jar)
        BY <1>1, <2>15 DEF Unspent
      <3>. QED  BY <1>1, <2>6, <2>15, <3>1 DEF JarOwed
    <2>9. CASE GatewayRefuses(i)
      <3>1. Reply(i, "unavailable", 0) /\ UNCHANGED <<iamVars, recent, reused>> /\ slot[i].step = "lookup"
        BY <2>9 DEF GatewayRefuses
      <3>2. /\ OthersKeep(i) /\ slot'[i].flying /\ slot'[i].step = "answer" /\ slot'[i].verdict = "unavailable"
        BY <1>3, <2>2, <3>1, ReplyEffect DEF Verdicts
      <3>3. Awaited' /\ Stages' /\ Answers' /\ NoForks'
        BY <2>7, <2>8, <3>1, <3>2 DEF iamVars
      <3>4. JarOwed'
        BY <2>15, <3>1 DEF iamVars
      <3>. QED  BY <1>0, <3>1, <3>3, <3>4 DEF iamVars
    <2>10. CASE Lookup(i)
      <3>1. UNCHANGED <<iamVars, recent, reused>> /\ slot[i].step = "lookup" /\ tok \in live \cup revoked
        BY <1>0, <2>10 DEF Lookup, Stages
      <3>2. ASSUME tok \in live, Proceed(i, "delete")
            PROVE  Awaited' /\ Stages' /\ Answers' /\ NoForks'
        <4>1. /\ OthersKeep(i) /\ slot'[i].flying /\ slot'[i].step = "delete" /\ slot'[i].token = tok
          BY <1>3, <2>2, <3>2, ProceedEffect DEF Steps
        <4>2. \A q \in live : parent[q] # tok
          <5>1. tok # 0 /\ NoForks
            BY <1>0, <1>3, <3>2
          <5>. QED  BY <3>2, <5>1 DEF NoForks
        <4>. QED  BY <2>7, <2>8, <3>1, <4>1, <4>2 DEF iamVars
      <3>3. ASSUME tok \notin live, Proceed(i, "revoke")
            PROVE  Awaited' /\ Stages' /\ Answers' /\ NoForks'
        <4>1. /\ OthersKeep(i) /\ slot'[i].flying /\ slot'[i].step = "revoke" /\ slot'[i].token = tok
          BY <1>3, <2>2, <3>3, ProceedEffect DEF Steps
        <4>. QED  BY <2>7, <2>8, <3>1, <3>3, <4>1 DEF iamVars
      <3>4. Awaited' /\ Stages' /\ Answers' /\ NoForks'
        BY <1>0, <2>10, <3>2, <3>3 DEF Lookup
      <3>5. JarOwed'
        BY <2>15, <3>1 DEF iamVars
      <3>. QED  BY <1>0, <3>1, <3>4, <3>5 DEF iamVars
    <2>11. CASE RevokeAll(i)
      <3>1. /\ slot[i].step = "revoke" /\ Reply(i, "rejected", 0) /\ live' \subseteq live
            /\ reused' = reused \cup {tok} /\ UNCHANGED <<issued, parent, revoked, recent>>
        BY <2>11 DEF RevokeAll
      <3>2. /\ OthersKeep(i) /\ slot'[i].flying /\ slot'[i].step = "answer" /\ slot'[i].verdict = "rejected"
        BY <1>3, <2>2, <3>1, ReplyEffect DEF Verdicts
      <3>3. Awaited' /\ Stages' /\ Answers' /\ NoForks'
        BY <2>7, <2>8, <3>1, <3>2
      <3>4. JarOwed'
        BY <3>2 DEF JarOwed, Conclusive
      <3>5. reused' \subseteq revoked'
        BY <1>0, <3>1 DEF Stages
      <3>. QED  BY <1>0, <3>3, <3>4, <3>5
    <2>12. CASE DeleteOld(i)
      <3>1. /\ live' = live \ {tok} /\ Proceed(i, "check") /\ slot[i].step = "delete"
            /\ UNCHANGED <<issued, parent, accountVars, recent, reused>> /\ tok \in live \cup revoked
            /\ \A q \in live : parent[q] # tok
        BY <1>0, <2>12 DEF DeleteOld, Stages
      <3>2. /\ OthersKeep(i) /\ slot'[i].flying /\ slot'[i].step = "check" /\ slot'[i].token = tok
        BY <1>3, <2>2, <3>1, ProceedEffect DEF Steps
      <3>3. tok \in Pairs \ live' /\ \A q \in live' : parent'[q] # tok
        <4>1. \A p \in live \cup revoked : p \in Pairs
          BY DEF TypeOK, ExchangeTypeOK, IamOK
        <4>. QED  BY <3>1, <4>1
      <3>4. Awaited' /\ Stages' /\ Answers' /\ NoForks'
        BY <2>7, <2>8, <3>1, <3>2, <3>3
      <3>5. JarOwed'
        <4>1. jar # tok /\ Unspent(jar) => Unspent(jar)'
          BY <1>1, <3>1 DEF Unspent
        <4>2. jar # 0 => Unspent(jar)
          BY <2>6, <3>1
        <4>. QED  BY <1>1, <3>2, <4>1, <4>2 DEF JarOwed
      <3>. QED  BY <1>0, <3>1, <3>4, <3>5
    <2>13. CASE CreateNew(i)
      <3>1. /\ slot[i].step = "create" /\ recent' = recent /\ reused' = reused /\ revoked' = revoked
            /\ Issue(tok) /\ Reply(i, "ok", issued + 1)
        BY <1>0, <2>13 DEF CreateNew, FailHalfway
      <3>2. tok \in Pairs \ live /\ \A q \in live : parent[q] # tok
        BY <1>0, <3>1 DEF Stages
      <3>3. issued' = issued + 1 /\ live' = live \cup {issued + 1} /\ parent' = [parent EXCEPT ![issued + 1] = tok]
            /\ issued + 1 \in Tokens /\ issued + 1 \in Pairs
        BY <1>3, <3>1 DEF Issue, TypeOK, ExchangeTypeOK, IamOK
      <3>4. /\ OthersKeep(i) /\ slot'[i].flying /\ slot'[i].step = "answer" /\ slot'[i].verdict = "ok"
            /\ slot'[i].next = issued + 1 /\ slot'[i].token = tok
        BY <1>3, <2>2, <3>1, <3>3, ReplyEffect DEF Verdicts
      <3>5. tok \notin live' /\ tok # issued + 1
        BY <1>3, <2>4, <3>2, <3>3
      <3>6. recent[issued + 1] = 0
        <4>1. Answers
          BY <1>0
        <4>. QED  BY <1>3, <3>3, <4>1 DEF Answers
      <3>7. Unspent(slot[i].next)'
        BY <3>1, <3>3, <3>4, <3>6 DEF Unspent
      <3>8. Awaited' /\ Stages'
        BY <2>7, <3>3, <3>4, <3>5, <3>7
      <3>9. \A q \in live : parent'[q] = parent[q] /\ parent[q] <= issued /\ parent[q] \in Nat
        BY <1>3, <3>3 DEF TypeOK, ExchangeTypeOK, IamOK
      <3>10. parent'[issued + 1] = tok
        BY <3>3 DEF TypeOK, ExchangeTypeOK, IamOK
      <3>11. NoForks'
        BY <1>0, <1>3, <3>2, <3>3, <3>5, <3>9, <3>10 DEF NoForks
      <3>12. Answers'
        BY <1>0, <1>1, <1>3, <2>5, <3>1, <3>3, <3>6 DEF Answers
      <3>13. JarOwed'
        BY <1>1, <3>4 DEF JarOwed, Conclusive
      <3>. QED  BY <1>0, <3>1, <3>8, <3>11, <3>12, <3>13
    <2>16. CASE CheckAccount(i)
      <3>1. /\ slot[i].step = "check" /\ UNCHANGED <<iamVars, recent, reused>>
            /\ Proceed(i, "create") \/ Reply(i, "rejected", 0)
        BY <1>0, <2>16 DEF CheckAccount, FailHalfway
      <3>2. tok \in Pairs \ live /\ \A q \in live : parent[q] # tok
        BY <1>0, <3>1 DEF Stages
      <3>3. CASE Proceed(i, "create")
        <4>1. /\ OthersKeep(i) /\ slot'[i].flying /\ slot'[i].step = "create" /\ slot'[i].token = tok
          BY <1>3, <2>2, <3>3, ProceedEffect DEF Steps
        <4>2. Awaited' /\ Stages' /\ Answers' /\ NoForks'
          BY <2>7, <2>8, <3>1, <3>2, <4>1 DEF iamVars
        <4>3. JarOwed'
          BY <2>15, <3>1, <4>1 DEF iamVars
        <4>. QED  BY <1>0, <3>1, <4>2, <4>3 DEF iamVars
      <3>4. CASE Reply(i, "rejected", 0)
        <4>1. /\ OthersKeep(i) /\ slot'[i].flying /\ slot'[i].step = "answer" /\ slot'[i].verdict = "rejected"
          BY <1>3, <2>2, <3>4, ReplyEffect DEF Verdicts
        <4>2. Awaited' /\ Stages' /\ Answers' /\ NoForks'
          BY <2>7, <2>8, <3>1, <4>1 DEF iamVars
        <4>3. JarOwed'
          BY <4>1 DEF JarOwed, Conclusive
        <4>. QED  BY <1>0, <3>1, <4>2, <4>3 DEF iamVars
      <3>. QED  BY <3>1, <3>3, <3>4
    <2>14. CASE SlowDown(i)
      <3>1. UNCHANGED <<iamVars, recent, reused>>
        BY <2>14 DEF SlowDown
      <3>2. /\ OthersKeep(i) /\ slot'[i].flying /\ slot'[i].step = slot[i].step /\ slot'[i].token = tok
            /\ slot'[i].next = slot[i].next /\ slot'[i].verdict = slot[i].verdict
        BY <1>3, <2>14, SlowDownEffect
      <3>3. Unspent(slot[i].next)' = Unspent(slot[i].next)
        BY <3>1, <3>2 DEF Unspent, iamVars
      <3>4. Stages
        BY <1>0
      <3>5. Awaited' /\ Stages'
        BY <2>1, <2>7, <3>1, <3>2, <3>3, <3>4 DEF Stages, iamVars
      <3>6. Answers' /\ NoForks'
        BY <2>8, <3>1 DEF iamVars
      <3>7. JarOwed'
        BY <2>15, <3>1, <3>2 DEF iamVars
      <3>. QED  BY <1>0, <3>1, <3>5, <3>6, <3>7 DEF iamVars
    <2>. QED  BY <1>5, <2>9, <2>10, <2>11, <2>12, <2>13, <2>14, <2>16 DEF GatewayStep, IamStep
  <1>. QED  BY <1>0, <1>4, <1>5 DEF ServerStep

\* The settled exchange hands its pair to the tab that awaits it.
LEMMA SettleSound ==
    ASSUME IInv, NEW i \in Slots, ExchangeSettles(i), ~mishap'
    PROVE  ~mishap /\ Sound'
  <1>. USE DEF Sound
  <1>0. /\ ~mishap /\ BffReceive(i) /\ Inform(i, slot[i].verdict, slot[i].next)
        /\ jar' = jar /\ UNCHANGED <<iamVars, reused>> /\ slot[i].step = "answer"
    BY DEF ExchangeSettles, BffReceive, BffAbort
  <1>1. ~NoRun.sets /\ NoRun.via # i /\ FreeSlot.step = "free"
    BY DEF NoRun, FreeSlot
  <1>2. /\ slot \in [Slots -> Requests] /\ live \subseteq 1..issued
        /\ slot[i].verdict \in Verdicts /\ slot[i].next \in Tokens /\ slot[i].token \in Tokens /\ slot[i].token <= issued
    BY DEF TypeOK, ExchangeTypeOK, BffOK, IamOK, Requests
  <1>3. /\ \A j \in Slots : j # i => slot[j] = FreeSlot
        /\ \A t \in Tabs : run[t].via = i \/ run[t] = NoRun
        /\ \E t \in Tabs : run[t].via = i
    BY <1>0, Alone
  <1>4. \A j \in Slots : slot'[j] = FreeSlot
    BY <1>0, <1>2, <1>3, ReceiveEffect DEF OthersKeep
  <1>5. /\ \A t \in Tabs : run[t] = NoRun => run'[t] = NoRun
        /\ \A t \in Tabs : run[t].via = i =>
              /\ run'[t].sets = run[t].sets /\ run'[t].via = NoSlot
              /\ run'[t].verdict = slot[i].verdict /\ run'[t].got = slot[i].next
    BY <1>0, <1>1, <1>2, InformEffect DEF TypeOK, PagesOK
  <1>6. \A t \in Tabs : run[t].via = i => run[t].sets
    BY DEF TypeOK, AwaitsOK
  <1>7. Awaited' /\ Stages'
    BY <1>1, <1>4 DEF Awaited, Stages, Unspent
  <1>8. Stages /\ Answers /\ JarOwed /\ NoForks /\ reused \subseteq revoked
    BY <1>0
  <1>9. \A p \in Tokens : Unspent(p) /\ (slot[i].verdict = "ok" => p # slot[i].token) => Unspent(p)'
    BY <1>0, <1>2 DEF BffReceive, Unspent, iamVars, TypeOK, ExchangeTypeOK, BffOK
  <1>10. Answers'
    <2>1. \A t \in Tabs : run'[t].sets /\ run'[t].via = NoSlot /\ run'[t].verdict = "ok" => Unspent(run[t].got)'
      <3>. SUFFICES ASSUME NEW t \in Tabs, run'[t].sets, run'[t].verdict = "ok"
                    PROVE  Unspent(run[t].got)'
        OBVIOUS
      <3>1. run[t].via = i /\ run'[t].got = slot[i].next /\ slot[i].verdict = "ok"
        BY <1>1, <1>3, <1>5
      <3>2. Unspent(slot[i].next) /\ slot[i].next # slot[i].token
        BY <1>0, <1>8, <3>1 DEF Stages
      <3>3. \E p \in Tokens : p = slot[i].next /\ Unspent(p)'
        BY <1>2, <1>9, <3>2
      <3>. QED  BY <3>1, <3>3 DEF Unspent
    <2>2. \A p \in Pairs : recent'[p] # 0 => p <= issued /\ p \notin live
      <3>1. CASE slot[i].verdict = "ok"
        <4>1. recent' = [recent EXCEPT ![slot[i].token] = slot[i].next] /\ slot[i].token \notin live
          BY <1>0, <1>8, <3>1 DEF BffReceive, Stages
        <4>. QED  BY <1>2, <1>8, <4>1 DEF Answers, TypeOK, ExchangeTypeOK, BffOK
      <3>2. CASE slot[i].verdict # "ok"
        BY <1>0, <1>8, <3>2 DEF BffReceive, Answers
      <3>. QED  BY <3>1, <3>2
    <2>. QED  BY <1>0, <2>1, <2>2 DEF Answers, Unspent, iamVars
  <1>11. JarOwed'
    <2>. SUFFICES ASSUME jar # 0, ~Unspent(jar)'
                  PROVE  \E t \in Tabs : run'[t].sets /\ run'[t].via = NoSlot /\ run'[t].verdict \in Conclusive
      BY <1>0 DEF JarOwed, Unspent
    <2>1. slot[i].verdict \in Conclusive
      <3>1. \A j \in Slots : slot[j].step \in {"check", "create", "answer"} => j = i
        BY <1>1, <1>3
      <3>2. \A t \in Tabs : run[t].sets => run[t].via # NoSlot
        BY <1>1, <1>3
      <3>3. CASE Unspent(jar)
        <4>1. jar \in Tokens
          BY DEF TypeOK, ExchangeTypeOK, IamOK, JarOK
        <4>2. slot[i].verdict = "ok"
          BY <1>0, <1>9, <3>3, <4>1 DEF Unspent
        <4>. QED  BY <4>2 DEF Conclusive
      <3>4. CASE ~Unspent(jar)
        BY <1>0, <1>8, <3>1, <3>2, <3>4 DEF JarOwed
      <3>. QED  BY <3>3, <3>4
    <2>. QED  BY <1>3, <1>5, <1>6, <2>1
  <1>12. NoForks' /\ reused' \subseteq revoked'
    BY <1>0, <1>8 DEF NoForks, iamVars
  <1>. QED  BY <1>0, <1>7, <1>10, <1>11, <1>12

\* An operation that starts finds no exchange under way and an unspent token
\* in the jar.
LEMMA StartSound ==
    ASSUME IInv, NEW t \in Tabs, StartRefresh(t) \/ StartHydrate(t) \/ StartProbe(t), ~mishap'
    PROVE  ~mishap /\ Sound'
  <1>. USE DEF Sound
  <1>1. NoRun.via = NoSlot /\ ~NoRun.sets /\ FreeSlot.step = "free" /\ ~FreeSlot.flying
    BY DEF NoRun, FreeSlot
  <1>2. LockFree(t) /\ jar' = jar /\ UNCHANGED <<iamVars, reused, mishap>>
    BY DEF StartRefresh, StartHydrate, StartProbe, StartGet, ExchangeCookie, Join, Launch, exchangeVars
  <1>3. /\ run \in [Tabs -> Runs] /\ slot \in [Slots -> Requests] /\ recent \in [Pairs -> Tokens] /\ jar \in Tokens
    BY DEF TypeOK, ExchangeTypeOK, BffOK, IamOK, JarOK, PagesOK
  <1>4. \A s \in Tabs : run[s] = NoRun
    BY <1>2 DEF LockFree
  <1>5. \A i \in Slots : slot[i] = FreeSlot
    BY <1>1, <1>2, <1>4, NoneUnderWay
  <1>6. reused \subseteq revoked /\ Answers /\ JarOwed /\ NoForks
    BY <1>2
  <1>7. jar = 0 \/ Unspent(jar)
    BY <1>1, <1>4, <1>5, <1>6 DEF JarOwed
  <1>14. \A p \in Tokens : Unspent(p) => Unspent(p)'
    <2>1. \A p \in Pairs : recent[p] = 0 => recent'[p] = 0
      <3>1. ASSUME recent' = recent \/ recent' = [recent EXCEPT ![jar] = 0]
            PROVE  \A p \in Pairs : recent[p] = 0 => recent'[p] = 0
        BY <1>3, <3>1
      <3>2. ASSUME NEW op, ExchangeCookie(t, op)
            PROVE  recent' = recent \/ recent' = [recent EXCEPT ![jar] = 0]
        BY <3>2 DEF ExchangeCookie, Join, Launch, Prune, exchangeVars
      <3>3. recent' = recent \/ recent' = [recent EXCEPT ![jar] = 0]
        BY <3>2 DEF StartRefresh, StartHydrate, StartProbe, StartGet, exchangeVars
      <3>. QED  BY <3>1, <3>3
    <2>2. live \cup revoked \subseteq Pairs
      BY DEF TypeOK, ExchangeTypeOK, IamOK
    <2>. QED  BY <1>2, <2>1, <2>2 DEF Unspent, iamVars
  <1>8. NoForks' /\ reused' \subseteq revoked' /\ JarOwed'
    <2>1. jar' = 0 \/ Unspent(jar)'
      BY <1>2, <1>3, <1>7, <1>14 DEF Unspent
    <2>. QED  BY <1>2, <1>6, <2>1 DEF NoForks, JarOwed, iamVars
  <1>9. \A op \in OpKinds : ExchangeCookie(t, op) /\ jar # 0 => Awaited' /\ Stages' /\ Answers'
    <2>. SUFFICES ASSUME NEW op \in OpKinds, ExchangeCookie(t, op), jar # 0
                  PROVE  Awaited' /\ Stages' /\ Answers'
      OBVIOUS
    <2>1. jar \in live \cup revoked /\ recent[jar] = 0 /\ InFlight(jar) = {}
      BY <1>1, <1>5, <1>7 DEF Unspent, InFlight
    <2>2. \A p \in Pairs : recent'[p] # 0 => recent[p] # 0
      BY <1>3 DEF ExchangeCookie, Join, Launch, Prune, exchangeVars
    <2>3. ASSUME NEW i \in Slots, Launch(i, jar), Await(t, op, i)
          PROVE  Awaited' /\ Stages' /\ Answers'
      <3>1. /\ OthersKeep(i) /\ slot'[i].token = jar /\ slot'[i].step = "lookup" /\ slot'[i].flying
        BY <1>3, <2>3, LaunchEffect
      <3>2. OthersRun(t) /\ run'[t].via = i
        BY <1>3, <2>3, AwaitEffect
      <3>3. Awaited'
        BY <1>5, <3>1, <3>2 DEF Awaited, OthersKeep
      <3>4. Stages'
        BY <1>1, <1>2, <1>5, <2>1, <3>1 DEF Stages, Unspent, OthersKeep, iamVars
      <3>5. Answers'
        BY <1>1, <1>2, <1>4, <1>6, <2>2, <3>2 DEF Answers, Unspent, OthersRun, iamVars
      <3>. QED  BY <3>3, <3>4, <3>5
    <2>4. CASE Answer(t, op, "unavailable", 0, FALSE) /\ Join(jar)
      <3>1. "unavailable" \in Verdicts /\ 0 \in Tokens
        BY DEF Verdicts
      <3>2. OthersRun(t) /\ ~run'[t].sets /\ slot' = slot
        BY <1>3, <2>4, <3>1, AnswerEffect DEF Join
      <3>3. Awaited' /\ Stages'
        BY <1>1, <1>5, <3>2 DEF Awaited, Stages, Unspent
      <3>4. Answers'
        BY <1>1, <1>2, <1>4, <1>6, <2>2, <3>2 DEF Answers, Unspent, OthersRun, iamVars
      <3>. QED  BY <3>3, <3>4
    <2>. QED  BY <2>1, <2>3, <2>4 DEF ExchangeCookie
  <1>10. ASSUME NEW op \in OpKinds, NEW v \in Verdicts, NEW p \in Tokens, Answer(t, op, v, p, FALSE),
                UNCHANGED exchangeVars
         PROVE  Awaited' /\ Stages' /\ Answers'
    <2>1. OthersRun(t) /\ ~run'[t].sets /\ slot' = slot /\ recent' = recent
      BY <1>3, <1>10, AnswerEffect DEF exchangeVars
    <2>2. Awaited' /\ Stages'
      BY <1>1, <1>5, <2>1 DEF Awaited, Stages, Unspent
    <2>3. Answers'
      BY <1>1, <1>2, <1>4, <1>6, <2>1 DEF Answers, Unspent, OthersRun, iamVars
    <2>. QED  BY <2>2, <2>3
  <1>11. /\ "refresh" \in OpKinds /\ "hydrate" \in OpKinds /\ "probe" \in OpKinds
         /\ "none" \in Verdicts /\ "ok" \in Verdicts /\ 0 \in Tokens
    BY DEF OpKinds, Verdicts
  <1>12. ASSUME NEW op \in OpKinds, StartGet(t, op)
         PROVE  Awaited' /\ Stages' /\ Answers'
    BY <1>3, <1>9, <1>10, <1>11, <1>12 DEF StartGet
  <1>13. Awaited' /\ Stages' /\ Answers'
    <2>1. CASE StartRefresh(t)
      BY <1>9, <1>10, <1>11, <2>1 DEF StartRefresh
    <2>2. CASE StartHydrate(t) \/ StartProbe(t)
      BY <1>11, <1>12, <2>2 DEF StartHydrate, StartProbe
    <2>. QED  BY <2>1, <2>2
  <1>. QED  BY <1>2, <1>8, <1>13

\* A response delivered: what it puts into the jar is unspent.
LEMMA DeliverSound ==
    ASSUME IInv, NEW t \in Tabs, Deliver(t), ~mishap'
    PROVE  ~mishap /\ Sound'
  <1>. USE DEF Sound
  <1>1. NoRun.via = NoSlot /\ ~NoRun.sets /\ NoRun.op = "idle"
    BY DEF NoRun
  <1>2. /\ UNCHANGED exchangeVars /\ Release(t) /\ run[t].via = NoSlot /\ run[t] # NoRun
        /\ SetCookie(t) \/ (jar' = jar /\ run[t].verdict = "unavailable")
    BY <1>1 DEF Deliver, RefreshOk, RefreshTerminal, RefreshTransient, HydrateOk, HydrateFails, ProbeDone, Answered
  <1>3. ~mishap /\ UNCHANGED <<issued, live, parent, revoked, slot, recent, reused>>
    BY <1>2 DEF exchangeVars, iamVars
  <1>4. \A s \in Tabs : s # t => run[s] = NoRun
    BY <1>2 DEF Serial
  <1>5. \A s \in Tabs : run'[s] = NoRun
    BY <1>2, <1>4, ReleaseEffect DEF TypeOK, PagesOK, OthersRun
  <1>6. \A i \in Slots : slot[i] = FreeSlot
    BY <1>1, <1>2, <1>3, <1>4, NoneUnderWay
  <1>7. reused \subseteq revoked /\ Stages /\ Answers /\ JarOwed /\ NoForks
    BY <1>3
  <1>8. Awaited' /\ Stages' /\ NoForks' /\ reused' \subseteq revoked'
    <2>1. FreeSlot.step = "free"
      BY DEF FreeSlot
    <2>. QED  BY <1>3, <1>6, <1>7, <2>1 DEF Awaited, Stages, NoForks
  <1>9. Answers'
    BY <1>1, <1>3, <1>5, <1>7 DEF Answers, Unspent
  <1>10. jar' = 0 \/ Unspent(jar')
    <2>1. FreeSlot.step = "free"
      BY DEF FreeSlot
    <2>2. jar = 0 \/ Unspent(jar) \/ (run[t].sets /\ run[t].verdict \in Conclusive)
      BY <1>1, <1>4, <1>6, <1>7, <2>1 DEF JarOwed
    <2>3. CASE SetCookie(t)
      BY <1>2, <1>7, <2>2, <2>3 DEF SetCookie, Answers, Conclusive
    <2>4. CASE jar' = jar /\ run[t].verdict = "unavailable"
      BY <2>2, <2>4 DEF Conclusive
    <2>. QED  BY <1>2, <2>3, <2>4
  <1>11. JarOwed'
    BY <1>3, <1>10 DEF JarOwed, Unspent
  <1>. QED  BY <1>3, <1>8, <1>9, <1>11

\* An operation dropped without a mishap had nothing to lose.
LEMMA DropSound ==
    ASSUME IInv, NEW t \in Tabs, DropAnswer(t), Release(t), UNCHANGED <<iamVars, slot, recent, reused, jar>>, ~mishap'
    PROVE  ~mishap /\ Sound'
  <1>. USE DEF Sound
  <1>1. ~mishap /\ ~run[t].sets
    BY DEF DropAnswer
  <1>2. run[t].via = NoSlot
    BY <1>1 DEF TypeOK, AwaitsOK
  <1>3. ~NoRun.sets
    BY DEF NoRun
  <1>4. OthersRun(t) /\ run'[t] = NoRun
    BY ReleaseEffect DEF TypeOK, PagesOK
  <1>5. reused \subseteq revoked /\ Awaited /\ Stages /\ Answers /\ JarOwed /\ NoForks
    BY <1>1
  <1>6. Awaited'
    <2>. SUFFICES ASSUME NEW i \in Slots, slot[i] # FreeSlot
                  PROVE  slot[i].flying /\ \E s \in Tabs : run'[s].via = i
      BY DEF Awaited
    <2>1. PICK s \in Tabs : run[s].via = i
      BY <1>5 DEF Awaited
    <2>2. s # t
      BY <1>2, <2>1
    <2>. QED  BY <1>4, <1>5, <2>1, <2>2 DEF Awaited, OthersRun
  <1>7. Stages' /\ NoForks' /\ reused' \subseteq revoked'
    BY <1>5 DEF Stages, Unspent, NoForks, iamVars
  <1>8. Answers'
    BY <1>3, <1>4, <1>5 DEF Answers, Unspent, OthersRun, iamVars
  <1>9. JarOwed'
    BY <1>1, <1>4, <1>5 DEF JarOwed, Unspent, OthersRun, iamVars
  <1>. QED  BY <1>1, <1>6, <1>7, <1>8, <1>9

\* A login adds a pair of its own and puts it into the jar.
LEMMA LoginSound ==
    ASSUME IInv, NEW t \in Tabs, Login(t), ~mishap'
    PROVE  ~mishap /\ Sound'
  <1>. USE DEF Sound
  <1>1. /\ Issue(0) /\ jar' = issued + 1 /\ ~mishap /\ UNCHANGED <<accountVars, slot, recent, reused, run>>
    BY DEF Login
  <1>2. /\ issued \in Nat /\ live \subseteq 1..issued /\ issued' = issued + 1 /\ live' = live \cup {issued + 1}
        /\ parent' = [parent EXCEPT ![issued + 1] = 0] /\ issued + 1 \in Pairs
    BY <1>1 DEF Issue, TypeOK, ExchangeTypeOK, IamOK
  <1>3. /\ \A q \in live : parent'[q] = parent[q] /\ parent[q] <= issued /\ parent[q] \in Nat
        /\ parent'[issued + 1] = 0
    BY <1>2 DEF TypeOK, ExchangeTypeOK, IamOK
  <1>4. \A i \in Slots : slot[i].token <= issued /\ slot[i].token \in Nat
    BY DEF TypeOK, ExchangeTypeOK, BffOK, Requests
  <1>5. reused \subseteq revoked /\ Awaited /\ Stages /\ Answers /\ JarOwed /\ NoForks
    BY <1>1
  <1>6. Awaited' /\ reused' \subseteq revoked'
    BY <1>1, <1>5 DEF Awaited
  <1>11. \A p \in Tokens : Unspent(p) => Unspent(p)'
    BY <1>1, <1>2 DEF Unspent
  <1>7. Stages'
    <2>. SUFFICES ASSUME NEW i \in Slots
                  PROVE  /\ slot[i].step = "free" => slot[i] = FreeSlot
                         /\ slot[i].step \in {"lookup", "delete"} => slot[i].token \in live' \cup revoked
                         /\ slot[i].step = "revoke" => slot[i].token \in revoked
                         /\ slot[i].step \in {"delete", "check", "create"} => \A q \in live' : parent'[q] # slot[i].token
                         /\ slot[i].step \in {"check", "create"} => slot[i].token \in Pairs \ live'
                         /\ slot[i].step = "answer" => slot[i].verdict # "none"
                         /\ slot[i].step = "answer" /\ slot[i].verdict = "ok" =>
                               Unspent(slot[i].next)' /\ slot[i].token \notin live' /\ slot[i].token # slot[i].next
      BY <1>1 DEF Stages, Unspent
    <2>1. slot[i].token # issued + 1 /\ slot[i].next \in Tokens
      BY <1>2, <1>4 DEF TypeOK, ExchangeTypeOK, BffOK, Requests
    <2>2. slot[i].step \in {"lookup", "delete", "check", "create"} => slot[i].token # 0
      <3>1. \A p \in live \cup revoked : p # 0
        BY DEF TypeOK, ExchangeTypeOK, IamOK
      <3>. QED  BY <1>5, <3>1 DEF Stages
    <2>3. slot[i].step \in {"delete", "check", "create"} => \A q \in live' : parent'[q] # slot[i].token
      BY <1>2, <1>3, <1>5, <2>1, <2>2 DEF Stages
    <2>4. Unspent(slot[i].next) => Unspent(slot[i].next)'
      BY <1>1, <1>11, <2>1 DEF Unspent
    <2>. QED  BY <1>2, <1>5, <2>1, <2>3, <2>4 DEF Stages
  <1>8. Answers'
    <2>1. \A t1 \in Tabs : run[t1].got \in Tokens
      BY DEF TypeOK, PagesOK, Runs
    <2>2. \A t1 \in Tabs : Unspent(run[t1].got) => Unspent(run[t1].got)'
      BY <1>1, <1>11, <2>1 DEF Unspent
    <2>. QED  BY <1>1, <1>2, <1>5, <2>2 DEF Answers
  <1>9. JarOwed'
    <2>1. recent[issued + 1] = 0
      BY <1>2, <1>5 DEF Answers
    <2>. QED  BY <1>1, <1>2, <2>1 DEF JarOwed, Unspent
  <1>10. NoForks'
    BY <1>2, <1>3, <1>5 DEF NoForks
  <1>. QED  BY <1>1, <1>6, <1>7, <1>8, <1>9, <1>10

LEMMA SoundStep ==
    ASSUME IInv, [Next]_vars, ~mishap'
    PROVE  ~mishap /\ Sound'
  <1>1. ASSUME UNCHANGED <<exchangeVars, run>>, jar' = jar \/ jar' = 0
        PROVE  ~mishap /\ Sound'
    BY <1>1, QuietSound DEF exchangeVars, iamVars
  <1>2. ASSUME NEW t \in Tabs, TabStep(t)
        PROVE  ~mishap /\ Sound'
    <2>1. CASE StartRefresh(t) \/ StartHydrate(t) \/ StartProbe(t)
      BY <2>1, StartSound
    <2>2. CASE Deliver(t)
      BY <2>2, DeliverSound
    <2>3. CASE RefreshAborted(t) \/ HydrateAborted(t) \/ \E kind \in {"app", "auth", "site"} : PageLoad(t, kind)
      <3>1. DropAnswer(t) /\ Release(t) /\ UNCHANGED <<iamVars, slot, recent, reused, jar>>
        BY <2>3 DEF RefreshAborted, HydrateAborted, Aborted, PageLoad
      <3>. QED  BY <3>1, DropSound
    <2>4. CASE Login(t)
      BY <2>4, LoginSound
    <2>5. CASE Logout(t)
      <3>1. UNCHANGED <<issued, live, parent, revoked, slot, recent, reused, run, mishap>> /\ (jar' = jar \/ jar' = 0)
        BY <2>5 DEF Logout, iamVars
      <3>. QED  BY <3>1, QuietSound
    <2>6. CASE Watchdog(t) \/ Unauthorized(t) \/ RefreshSession(t) \/ Land(t) \/ Hear(t) \/ ClearCookies(t)
      <3>1. UNCHANGED <<exchangeVars, run>> /\ (jar' = jar \/ jar' = 0)
        BY <2>6 DEF Watchdog, Unauthorized, RefreshSession, Land, Hear, ClearCookies, tabVars
      <3>. QED  BY <1>1, <3>1
    <2>. QED  BY <1>2, <2>1, <2>2, <2>3, <2>4, <2>5, <2>6 DEF TabStep
  <1>3. CASE BecomesDue \/ Expires \/ UNCHANGED vars
    BY <1>1, <1>3 DEF BecomesDue, Expires, vars, browserVars, tabVars
  <1>. QED  BY <1>2, <1>3, ServerSound, SettleSound DEF Next

-----------------------------------------------------------------------------
(* While the account is in order and the user has not logged out.          *)

\* What SignedIn asks of one operation.
Accepted(r) == r.verdict # "rejected" /\ (r.op = "refresh" /\ r.via = NoSlot => r.verdict # "none")

LEMMA SignedInParts ==
    SignedIn <=> /\ ~ended /\ jar # 0 /\ dels = {}
                 /\ \A i \in Slots : slot[i].verdict # "rejected"
                 /\ \A t \in Tabs : Accepted(run[t])
  BY DEF SignedIn, Accepted

LEMMA NoRunAccepted == Accepted(NoRun)
  BY DEF Accepted, NoRun

\* No step forgets that the account was closed or its sessions revoked.
LEMMA ServerAccount ==
    ASSUME ServerStep
    PROVE  (barred => barred') /\ revoked \subseteq revoked'
  <1>1. CASE AccountStep
    <2>1. revoked \subseteq revoked'
      BY <1>1 DEF AccountStep, UpdateStatus, DeleteAccount, ChangePassword, Purge, DeleteSession
    <2>2. barred => barred'
      BY <1>1, Zenon DEF AccountStep, UpdateStatus, DeleteAccount, ChangePassword, Purge, DeleteSession
    <2>. QED  BY <2>1, <2>2
  <1>2. CASE UNCHANGED accountVars
    BY <1>2
  <1>3. ASSUME NEW i \in Slots, GatewayStep(i) \/ SlowDown(i)
        PROVE  UNCHANGED accountVars
    BY <1>3 DEF GatewayStep, IamStep, GatewayRefuses, Lookup, RevokeAll, DeleteOld, CheckAccount, CreateNew, SlowDown,
           iamVars
  <1>. QED  BY <1>1, <1>2, <1>3 DEF ServerStep

LEMMA SignedInServer ==
    ASSUME IInv, SignedIn, ~mishap, ServerStep, ~mishap', ~barred', revoked' = {}
    PROVE  SignedIn'
  <1>. SUFFICES \A i \in Slots : slot'[i].verdict # "rejected"
    BY DEF SignedIn, ServerStep, browserVars, tabVars, ghostVars
  <1>1. slot \in [Slots -> Requests] /\ \A i \in Slots : slot[i].verdict # "rejected"
    BY DEF SignedIn, TypeOK, ExchangeTypeOK, BffOK
  <1>2. account = "open" /\ revoked = {}
    <2>1. ~barred /\ revoked = {}
      BY ServerAccount
    <2>. QED  BY <2>1
  <1>3. ASSUME NEW i \in Slots, OthersKeep(i), slot'[i].verdict # "rejected"
        PROVE  \A j \in Slots : slot'[j].verdict # "rejected"
    BY <1>1, <1>3 DEF OthersKeep
  <1>4. ASSUME NEW i \in Slots, NEW v \in Verdicts \ {"rejected"}, NEW p \in Tokens, Reply(i, v, p)
        PROVE  \A j \in Slots : slot'[j].verdict # "rejected"
    <2>1. OthersKeep(i) /\ (slot'[i].verdict = v \/ slot'[i] = FreeSlot)
      BY <1>1, <1>4, ReplyEffect
    <2>2. FreeSlot.verdict = "none"
      BY DEF FreeSlot
    <2>. QED  BY <1>3, <1>4, <2>1, <2>2
  <1>5. ASSUME NEW i \in Slots, NEW s \in Steps, Proceed(i, s)
        PROVE  \A j \in Slots : slot'[j].verdict # "rejected"
    BY <1>1, <1>3, <1>5, ProceedEffect
  <1>6. ASSUME NEW i \in Slots, GatewayStep(i)
        PROVE  \A j \in Slots : slot'[j].verdict # "rejected"
    <2>1. CASE GatewayRefuses(i)
      BY <1>4, <2>1 DEF GatewayRefuses, Verdicts
    <2>2. CASE Lookup(i) \/ DeleteOld(i)
      BY <1>5, <2>2 DEF Lookup, DeleteOld, Steps
    <2>3. CASE RevokeAll(i)
      BY <1>2, <2>3 DEF RevokeAll, Sound, Stages
    <2>5. CASE CheckAccount(i)
      <3>1. Proceed(i, "create")
        BY <1>2, <2>5 DEF CheckAccount, FailHalfway
      <3>. QED  BY <1>5, <3>1 DEF Steps
    <2>4. CASE CreateNew(i)
      <3>1. Issue(slot[i].token) /\ Reply(i, "ok", issued + 1)
        BY <2>4 DEF CreateNew, FailHalfway
      <3>2. issued + 1 \in Tokens
        BY <3>1 DEF Issue, TypeOK, ExchangeTypeOK, IamOK
      <3>. QED  BY <1>4, <3>1, <3>2 DEF Verdicts
    <2>. QED  BY <1>6, <2>1, <2>2, <2>3, <2>4, <2>5 DEF GatewayStep, IamStep
  <1>7. ASSUME NEW i \in Slots, SlowDown(i)
        PROVE  \A j \in Slots : slot'[j].verdict # "rejected"
    BY <1>1, <1>3, <1>7, SlowDownEffect
  <1>8. CASE AccountStep
    BY <1>1, <1>8 DEF AccountStep
  <1>. QED  BY <1>6, <1>7, <1>8 DEF ServerStep

LEMMA SignedInSettle ==
    ASSUME IInv, SignedIn, ~mishap, NEW i \in Slots, ExchangeSettles(i), ~mishap'
    PROVE  SignedIn'
  <1>1. /\ BffReceive(i) /\ Inform(i, slot[i].verdict, slot[i].next) /\ jar' = jar /\ dels' = dels /\ ended' = ended
        /\ slot[i].step = "answer"
    BY DEF ExchangeSettles, BffReceive, BffAbort, ghostVars
  <1>2. /\ slot[i].verdict \in Verdicts /\ slot[i].next \in Tokens /\ slot \in [Slots -> Requests]
    BY DEF TypeOK, ExchangeTypeOK, BffOK, Requests
  <1>3. slot[i].verdict # "rejected" /\ slot[i].verdict # "none"
    BY <1>1 DEF SignedIn, Sound, Stages
  <1>4. /\ \A t \in Tabs : run[t].via # i => run'[t] = run[t]
        /\ \A t \in Tabs : run[t].via = i => run'[t].verdict = slot[i].verdict
    BY <1>1, <1>2, InformEffect DEF TypeOK, PagesOK
  <1>5. \A t \in Tabs : Accepted(run'[t])
    <2>. SUFFICES ASSUME NEW t \in Tabs PROVE Accepted(run'[t])
      OBVIOUS
    <2>1. CASE run[t].via = i
      BY <1>3, <1>4, <2>1 DEF Accepted
    <2>2. CASE run[t].via # i
      BY <1>4, <2>2, SignedInParts
    <2>. QED  BY <2>1, <2>2
  <1>6. \A j \in Slots : slot'[j].verdict # "rejected"
    <2>1. FreeSlot.verdict = "none"
      BY DEF FreeSlot
    <2>. QED  BY <1>1, <1>2, <2>1, ReceiveEffect DEF OthersKeep, SignedIn
  <1>. QED  BY <1>1, <1>5, <1>6 DEF SignedIn, Accepted

\* A step of a tab that releases its operation.
LEMMA SignedInRelease ==
    ASSUME IInv, SignedIn, NEW t \in Tabs, Release(t), slot' = slot, jar' # 0, ended' = ended, dels' \subseteq dels
    PROVE  SignedIn'
  <1>1. OthersRun(t) /\ run'[t] = NoRun
    BY ReleaseEffect DEF TypeOK, PagesOK
  <1>2. \A s \in Tabs : Accepted(run'[s])
    BY <1>1, NoRunAccepted, SignedInParts DEF OthersRun
  <1>. QED  BY <1>2 DEF SignedIn, Accepted

LEMMA SignedInStart ==
    ASSUME IInv, SignedIn, ~mishap, NEW t \in Tabs, StartRefresh(t) \/ StartHydrate(t) \/ StartProbe(t)
    PROVE  SignedIn'
  <1>1. jar' = jar /\ ended' = ended /\ dels' = dels
    BY DEF StartRefresh, StartHydrate, StartProbe, StartGet, ghostVars
  <1>2. /\ run \in [Tabs -> Runs] /\ slot \in [Slots -> Requests] /\ jar \in Tokens /\ jar # 0
        /\ recent \in [Pairs -> Tokens] /\ \A i \in Slots : slot[i].verdict # "rejected"
    BY DEF TypeOK, ExchangeTypeOK, BffOK, IamOK, JarOK, PagesOK, SignedIn
  <1>3. ASSUME OthersRun(t), Accepted(run'[t]), \A i \in Slots : slot'[i].verdict # "rejected"
        PROVE  SignedIn'
    <2>1. \A s \in Tabs : Accepted(run'[s])
      BY <1>3, SignedInParts DEF OthersRun
    <2>. QED  BY <1>1, <1>3, <2>1 DEF SignedIn, Accepted
  <1>4. ASSUME NEW op \in OpKinds, NEW v \in Verdicts, NEW p \in Tokens, NEW b \in BOOLEAN, Answer(t, op, v, p, b),
               slot' = slot, v # "rejected", op = "refresh" => v # "none"
        PROVE  SignedIn'
    <2>1. OthersRun(t) /\ run'[t].op = op /\ run'[t].verdict = v
      BY <1>2, <1>4, AnswerEffect
    <2>. QED  BY <1>2, <1>3, <1>4, <2>1 DEF Accepted
  <1>5. ASSUME NEW op \in OpKinds, NEW i \in Slots, Await(t, op, i), \A j \in Slots : slot'[j].verdict # "rejected"
        PROVE  SignedIn'
    <2>1. OthersRun(t) /\ run'[t].via = i /\ run'[t].verdict = "none"
      BY <1>2, <1>5, AwaitEffect
    <2>. QED  BY <1>3, <1>5, <2>1 DEF Accepted
  <1>6. ASSUME NEW op \in OpKinds, ExchangeCookie(t, op)
        PROVE  SignedIn'
    <2>1. "ok" \in Verdicts /\ "unavailable" \in Verdicts /\ 0 \in Tokens
      BY DEF Verdicts
    <2>2. CASE Answer(t, op, "ok", recent[jar], TRUE) /\ UNCHANGED exchangeVars
      <3>1. recent[jar] \in Tokens
        BY <1>2
      <3>. QED  BY <1>4, <2>1, <2>2, <3>1 DEF exchangeVars
    <2>3. ASSUME NEW i \in InFlight(jar), Await(t, op, i), Join(jar)
          PROVE  SignedIn'
      BY <1>2, <1>5, <2>3 DEF InFlight, Join
    <2>4. ASSUME NEW i \in Slots, Launch(i, jar), Await(t, op, i)
          PROVE  SignedIn'
      <3>1. OthersKeep(i) /\ slot'[i].verdict = "none"
        BY <1>2, <2>4, LaunchEffect
      <3>. QED  BY <1>2, <1>5, <2>4, <3>1 DEF OthersKeep
    <2>5. CASE Answer(t, op, "unavailable", 0, FALSE) /\ Join(jar)
      <3>1. slot' = slot
        BY <2>5 DEF Join
      <3>. QED  BY <1>4, <2>1, <2>5, <3>1
    <2>. QED  BY <1>6, <2>2, <2>3, <2>4, <2>5 DEF ExchangeCookie
  <1>7. ASSUME NEW op \in {"hydrate", "probe"}, StartGet(t, op)
        PROVE  SignedIn'
    <2>1. op \in OpKinds /\ "ok" \in Verdicts /\ "none" \in Verdicts /\ 0 \in Tokens
      BY DEF OpKinds, Verdicts
    <2>2. CASE Answer(t, op, "ok", jar, FALSE) /\ UNCHANGED exchangeVars
      <3>1. slot' = slot
        BY <2>2 DEF exchangeVars
      <3>. QED  BY <1>2, <1>4, <2>1, <2>2, <3>1
    <2>3. CASE Answer(t, op, "none", 0, FALSE) /\ UNCHANGED exchangeVars
      <3>1. slot' = slot
        BY <2>3 DEF exchangeVars
      <3>. QED  BY <1>4, <2>1, <2>3, <3>1
    <2>. QED  BY <1>6, <1>7, <2>1, <2>2, <2>3 DEF StartGet
  <1>8. CASE StartRefresh(t)
    BY <1>2, <1>6, <1>8 DEF StartRefresh, OpKinds
  <1>9. CASE StartHydrate(t) \/ StartProbe(t)
    BY <1>7, <1>9 DEF StartHydrate, StartProbe
  <1>. QED  BY <1>8, <1>9

LEMMA SignedInDeliver ==
    ASSUME IInv, SignedIn, ~mishap, NEW t \in Tabs, Deliver(t)
    PROVE  SignedIn'
  <1>1. run[t].via = NoSlot /\ Accepted(run[t]) /\ jar # 0
    BY SignedInParts
       DEF Deliver, RefreshOk, RefreshTerminal, RefreshTransient, HydrateOk, HydrateFails, ProbeDone, Answered
  <1>2. ~RefreshTerminal(t)
    BY <1>1 DEF RefreshTerminal, Answered, Accepted
  <1>3. /\ Release(t) /\ UNCHANGED exchangeVars /\ dels' = dels /\ ended' = ended
        /\ SetCookie(t) \/ jar' = jar
    BY <1>2 DEF Deliver, RefreshOk, RefreshTransient, HydrateOk, HydrateFails, ProbeDone, ghostVars
  <1>4. jar' # 0
    <2>1. run[t].sets /\ run[t].verdict = "ok" => run[t].got # 0
      BY <1>1 DEF Sound, Answers, Unspent, TypeOK, ExchangeTypeOK, IamOK
    <2>. QED  BY <1>1, <1>3, <2>1 DEF SetCookie, Accepted
  <1>. QED  BY <1>3, <1>4, SignedInRelease DEF exchangeVars

LEMMA AccountMemory ==
    ASSUME [Next]_vars
    PROVE  UNCHANGED accountVars \/ ServerStep
  <1>1. ASSUME NEW t \in Tabs, TabStep(t)
        PROVE  UNCHANGED accountVars
    <2>1. CASE StartRefresh(t) \/ StartHydrate(t) \/ StartProbe(t)
      <3>1. ASSUME NEW op, ExchangeCookie(t, op)
            PROVE  UNCHANGED iamVars
        <4>1. \A i \in Slots : Launch(i, jar) => UNCHANGED iamVars
          BY DEF Launch
        <4>2. Join(jar) => UNCHANGED iamVars
          BY DEF Join
        <4>. QED  BY <3>1, <4>1, <4>2 DEF ExchangeCookie, exchangeVars
      <3>2. ASSUME NEW op, StartGet(t, op)
            PROVE  UNCHANGED iamVars
        BY <3>1, <3>2 DEF StartGet, exchangeVars
      <3>3. UNCHANGED iamVars
        BY <2>1, <3>1, <3>2 DEF StartRefresh, StartHydrate, StartProbe, exchangeVars
      <3>. QED  BY <3>3 DEF iamVars
    <2>2. CASE Deliver(t)
      BY <2>2 DEF Deliver, RefreshOk, RefreshTerminal, RefreshTransient, HydrateOk, HydrateFails, ProbeDone,
                  exchangeVars, iamVars
    <2>3. CASE Login(t) \/ Logout(t)
      BY <2>3 DEF Login, Logout, iamVars
    <2>. QED  BY <1>1, <2>1, <2>2, <2>3
         DEF TabStep, Watchdog, Unauthorized, RefreshSession, RefreshAborted, HydrateAborted, Aborted, Land, Hear,
             ClearCookies, PageLoad, exchangeVars, iamVars
  <1>2. ASSUME NEW i \in Slots, ExchangeSettles(i)
        PROVE  UNCHANGED accountVars
    BY <1>2 DEF ExchangeSettles, BffReceive, BffAbort, iamVars
  <1>3. CASE BecomesDue \/ Expires \/ UNCHANGED vars
    BY <1>3 DEF BecomesDue, Expires, vars, exchangeVars, iamVars
  <1>. QED  BY <1>1, <1>2, <1>3 DEF Next

LEMMA ClosedSeen ==
    ASSUME account # "open" => barred, [Next]_vars
    PROVE  account' # "open" => barred'
  <1>1. CASE UNCHANGED accountVars
    BY <1>1
  <1>2. CASE AccountStep
    BY <1>2 DEF AccountStep, UpdateStatus, DeleteAccount, ChangePassword, Purge, DeleteSession
  <1>3. ASSUME NEW i \in Slots, GatewayStep(i) \/ SlowDown(i)
        PROVE  UNCHANGED accountVars
    BY <1>3 DEF GatewayStep, IamStep, GatewayRefuses, Lookup, RevokeAll, DeleteOld, CheckAccount, CreateNew, SlowDown,
           iamVars
  <1>. QED  BY <1>1, <1>2, <1>3, AccountMemory DEF ServerStep

LEMMA SignedInStep ==
    ASSUME IInv, [Next]_vars, ~mishap', ~barred', revoked' = {}, ~signedOut'
    PROVE  SignedIn'
  <1>0. ~mishap
    BY SoundStep
  <1>1. SUFFICES ASSUME ~barred, revoked = {}, ~signedOut, SignedIn
                 PROVE  SignedIn'
    <2>1. ~barred /\ revoked = {}
      BY AccountMemory, ServerAccount
    <2>2. ~signedOut
      BY DEF Next, ServerStep, BecomesDue, Expires, ExchangeSettles, TabStep, Watchdog, Unauthorized, RefreshSession,
             StartRefresh, StartHydrate, StartProbe, StartGet, Deliver, RefreshOk, RefreshTerminal, RefreshTransient,
             HydrateOk, HydrateFails, ProbeDone, RefreshAborted, HydrateAborted, Aborted, Login, Land, Logout, Hear,
             ClearCookies, PageLoad, vars, browserVars, ghostVars
    <2>. QED  BY <1>0, <2>1, <2>2
  <1>2. ASSUME UNCHANGED <<slot, run, jar, ended, dels>>
        PROVE  SignedIn'
    BY <1>1, <1>2 DEF SignedIn
  <1>3. ASSUME NEW t \in Tabs, TabStep(t)
        PROVE  SignedIn'
    <2>1. CASE StartRefresh(t) \/ StartHydrate(t) \/ StartProbe(t)
      BY <1>0, <1>1, <2>1, SignedInStart
    <2>2. CASE Deliver(t)
      BY <1>0, <1>1, <2>2, SignedInDeliver
    <2>3. CASE RefreshAborted(t) \/ HydrateAborted(t) \/ \E kind \in {"app", "auth", "site"} : PageLoad(t, kind)
      <3>1. Release(t) /\ slot' = slot /\ jar' = jar /\ ended' = ended /\ dels' \subseteq dels
        BY <2>3 DEF RefreshAborted, HydrateAborted, Aborted, PageLoad, ghostVars
      <3>. QED  BY <1>1, <3>1, SignedInRelease DEF SignedIn
    <2>4. CASE Login(t)
      <3>1. jar' = issued + 1 /\ UNCHANGED <<slot, run, ended, dels>>
        BY <2>4 DEF Login, ghostVars
      <3>2. issued \in Nat
        BY DEF TypeOK, ExchangeTypeOK, IamOK
      <3>. QED  BY <1>1, <3>1, <3>2 DEF SignedIn
    <2>5. CASE Logout(t) \/ ClearCookies(t)
      BY <1>1, <2>5 DEF Logout, ClearCookies, SignedIn
    <2>6. CASE Watchdog(t) \/ Unauthorized(t) \/ RefreshSession(t) \/ Land(t) \/ Hear(t)
      BY <1>2, <2>6 DEF Watchdog, Unauthorized, RefreshSession, Land, Hear, exchangeVars, ghostVars
    <2>. QED  BY <1>3, <2>1, <2>2, <2>3, <2>4, <2>5, <2>6 DEF TabStep
  <1>4. CASE BecomesDue \/ Expires \/ UNCHANGED vars
    BY <1>2, <1>4 DEF BecomesDue, Expires, vars, exchangeVars, browserVars, tabVars, ghostVars
  <1>. QED  BY <1>0, <1>1, <1>3, <1>4, SignedInServer, SignedInSettle DEF Next

-----------------------------------------------------------------------------
(* The theorems.                                                           *)

LEMMA InitIInv == Init => IInv
  <1>. SUFFICES ASSUME Init PROVE IInv
    OBVIOUS
  <1>1. /\ \A i \in Slots : slot[i] = FreeSlot
        /\ \A t \in Tabs : run[t] = NoRun
        /\ \A p \in Pairs : recent[p] = 0 /\ parent[p] = 0
        /\ live = {1} /\ jar = 1 /\ dels = {} /\ reused = {} /\ ~ended /\ 1 \in Pairs
        /\ account = "open" /\ revoked = {}
    BY DEF Init, ExchangeInit
  <1>2. ~NoRun.sets /\ FreeSlot.step = "free" /\ FreeSlot.verdict = "none"
    BY DEF NoRun, FreeSlot
  <1>3. Serial
    BY <1>1 DEF Serial
  <1>4. Awaited /\ Stages /\ Answers
    BY <1>1, <1>2 DEF Awaited, Stages, Answers
  <1>5. JarOwed /\ NoForks
    BY <1>1 DEF JarOwed, NoForks, Unspent
  <1>6. SignedIn
    BY <1>1, <1>2, NoRunAccepted, SignedInParts
  <1>. QED  BY <1>1, <1>3, <1>4, <1>5, <1>6, InitType DEF Sound

LEMMA IInvStep == IInv /\ [Next]_vars => IInv'
  <1>. SUFFICES ASSUME IInv, [Next]_vars PROVE IInv'
    OBVIOUS
  <1>1. TypeOK'
    BY TypeStep
  <1>. QED  BY <1>1, SerialStep, ClosedSeen, SoundStep, SignedInStep

LEMMA Inductive == Spec => []IInv
  BY InitIInv, IInvStep, PTL DEF Spec

\* Reuse detection takes for stolen only tokens whose rows an operation on the
\* account deleted, until an exchange is abandoned or fails half-way: the lock
\* and the single flight let no tab replay a token.
THEOREM ReuseIsExplained == Spec => []ReuseExplained
  <1>1. IInv => ReuseExplained
    BY DEF Sound, ReuseExplained
  <1>. QED  BY <1>1, Inductive, PTL

\* A tab ends the session only after a logout, a closing of the account, a
\* deletion of the user's sessions by an operation on it, or a mishap.
THEOREM LogoutIsExplained == Spec => []NoLogoutForNothing
  <1>1. IInv => NoLogoutForNothing
    BY DEF SignedIn, NoLogoutForNothing
  <1>. QED  BY <1>1, Inductive, PTL

\* Of one token and its rotations at most one is live, mishaps aside.
THEOREM ForksAreExplained == Spec => []ForksExplained
  <1>1. IInv => ForksExplained
    BY DEF Sound, NoForks, ForksExplained
  <1>. QED  BY <1>1, Inductive, PTL

\* The token in the jar is live, was revoked by an operation on the account, or
\* is about to be replaced, mishaps aside.
THEOREM CookieStaysUsable == Spec => []CookieUsable
  <1>1. IInv => CookieUsable
    <2>. SUFFICES ASSUME IInv, jar # 0, jar \notin live, jar \notin revoked, ~mishap
                  PROVE  \E t \in Tabs : run[t].sets
      BY DEF CookieUsable
    <2>1. CASE \E i \in Slots : slot[i].step \in {"check", "create", "answer"}
      <3>1. PICK i \in Slots : slot[i].step \in {"check", "create", "answer"}
        BY <2>1
      <3>2. PICK t \in Tabs : run[t].via = i
        BY <3>1, Alone
      <3>. QED  BY <3>2 DEF TypeOK, AwaitsOK
    <2>2. CASE \E t \in Tabs : run[t].sets
      BY <2>2
    <2>. QED  BY <2>1, <2>2 DEF Sound, JarOwed, Unspent
  <1>. QED  BY <1>1, Inductive, PTL
=============================================================================
