------------------------- MODULE NotificationFeedProofs -------------------------
(***************************************************************************)
(* Proofs about the socket of the notifications, for any number of sockets, *)
(* attempts and mounts, and for the feed that runs on it.                   *)
(*                                                                          *)
(* Until the reconnect effect has closed a socket, every socket of the      *)
(* present mount is the one in wsRef, those of former mounts are on their   *)
(* way out, and a timer is armed only while wsRef is null.                  *)
(***************************************************************************)
EXTENDS NotificationFeed, TLAPS

Owned == \A s \in Sockets : sock[s] # "free" /\ s \notin former => s = wsRef
RefLive == wsRef # NoSocket => wsRef \notin former /\ Live(wsRef)
FormerEnding == \A s \in former : ~Live(s)
Forgotten == \A s \in former : sock[s] # "free"
TimerAlone == (timer => wsRef = NoSocket) /\ loose = 0 /\ stray = 0
RefMounted == ~mounted => wsRef = NoSocket /\ ~timer
Waiting == mounted /\ wsRef = NoSocket => timer \/ CanResume

Single ==
  /\ Owned /\ RefLive /\ FormerEnding /\ Forgotten
  /\ TimerAlone /\ RefMounted /\ Waiting
SocketInv == SocketTypeOK /\ (replaced \/ Single)

(* The invariant gives the two properties of the run. *)
LEMMA SocketInvImplies ==
  ASSUME SocketInv
  PROVE  OneSocketUnlessReplaced /\ NeverStranded
<1>1. CASE replaced
  BY <1>1 DEF OneSocketUnlessReplaced, NeverStranded
<1>2. CASE ~replaced
  <2>1. Single
    BY <1>2 DEF SocketInv
  <2>2. \A s \in Sockets : Live(s) => s = wsRef
    BY <2>1 DEF Single, Owned, FormerEnding, Live
  <2>3. OneSocket
    BY <2>1, <2>2, SocketAssumption DEF Single, TimerAlone, OneSocket
  <2>4. NeverStranded
    BY <2>1, SocketAssumption DEF Single, RefLive, Waiting, NeverStranded, Live, SocketInv, SocketTypeOK
  <2> QED BY <2>3, <2>4 DEF OneSocketUnlessReplaced
<1> QED BY <1>1, <1>2

LEMMA InitSingle == SocketInit => SocketInv
<1> SUFFICES ASSUME SocketInit PROVE SocketInv
  OBVIOUS
<1>1. PICK s \in Sockets : /\ sock = [t \in Sockets |-> IF t = s THEN "connecting" ELSE "free"]
                           /\ wsRef = s
  BY DEF SocketInit
<1>2. /\ sock \in [Sockets -> SocketStates]
      /\ \A t \in Sockets : sock[t] # "free" => t = wsRef
      /\ wsRef \in Sockets /\ sock[wsRef] = "connecting"
  BY <1>1 DEF SocketStates
<1>a. attempt \in 0 .. MaxAttempts /\ mounts \in 0 .. MaxMounts /\ loose \in Nat /\ stray \in Nat
  BY SocketAssumption DEF SocketInit
<1>3. SocketTypeOK
  BY <1>2, <1>a DEF SocketInit, SocketTypeOK, Statuses
<1>4. Single
  BY <1>2, SocketAssumption DEF SocketInit, Single, Owned, RefLive, FormerEnding, Forgotten, TimerAlone, RefMounted, Waiting, Live
<1> QED BY <1>3, <1>4 DEF SocketInv

(* What a dial and a close do to the sockets. *)
LEMMA DialEffect ==
  ASSUME NEW before \in [Sockets -> SocketStates], NEW s \in Sockets, Dial(s, before)
  PROVE  /\ sock' \in [Sockets -> SocketStates]
         /\ before[s] = "free" /\ sock'[s] = "connecting"
         /\ \A t \in Sockets : t # s => sock'[t] = before[t]
         /\ wsRef' = s /\ status' = "connecting"
BY DEF Dial, SocketStates

LEMMA ClosedEffect ==
  ASSUME SocketTypeOK
  PROVE  /\ Closed(sock) \in [Sockets -> SocketStates]
         /\ \A t \in Sockets : t # wsRef => Closed(sock)[t] = sock[t]
         /\ wsRef # NoSocket => Closed(sock)[wsRef] \in {"closing", "failing"}
<1>1. CASE wsRef = NoSocket
  BY <1>1, SocketAssumption DEF Closed, SocketTypeOK
<1>2. CASE wsRef # NoSocket
  <2>1. wsRef \in Sockets
    BY <1>2 DEF SocketTypeOK
  <2>2. Closed(sock) = [sock EXCEPT ![wsRef] = IF sock[wsRef] = "open" THEN "closing" ELSE "failing"]
    BY <1>2 DEF Closed
  <2> QED BY <2>1, <2>2 DEF SocketTypeOK, SocketStates
<1> QED BY <1>1, <1>2

-----------------------------------------------------------------------------
(* Each action keeps the invariant. *)

LEMMA MountKeeps ==
  ASSUME SocketInv, Mount PROVE SocketInv'
<1>1. CASE token
  <2>1. PICK s \in Sockets, t \in Sockets : Dial(t, [sock EXCEPT ![s] = "failing"])
    BY <1>1 DEF Mount
  <2>2. [sock EXCEPT ![s] = "failing"] \in [Sockets -> SocketStates]
    BY DEF SocketInv, SocketTypeOK, SocketStates
  <2>3. sock' \in [Sockets -> SocketStates] /\ wsRef' = t /\ status' = "connecting"
    BY <2>1, <2>2, DialEffect
  <2>4. attempt' \in 0 .. MaxAttempts /\ mounts' \in 0 .. MaxMounts /\ loose' \in Nat /\ stray' \in Nat
    BY SocketAssumption DEF Mount, SocketInv, SocketTypeOK
  <2>5. SocketTypeOK' /\ replaced'
    BY <1>1, <2>3, <2>4 DEF Mount, SocketInv, SocketTypeOK, Statuses
  <2> QED BY <2>5 DEF SocketInv
<1>2. CASE ~token
  <2>1. PICK s \in Sockets : Dial(s, sock)
    BY <1>2 DEF Mount
  <2>2. /\ sock' \in [Sockets -> SocketStates]
        /\ sock[s] = "free" /\ sock'[s] = "connecting"
        /\ \A t \in Sockets : t # s => sock'[t] = sock[t]
        /\ wsRef' = s /\ status' = "connecting"
    BY <2>1, DialEffect DEF SocketInv, SocketTypeOK
  <2>a. attempt' \in 0 .. MaxAttempts /\ mounts' \in 0 .. MaxMounts /\ loose' \in Nat /\ stray' \in Nat
    BY SocketAssumption DEF Mount, SocketInv, SocketTypeOK
  <2>3. SocketTypeOK'
    BY <1>2, <2>2, <2>a DEF Mount, SocketInv, SocketTypeOK, Statuses
  <2>4. ASSUME ~replaced PROVE Single'
    <3>1. s \notin former
      BY <2>2, <2>4 DEF SocketInv, SocketTypeOK, Single, Forgotten
    <3> QED BY <1>2, <2>2, <2>4, <3>1, SocketAssumption
            DEF Mount, SocketInv, SocketTypeOK, Single, Owned, RefLive, FormerEnding, Forgotten, TimerAlone, RefMounted, Waiting, Live
  <2> QED BY <1>2, <2>3, <2>4 DEF SocketInv, Mount
<1> QED BY <1>1, <1>2

LEMMA UnmountKeeps ==
  ASSUME SocketInv, Unmount PROVE SocketInv'
<1>1. /\ sock' \in [Sockets -> SocketStates]
      /\ \A t \in Sockets : t # wsRef => sock'[t] = sock[t]
      /\ wsRef # NoSocket => sock'[wsRef] \in {"closing", "failing"}
  BY ClosedEffect DEF Unmount, SocketInv
<1>a. attempt' \in 0 .. MaxAttempts /\ mounts' \in 0 .. MaxMounts /\ loose' \in Nat /\ stray' \in Nat
  BY DEF Unmount, SocketInv, SocketTypeOK
<1>2. SocketTypeOK'
  BY <1>1, <1>a DEF Unmount, SocketInv, SocketTypeOK
<1>3. ASSUME ~replaced PROVE Single'
  BY <1>1, <1>3, SocketAssumption
     DEF Unmount, SocketInv, SocketTypeOK, Single, Owned, RefLive, FormerEnding, Forgotten, TimerAlone, RefMounted, Waiting, Live
<1> QED BY <1>2, <1>3 DEF SocketInv, Unmount

LEMMA ResumeKeeps ==
  ASSUME SocketInv, Resume PROVE SocketInv'
<1>1. PICK s \in Sockets : Dial(s, Closed(sock))
  BY DEF Resume
<1>2. /\ Closed(sock) \in [Sockets -> SocketStates]
      /\ \A t \in Sockets : t # wsRef => Closed(sock)[t] = sock[t]
  BY ClosedEffect DEF SocketInv
<1>3. /\ sock' \in [Sockets -> SocketStates]
      /\ Closed(sock)[s] = "free" /\ sock'[s] = "connecting"
      /\ \A t \in Sockets : t # s => sock'[t] = Closed(sock)[t]
      /\ wsRef' = s /\ status' = "connecting"
  BY <1>1, <1>2, DialEffect
<1>a. attempt' \in 0 .. MaxAttempts /\ mounts' \in 0 .. MaxMounts /\ loose' \in Nat /\ stray' \in Nat
  BY SocketAssumption DEF Resume, SocketInv, SocketTypeOK
<1>4. SocketTypeOK'
  BY <1>3, <1>a DEF Resume, SocketInv, SocketTypeOK, Statuses
<1>5. ASSUME ~replaced' PROVE Single'
  <2>1. ~replaced /\ wsRef = NoSocket
    BY <1>5 DEF Resume, SocketInv, SocketTypeOK
  <2>2. /\ sock[s] = "free"
        /\ \A t \in Sockets : t # s => sock'[t] = sock[t]
    BY <1>2, <1>3, <2>1, SocketAssumption
  <2>3. s \notin former
    BY <2>1, <2>2 DEF SocketInv, Single, Forgotten
  <2> QED BY <1>3, <2>1, <2>2, <2>3, SocketAssumption
          DEF Resume, SocketInv, SocketTypeOK, Single, Owned, RefLive, FormerEnding, Forgotten, TimerAlone, RefMounted, Waiting, Live
<1> QED BY <1>4, <1>5 DEF SocketInv

LEMMA TimerKeeps ==
  ASSUME SocketInv, TimerFires \/ LooseTimerFires \/ StrayTimerFires PROVE SocketInv'
<1>1. CASE TimerFires
  <2>1. PICK s \in Sockets : Dial(s, sock)
    BY <1>1 DEF TimerFires
  <2>2. /\ sock' \in [Sockets -> SocketStates]
        /\ sock[s] = "free" /\ sock'[s] = "connecting"
        /\ \A t \in Sockets : t # s => sock'[t] = sock[t]
        /\ wsRef' = s /\ status' = "connecting"
    BY <2>1, DialEffect DEF SocketInv, SocketTypeOK
  <2>3. SocketTypeOK'
    BY <1>1, <2>2, SocketAssumption DEF TimerFires, mountVars, SocketInv, SocketTypeOK, Statuses
  <2>4. ASSUME ~replaced PROVE Single'
    <3>1. s \notin former
      BY <2>2, <2>4 DEF SocketInv, Single, Forgotten
    <3> QED BY <1>1, <2>2, <2>4, <3>1, SocketAssumption
            DEF TimerFires, mountVars, SocketInv, SocketTypeOK, Single, Owned, RefLive, FormerEnding, Forgotten, TimerAlone,
                RefMounted, Waiting, Live
  <2> QED BY <1>1, <2>3, <2>4 DEF SocketInv, TimerFires, mountVars
<1>2. CASE LooseTimerFires
  <2>1. replaced
    BY <1>2 DEF LooseTimerFires, SocketInv, SocketTypeOK, Single, TimerAlone
  <2>2. PICK s \in Sockets : Dial(s, sock)
    BY <1>2 DEF LooseTimerFires
  <2>3. sock' \in [Sockets -> SocketStates] /\ wsRef' = s /\ status' = "connecting"
    BY <2>2, DialEffect DEF SocketInv, SocketTypeOK
  <2>4. loose' \in Nat
    BY <1>2 DEF LooseTimerFires, SocketInv, SocketTypeOK
  <2> QED BY <1>2, <2>1, <2>3, <2>4, SocketAssumption DEF LooseTimerFires, mountVars, SocketInv, SocketTypeOK, Statuses
<1>3. CASE StrayTimerFires
  <2>1. replaced
    BY <1>3 DEF StrayTimerFires, SocketInv, SocketTypeOK, Single, TimerAlone
  <2>2. sock' \in [Sockets -> SocketStates] /\ former' \subseteq Sockets /\ stray' \in Nat
    BY <1>3 DEF StrayTimerFires, SocketInv, SocketTypeOK, SocketStates
  <2> QED BY <1>3, <2>1, <2>2, SocketAssumption DEF StrayTimerFires, mountVars, refVars, SocketInv, SocketTypeOK, Statuses
<1> QED BY <1>1, <1>2, <1>3

LEMMA OpenedKeeps ==
  ASSUME SocketInv, NEW s \in Sockets, Opened(s) PROVE SocketInv'
<1> USE SocketAssumption DEF SocketInv, SocketTypeOK, SocketStates, Statuses, Opened, mountVars, timerVars
<1>a. sock' \in [Sockets -> SocketStates]
  OBVIOUS
<1>b. attempt' \in 0 .. MaxAttempts /\ mounts' \in 0 .. MaxMounts /\ loose' \in Nat /\ stray' \in Nat
  OBVIOUS
<1>c. hasConnected' \in BOOLEAN
  OBVIOUS
<1>1. SocketTypeOK'
  BY <1>a, <1>b, <1>c
<1>2. CASE ~replaced
  BY <1>1, <1>2 DEF Single, Owned, RefLive, FormerEnding, Forgotten, TimerAlone, RefMounted, Waiting, Live
<1> QED BY <1>1, <1>2

LEMMA CloseKeeps ==
  ASSUME SocketInv, NEW s \in Sockets, NEW e \in BOOLEAN, CloseEvent(s, e) PROVE SocketInv'
<1> USE SocketAssumption DEF SocketInv, SocketTypeOK, SocketStates, Statuses, CloseEvent, mountVars
<1>1. CASE s \in former
  <2>a. sock' \in [Sockets -> SocketStates] /\ former' \subseteq Sockets
    OBVIOUS
  <2>b. UNCHANGED <<wsRef, attempt, timer, loose>> /\ status' \in Statuses
    BY <1>1
  <2>1. SocketTypeOK'
    BY <2>a, <2>b
  <2>2. CASE ~replaced
    BY <1>1, <2>1, <2>2 DEF Single, Owned, RefLive, FormerEnding, Forgotten, TimerAlone, RefMounted, Waiting, Live, CanResume
  <2> QED BY <2>1, <2>2
<1>2. CASE s \notin former
  <2>a. sock' \in [Sockets -> SocketStates] /\ former' \subseteq Sockets
    OBVIOUS
  <2>b. ScheduleReconnect
    BY <1>2
  <2>c. attempt' \in 0 .. MaxAttempts /\ loose' \in Nat
    BY <2>b DEF ScheduleReconnect
  <2>d. timer' \in BOOLEAN /\ status' \in Statuses /\ wsRef' = NoSocket
    BY <2>b DEF ScheduleReconnect
  <2>1. SocketTypeOK'
    BY <2>a, <2>c, <2>d
  <2>2. CASE ~replaced
    <3>1. s = wsRef /\ mounted /\ ~timer
      BY <1>2, <2>2 DEF Single, Owned, TimerAlone, RefMounted
    <3> QED BY <1>2, <2>1, <2>2, <3>1
            DEF ScheduleReconnect, Single, Owned, RefLive, FormerEnding, Forgotten, TimerAlone, RefMounted, Waiting, Live, CanResume
  <2> QED BY <2>1, <2>2
<1> QED BY <1>1, <1>2

LEMMA SocketInductive ==
  SocketInv /\ [SocketNext]_socketVars => SocketInv'
<1> SUFFICES ASSUME SocketInv, [SocketNext]_socketVars PROVE SocketInv'
  OBVIOUS
<1>1. CASE Mount \/ Unmount \/ Resume
  BY <1>1, MountKeeps, UnmountKeeps, ResumeKeeps
<1>2. CASE TimerFires \/ LooseTimerFires \/ StrayTimerFires
  BY <1>2, TimerKeeps
<1>3. CASE \E s \in Sockets : Opened(s) \/ \E e \in BOOLEAN : CloseEvent(s, e)
  BY <1>3, OpenedKeeps, CloseKeeps
<1>4. CASE UNCHANGED socketVars
  BY <1>4 DEF socketVars, storeVars, refVars, timerVars, mountVars, SocketInv, SocketTypeOK, Single, Owned,
     RefLive, FormerEnding, Forgotten, TimerAlone, RefMounted, Waiting, Live, CanResume
<1> QED BY <1>1, <1>2, <1>3, <1>4 DEF SocketNext

LEMMA SocketAlways == SocketSpec => []SocketInv
BY InitSingle, SocketInductive, PTL DEF SocketSpec

-----------------------------------------------------------------------------
(* Every variable of the socket keeps its type, for any bound on attempts   *)
(* and mounts (use-websocket.ts).                                           *)
THEOREM SocketTypeCorrect == SocketSpec => []SocketTypeOK
<1>1. SocketInv => SocketTypeOK
  BY DEF SocketInv
<1> QED BY <1>1, SocketAlways, PTL

(* No second live socket and no second timer, unless the reconnect effect   *)
(* closed a socket (the effects and onclose of use-websocket.ts).           *)
THEOREM OneSocketAtATime == SocketSpec => []OneSocketUnlessReplaced
<1>1. SocketInv => OneSocketUnlessReplaced
  BY SocketInvImplies
<1> QED BY <1>1, SocketAlways, PTL

(* The hook never stops trying without showing the button.                  *)
THEOREM AlwaysARetry == SocketSpec => []NeverStranded
<1>1. SocketInv => NeverStranded
  BY SocketInvImplies
<1> QED BY <1>1, SocketAlways, PTL

-----------------------------------------------------------------------------
(* The feed implements the socket: a step of the store, the service or a    *)
(* refresh leaves it alone, and the others are its own.                     *)
LEMMA FeedStep == [Next]_vars => [SocketNext]_socketVars
<1> SUFFICES ASSUME [Next]_vars PROVE [SocketNext]_socketVars
  OBVIOUS
<1>1. CASE ServerStep
  BY <1>1 DEF ServerStep, Insert, DispatchOnce, DispatchLost, DispatchTwice, Dispatch, Elsewhere, HubAdds, SendCount
<1>2. CASE FetchStep
  BY <1>2 DEF FetchStep, Settle, Serve, ServeFails
<1>3. CASE UserStep
  BY <1>3 DEF UserStep, UserReads, UserDeletes, UserReadsAll, ServeAsk, AllAnswered, AskFails
<1>4. CASE SocketStep
  <2>1. CASE Enter \/ Leave \/ Press \/ Redial
    BY <2>1 DEF Enter, Leave, Press, Redial, Quietly, SocketNext
  <2>2. ASSUME NEW s \in Sockets, OpenedFirst(s) \/ Backfill(s)
        PROVE  SocketNext
    BY <2>2 DEF OpenedFirst, Backfill, SocketNext
  <2>3. ASSUME NEW s \in Sockets, CloseDone(s)
        PROVE  SocketNext
    BY <2>3 DEF CloseDone, Quietly, Finish, SocketNext
  <2>4. ASSUME NEW s \in Sockets, NEW e \in BOOLEAN, Break(s, e)
        PROVE  SocketNext
    BY <2>4 DEF Break, Quietly, SocketNext
  <2>5. ASSUME NEW s \in Sockets, Deliver(s)
        PROVE  UNCHANGED socketVars
    BY <2>5 DEF Deliver
  <2> QED BY <1>4, <2>1, <2>2, <2>3, <2>4, <2>5 DEF SocketStep
<1>5. CASE UNCHANGED vars
  BY <1>5 DEF vars
<1> QED BY <1>1, <1>2, <1>3, <1>4, <1>5 DEF Next

THEOREM FeedImplementsSocket == Spec => SocketSpec
<1>1. FeedInit => SocketInit
  BY DEF FeedInit
<1> QED BY <1>1, FeedStep, PTL DEF Spec, SocketSpec
=============================================================================
