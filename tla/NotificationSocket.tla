---------------------------- MODULE NotificationSocket ----------------------------
(***************************************************************************)
(* The WebSocket of the notifications of one tab: the hook useWebSocket,    *)
(* mounted with the dashboard layout while the user is signed in, its       *)
(* reconnect timer, and the resume button that bumps reconnectToken.        *)
(*                                                                          *)
(* A socket is a name the browser uses again once its close event has been  *)
(* handled.  Between close() and that event it is "failing" (the handshake  *)
(* was cut short: an error event precedes the close event, in the same      *)
(* task) or "closing"; the handlers stay those of the mount that dialled.   *)
(***************************************************************************)
EXTENDS Naturals, FiniteSets

CONSTANTS Sockets,       \* names for the sockets of the tab
          NoSocket,      \* wsRef.current === null
          MaxAttempts,   \* MAX_RECONNECT_ATTEMPTS
          MaxMounts      \* bound: how often the layout is entered

ASSUME SocketAssumption ==
  /\ NoSocket \notin Sockets
  /\ MaxAttempts \in Nat
  /\ MaxMounts \in Nat \ {0}

VARIABLES
  sock,         \* the browser: the state of each socket
  former,       \* sockets whose handlers belong to a mount that has ended
  status,       \* the store: connectionStatus
  token,        \* the store: reconnectToken # 0
  mounted,      \* WebSocketInner is rendered
  wsRef, attempt, hasConnected,   \* refs of the present mount
  timer,        \* the timer in reconnectTimerRef is armed
  loose,        \* armed timers of this mount that reconnectTimerRef has forgotten
  stray,        \* armed timers of former mounts
  mounts,       \* how often the layout was entered, up to MaxMounts
  replaced      \* history: the reconnect effect has closed a socket

storeVars == <<status, token>>
refVars == <<wsRef, attempt, hasConnected>>
timerVars == <<timer, loose, stray>>
mountVars == <<mounted, mounts, replaced>>
socketVars == <<sock, former, storeVars, refVars, timerVars, mountVars>>

Statuses == {"disconnected", "connecting", "connected", "reconnecting", "failed"}
SocketStates == {"free", "connecting", "open", "failing", "closing"}

SocketTypeOK ==
  /\ sock \in [Sockets -> SocketStates]
  /\ former \subseteq Sockets
  /\ status \in Statuses
  /\ token \in BOOLEAN /\ mounted \in BOOLEAN /\ hasConnected \in BOOLEAN
  /\ timer \in BOOLEAN /\ replaced \in BOOLEAN
  /\ wsRef \in Sockets \cup {NoSocket}
  /\ attempt \in 0 .. MaxAttempts
  /\ loose \in Nat /\ stray \in Nat
  /\ mounts \in 0 .. MaxMounts

-----------------------------------------------------------------------------
(* connect() with a session: the new socket takes wsRef, whatever it held. *)
Dial(s, before) ==
  /\ before[s] = "free"
  /\ sock' = [before EXCEPT ![s] = "connecting"]
  /\ wsRef' = s
  /\ status' = "connecting"

(* ws.close() on the socket of wsRef: its close event comes later. *)
Closed(before) ==
  IF wsRef = NoSocket THEN before
  ELSE [before EXCEPT ![wsRef] = IF @ = "open" THEN "closing" ELSE "failing"]

SocketInit ==
  /\ \E s \in Sockets :
       /\ sock = [t \in Sockets |-> IF t = s THEN "connecting" ELSE "free"]
       /\ wsRef = s
  /\ former = {}
  /\ status = "connecting"
  /\ token = FALSE
  /\ mounted = TRUE
  /\ attempt = 0
  /\ hasConnected = FALSE
  /\ timer = FALSE /\ loose = 0 /\ stray = 0
  /\ mounts = 1
  /\ replaced = FALSE

(* The layout is entered again.  The refs are new; the first effect dials,  *)
(* and once the button was ever pressed the second closes that socket and   *)
(* dials another.                                                           *)
Mount ==
  /\ ~mounted /\ mounts < MaxMounts
  /\ mounted' = TRUE
  /\ mounts' = mounts + 1
  /\ attempt' = 0
  /\ hasConnected' = FALSE
  /\ timer' = FALSE
  /\ IF token
     THEN \E s, t \in Sockets :
            /\ s # t /\ sock[s] = "free"
            /\ Dial(t, [sock EXCEPT ![s] = "failing"])
            /\ replaced' = TRUE
     ELSE /\ \E s \in Sockets : Dial(s, sock)
          /\ UNCHANGED replaced
  /\ UNCHANGED <<former, token, loose, stray>>

(* Mutant of Unmount: the cleanup forgets the timer, which fires all the same. *)
UnmountKeepsTimer ==
  /\ mounted
  /\ mounted' = FALSE
  /\ sock' = Closed(sock)
  /\ wsRef' = NoSocket
  /\ timer' = FALSE
  /\ loose' = 0
  /\ stray' = stray + loose + (IF timer THEN 1 ELSE 0)
  /\ former' = {s \in Sockets : sock[s] # "free"}
  /\ UNCHANGED <<status, token, attempt, hasConnected, mounts, replaced>>

(* The layout is left by a client-side navigation: the cleanup of the first *)
(* effect.  A timer no reference names stays armed, a socket none names     *)
(* stays open.                                                              *)
Unmount ==
  /\ mounted
  /\ mounted' = FALSE
  /\ sock' = Closed(sock)
  /\ wsRef' = NoSocket
  /\ timer' = FALSE
  /\ loose' = 0
  /\ stray' = stray + loose
  /\ former' = {s \in Sockets : sock[s] # "free"}
  /\ UNCHANGED <<status, token, attempt, hasConnected, mounts, replaced>>

(* The states in which the button is shown. *)
CanResume == status \in {"disconnected", "failed"}

(* The button: requestReconnect, and the effect it triggers. *)
Resume ==
  /\ mounted /\ CanResume
  /\ token' = TRUE
  /\ timer' = FALSE
  /\ attempt' = 0
  /\ \E s \in Sockets : Dial(s, Closed(sock))
  /\ replaced' = (replaced \/ wsRef # NoSocket)
  /\ UNCHANGED <<former, hasConnected, loose, stray, mounted, mounts>>

TimerFires ==
  /\ timer
  /\ timer' = FALSE
  /\ \E s \in Sockets : Dial(s, sock)
  /\ UNCHANGED <<former, token, attempt, hasConnected, loose, stray, mountVars>>

LooseTimerFires ==
  /\ loose > 0
  /\ loose' = loose - 1
  /\ \E s \in Sockets : Dial(s, sock)
  /\ UNCHANGED <<former, token, attempt, hasConnected, timer, stray, mountVars>>

(* connect() of a mount that has ended: its refs are not the present ones. *)
StrayTimerFires ==
  /\ stray > 0
  /\ stray' = stray - 1
  /\ \E s \in Sockets : /\ sock[s] = "free"
                        /\ sock' = [sock EXCEPT ![s] = "connecting"]
                        /\ former' = former \cup {s}
  /\ status' = "connecting"
  /\ UNCHANGED <<token, refVars, timer, loose, mountVars>>

(* onopen *)
Opened(s) ==
  /\ sock[s] = "connecting"
  /\ sock' = [sock EXCEPT ![s] = "open"]
  /\ status' = "connected"
  /\ IF s \in former THEN UNCHANGED <<attempt, hasConnected>>
     ELSE /\ attempt' = 0
          /\ hasConnected' = TRUE
  /\ UNCHANGED <<former, token, wsRef, timerVars, mountVars>>

(* Mutant of ScheduleReconnect: one attempt more is counted than the limit allows. *)
ScheduleReconnectOnceMore ==
  /\ wsRef' = NoSocket
  /\ IF attempt <= MaxAttempts
     THEN /\ attempt' = attempt + 1
          /\ status' = "reconnecting"
          /\ timer' = TRUE
          /\ loose' = IF timer THEN loose + 1 ELSE loose
     ELSE /\ status' = "failed"
          /\ UNCHANGED <<attempt, timer, loose>>

(* Mutant of ScheduleReconnect: giving up does not show in the status. *)
GiveUpSilently ==
  /\ wsRef' = NoSocket
  /\ status' = "reconnecting"
  /\ IF attempt < MaxAttempts
     THEN /\ attempt' = attempt + 1
          /\ timer' = TRUE
          /\ loose' = IF timer THEN loose + 1 ELSE loose
     ELSE UNCHANGED <<attempt, timer, loose>>

(* Mutant of ScheduleReconnect: the attempts are forgotten at each dial. *)
ScheduleReconnectForEver ==
  /\ wsRef' = NoSocket
  /\ attempt' = 0
  /\ status' = "reconnecting"
  /\ timer' = TRUE
  /\ loose' = IF timer THEN loose + 1 ELSE loose

(* onclose of the present mount *)
ScheduleReconnect ==
  /\ wsRef' = NoSocket
  /\ IF attempt < MaxAttempts
     THEN /\ attempt' = attempt + 1
          /\ status' = "reconnecting"
          /\ timer' = TRUE
          /\ loose' = IF timer THEN loose + 1 ELSE loose
     ELSE /\ status' = "failed"
          /\ UNCHANGED <<attempt, timer, loose>>

(* The close event of s, after an error event when the connection failed.   *)
(* onclose of a mount that has ended returns on intentionalCloseRef, but    *)
(* onerror writes the status all the same.                                  *)
CloseEvent(s, error) ==
  /\ sock[s] # "free"
  /\ sock[s] \in {"connecting", "failing"} => error
  /\ sock[s] = "closing" => ~error
  /\ sock' = [sock EXCEPT ![s] = "free"]
  /\ former' = former \ {s}
  /\ IF s \in former
     THEN /\ status' = IF error THEN "disconnected" ELSE status
          /\ UNCHANGED <<wsRef, attempt, timer, loose>>
     ELSE ScheduleReconnect
  /\ UNCHANGED <<token, hasConnected, stray, mountVars>>

Answered(s) == Opened(s) \/ (sock[s] = "connecting" /\ CloseEvent(s, TRUE))
Finish(s) == sock[s] \in {"failing", "closing"} /\ \E e \in BOOLEAN : CloseEvent(s, e)

SocketNext ==
  \/ Mount \/ Unmount \/ Resume
  \/ TimerFires \/ LooseTimerFires \/ StrayTimerFires
  \/ \E s \in Sockets : \/ Opened(s)
                        \/ \E e \in BOOLEAN : CloseEvent(s, e)

SocketSpec == SocketInit /\ [][SocketNext]_socketVars

(* Timers fire, handshakes are answered one way or the other (the browser   *)
(* gives up on them), and a closed socket gets its close event.             *)
SocketFairSpec ==
  /\ SocketSpec
  /\ WF_socketVars(TimerFires) /\ WF_socketVars(LooseTimerFires) /\ WF_socketVars(StrayTimerFires)
  /\ \A s \in Sockets : WF_socketVars(Answered(s)) /\ WF_socketVars(Finish(s))

-----------------------------------------------------------------------------
Live(s) == sock[s] \in {"connecting", "open"}

(* A tab dials once at a time: never two live sockets, nor a live socket    *)
(* and an armed timer, nor two timers (each notification would arrive and   *)
(* be counted twice), unless the reconnect effect has closed a socket: the  *)
(* close event of that one, taken for a loss, schedules a second dial       *)
(* (onclose and the two effects of use-websocket.ts).                       *)
OneSocket ==
  /\ \A s, t \in Sockets : Live(s) /\ Live(t) => s = t
  /\ timer => \A s \in Sockets : ~Live(s)
  /\ loose = 0 /\ stray = 0
OneSocketUnlessReplaced == ~replaced => OneSocket

(* Reconnecting never stops for good: a mounted hook has a live socket, a   *)
(* timer that will dial, a close event to come, or shows the button.  (After *)
(* a replacement, a socket no mount owns may set the status to connected     *)
(* when the hook has given up.)                                              *)
NeverStranded ==
  mounted /\ ~replaced => \/ CanResume
                         \/ timer
                         \/ \E s \in Sockets : s \notin former /\ sock[s] # "free"

(* Every outage ends in a connection or in the failed state, whose button   *)
(* the user can press: the attempts are counted across dials and forgotten  *)
(* only by an open socket (attemptRef in use-websocket.ts).                 *)
ConnectionSettles ==
  status \in {"connecting", "reconnecting"} ~> (status \in {"connected", "failed", "disconnected"} \/ ~mounted)

=============================================================================
