---------------------------- MODULE NotificationFeed ----------------------------
(***************************************************************************)
(* The badge and the dropdown of one tab (notification-store.ts), fed by    *)
(* the socket of NotificationSocket, by refreshFromServer and by what the   *)
(* user does (use-notification-actions.ts), against the rows of the         *)
(* notification service, which tells its registered sockets of each new     *)
(* one.  One user; notifications are numbered in the order of created_at.   *)
(*                                                                          *)
(* drift names the first thing that has happened since the last             *)
(* reconciliation that may set the tab apart from the rows: FeedAgrees says *)
(* there is nothing else.                                                   *)
(***************************************************************************)
EXTENDS NotificationSocket, Sequences, SequencesExt

CONSTANTS MaxNotes,      \* bound: notifications of the user,
          OldNotes,      \*   of which so many are there, unread, when the page loads
          Window,        \* the length of the dropdown, 10
          Fetches,       \* bound: names for refreshes under way
          MaxActs,       \* bound: what the user does
          MaxFaults      \* bound: lost, failed, repeated; other devices; connections lost; departures

ASSUME FeedAssumption ==
  /\ Window \in Nat \ {0}
  /\ {MaxNotes, MaxActs, MaxFaults} \subseteq Nat /\ OldNotes \in 0 .. MaxNotes

VARIABLES
  row,          \* the service: unread, read, or gone; none before its insert
  told,         \* the service: notifications whose dispatch is over
  hub,          \* the hub: off, queued or on, for the far end of each socket
  counted,      \* sockets the unread count was sent to
  chan,         \* what is on its way to the tab
  unread, recent, initialized,    \* the store
  fetch,        \* refreshes under way: the two requests of each
  asks,         \* requests of the user's actions
  acts, faults, \* budgets
  drift         \* history: what first set the tab apart from the rows, or "none"

serverVars == <<row, told>>
linkVars == <<hub, counted, chan>>
tabVars == <<unread, recent, initialized>>
feedVars == <<serverVars, linkVars, tabVars, fetch, asks, acts, faults, drift>>
vars == <<socketVars, feedVars>>

Notes == 1 .. MaxNotes
Causes == {"missed", "raced", "repeated", "failed", "window", "elsewhere"}
Items == [note : Notes, read : BOOLEAN]
Messages == [kind : {"new"}, arg : Notes] \cup [kind : {"count"}, arg : Nat]
Requests == [kind : {"read", "all", "delete"}, notes : SUBSET Notes, done : BOOLEAN]

(* One request of refreshFromServer: not sent, sent, failed, or answered. *)
Idle == [at |-> "idle", count |-> 0, list |-> <<>>]
Asked == [at |-> "asked", count |-> 0, list |-> <<>>]
Failed == [at |-> "failed", count |-> 0, list |-> <<>>]
NoFetch == [count |-> Idle, list |-> Idle]
Answers == [at : {"idle", "asked", "failed", "answered"}, count : Nat, list : Seq(Items)]

(* The elements of a finite set of numbers, in increasing order. *)
InOrder(S) ==
  CHOOSE q \in [1 .. Cardinality(S) -> S] : \A i, j \in 1 .. Cardinality(S) : i < j => q[i] < q[j]

Rows == {n \in Notes : row[n] \in {"unread", "read"}}
ServerUnread == Cardinality({n \in Notes : row[n] = "unread"})
(* GET notifications, newest first, one window *)
ServerList ==
  LET newest == Reverse(InOrder(Rows))
      take == IF Len(newest) < Window THEN Len(newest) ELSE Window
  IN  [i \in 1 .. take |-> [note |-> newest[i], read |-> row[newest[i]] = "read"]]
InRecent(n) == \E i \in DOMAIN recent : recent[i].note = n
UnreadInRecent(n) == \E i \in DOMAIN recent : recent[i] = [note |-> n, read |-> FALSE]

TypeOK ==
  /\ SocketTypeOK
  /\ row \in [Notes -> {"none", "unread", "read", "gone"}]
  /\ told \subseteq Notes
  /\ hub \in [Sockets -> {"off", "queued", "on"}]
  /\ counted \subseteq Sockets
  /\ chan \in [Sockets -> Seq(Messages)]
  /\ unread \in Nat /\ initialized \in BOOLEAN
  /\ recent \in Seq(Items) /\ Len(recent) <= Window
  /\ fetch \in [Fetches -> [count : Answers, list : Answers]]
  /\ \A f \in Fetches : Len(fetch[f].list.list) <= Window
  /\ asks \subseteq Requests
  /\ acts \in 0 .. MaxActs /\ faults \in 0 .. MaxFaults
  /\ drift \in Causes \cup {"none"}

-----------------------------------------------------------------------------
(* News of the rows is on its way to the tab *)
NewsIn(s) == sock[s] = "open" /\ \E i \in DOMAIN chan[s] : chan[s][i].kind = "new"
News ==
  \/ \E n \in Notes : row[n] # "none" /\ n \notin told
  \/ \E s \in Sockets : NewsIn(s)

(* A snapshot of the rows is being taken, or is on its way. *)
Syncing ==
  \/ \E f \in Fetches : fetch[f] # NoFetch
  \/ \E s \in Sockets :
       sock[s] = "open" /\ (s \notin counted \/ \E i \in DOMAIN chan[s] : chan[s][i].kind = "count")

(* A snapshot crosses a change, or "mark all" crosses a new notification. *)
Crossing ==
  \/ Syncing /\ (News \/ asks # {})
  \/ News /\ \E a \in asks : a.kind = "all"

(* The last conjunct of each action: the first cause is kept. *)
DriftBy(causes) ==
  drift' = IF drift # "none" THEN drift
           ELSE IF causes # {} THEN CHOOSE c \in causes : TRUE
           ELSE IF Crossing' THEN "raced" ELSE "none"

Fault == faults < MaxFaults /\ faults' = faults + 1

FeedInit ==
  /\ SocketInit
  /\ row = [n \in Notes |-> IF n <= OldNotes THEN "unread" ELSE "none"]
  /\ told = 1 .. OldNotes
  /\ hub = [s \in Sockets |-> "off"]
  /\ counted = {}
  /\ chan = [s \in Sockets |-> <<>>]
  /\ unread = 0 /\ recent = <<>> /\ initialized = FALSE
  /\ \E f \in Fetches : fetch = [g \in Fetches |-> IF g = f THEN [count |-> Asked, list |-> Asked] ELSE NoFetch]
  /\ asks = {}
  /\ acts = 0 /\ faults = 0
  /\ drift = "none"

-----------------------------------------------------------------------------
(* The notification service *)

Insert(n) ==
  /\ row[n] = "none"
  /\ \A m \in Notes : m < n => row[m] # "none"
  /\ row' = [row EXCEPT ![n] = "unread"]
  /\ UNCHANGED <<socketVars, told, linkVars, tabVars, fetch, asks, acts, faults>>
  /\ DriftBy({})

Listening == {s \in Sockets : hub[s] = "on" /\ sock[s] = "open"}

(* SendToUser: each registered socket of the user gets the message.  Two    *)
(* consumers may overtake each other.                                       *)
Dispatch(n, times) ==
  /\ row[n] # "none" /\ n \notin told
  /\ told' = told \cup {n}
  /\ chan' = [s \in Sockets |->
                IF s \in Listening
                THEN chan[s] \o [i \in 1 .. times |-> [kind |-> "new", arg |-> n]]
                ELSE chan[s]]
  /\ UNCHANGED <<socketVars, row, hub, counted, tabVars, fetch, asks, acts>>
  /\ DriftBy((IF Listening = {} \/ times = 0 THEN {"missed"} ELSE {})
             \cup (IF (\E s, t \in Listening : s # t) \/ times > 1 THEN {"repeated"} ELSE {})
             \cup (IF \E m \in Notes \ told : m < n /\ row[m] # "none" THEN {"raced"} ELSE {}))

DispatchOnce(n) == Dispatch(n, 1) /\ UNCHANGED faults
(* The process dies after the insert, or a full buffer drops the message. *)
DispatchLost(n) == Fault /\ Dispatch(n, 0)
(* Redis took the fan-out although PUBLISH failed, and the local hub is used as well. *)
DispatchTwice(n) == Fault /\ Dispatch(n, 2)

(* HandleWebSocket: the hub goroutine takes the registration, and the count *)
(* is read and queued, in either order.                                     *)
HubAdds(s) ==
  /\ hub[s] = "queued"
  /\ hub' = [hub EXCEPT ![s] = "on"]
  /\ UNCHANGED <<socketVars, serverVars, counted, chan, tabVars, fetch, asks, acts, faults>>
  /\ DriftBy({})

SendCount(s) ==
  /\ hub[s] # "off" /\ s \notin counted
  /\ counted' = counted \cup {s}
  /\ chan' = [chan EXCEPT ![s] = Append(@, [kind |-> "count", arg |-> ServerUnread])]
  /\ UNCHANGED <<socketVars, serverVars, hub, tabVars, fetch, asks, acts, faults>>
  /\ DriftBy({})

(* The user, on another device: nothing tells this tab. *)
Elsewhere(n, fate) ==
  /\ Fault
  /\ row[n] \in {"unread", "read"} /\ fate # row[n]
  /\ row' = [row EXCEPT ![n] = fate]
  /\ UNCHANGED <<socketVars, told, linkVars, tabVars, fetch, asks, acts>>
  /\ DriftBy({"elsewhere"})

-----------------------------------------------------------------------------
(* The store *)

Without(ns) ==
  LET kept == InOrder({i \in DOMAIN recent : recent[i].note \notin ns})
  IN  [i \in DOMAIN kept |-> recent[kept[i]]]
(* Mutant of FirstOf: the list is not cut. *)
Uncut(s) == s

FirstOf(s) == IF Len(s) > Window THEN SubSeq(s, 1, Window) ELSE s

(* The list drops an older copy of the notification; the count does not look. *)
AddNotification(n) ==
  /\ recent' = FirstOf(<<[note |-> n, read |-> FALSE]>> \o Without({n}))
  /\ unread' = unread + 1

ReadIn(ns) == [i \in DOMAIN recent |-> [recent[i] EXCEPT !.read = @ \/ recent[i].note \in ns]]
(* Math.max(0, ...), for what the dropdown shows as unread *)
Less(ns) ==
  LET k == Cardinality({n \in ns : UnreadInRecent(n)})
  IN  IF unread > k THEN unread - k ELSE 0

MarkAsRead(n) == recent' = ReadIn({n}) /\ unread' = Less({n})
DeleteNotifications(ns) == recent' = Without(ns) /\ unread' = Less(ns)
MarkAllAsRead == recent' = ReadIn(Notes) /\ unread' = 0

(* onmessage *)
Deliver(s) ==
  /\ sock[s] = "open" /\ chan[s] # <<>>
  /\ chan' = [chan EXCEPT ![s] = Tail(@)]
  /\ \/ Head(chan[s]).kind = "new" /\ AddNotification(Head(chan[s]).arg)
     \/ Head(chan[s]).kind = "count" /\ unread' = Head(chan[s]).arg /\ UNCHANGED recent
  /\ UNCHANGED <<socketVars, serverVars, hub, counted, initialized, fetch, asks, acts, faults>>
  /\ DriftBy({})

-----------------------------------------------------------------------------
(* refreshFromServer: two requests, answered on their own, applied together *)

Refresh == \E f \in Fetches : /\ fetch[f] = NoFetch
                              /\ fetch' = [fetch EXCEPT ![f] = [count |-> Asked, list |-> Asked]]

Snapshot(part) ==
  IF part = "count" THEN [at |-> "answered", count |-> ServerUnread, list |-> <<>>]
  ELSE [at |-> "answered", count |-> 0, list |-> ServerList]

Serve(f, part) ==
  /\ fetch[f][part] = Asked
  /\ fetch' = [fetch EXCEPT ![f][part] = Snapshot(part)]
  /\ UNCHANGED <<socketVars, serverVars, linkVars, tabVars, asks, acts, faults>>
  /\ DriftBy({})

ServeFails(f, part) ==
  /\ Fault
  /\ fetch[f][part] = Asked
  /\ fetch' = [fetch EXCEPT ![f][part] = Failed]
  /\ UNCHANGED <<socketVars, serverVars, linkVars, tabVars, asks, acts>>
  /\ DriftBy({"failed"})

Settle(f) ==
  /\ fetch[f].count.at \in {"answered", "failed"} /\ fetch[f].list.at \in {"answered", "failed"}
  /\ unread' = IF fetch[f].count.at = "answered" THEN fetch[f].count.count ELSE unread
  /\ recent' = IF fetch[f].list.at = "answered" THEN fetch[f].list.list ELSE recent
  /\ initialized' = TRUE
  /\ fetch' = [fetch EXCEPT ![f] = NoFetch]
  /\ UNCHANGED <<socketVars, serverVars, linkVars, asks, acts, faults>>
  /\ DriftBy({})

-----------------------------------------------------------------------------
(* useNotificationActions *)

Act == acts < MaxActs /\ acts' = acts + 1
Ask(kind, ns) == asks' = asks \cup {[kind |-> kind, notes |-> ns, done |-> FALSE]}

(* The badge and the dropdown follow only what the dropdown holds.          *)
BeyondWindow(kind, ns) ==
  IF \/ \E n \in ns : row[n] = "unread" /\ ~UnreadInRecent(n)
     \/ kind = "delete" /\ Cardinality(Rows) > Window
  THEN {"window"} ELSE {}

(* From the dropdown or the page; an item the page already shows as read is left alone. *)
UserReads(n) ==
  /\ Act
  /\ row[n] \in {"unread", "read"}
  /\ MarkAsRead(n)
  /\ Ask("read", {n})
  /\ UNCHANGED <<socketVars, serverVars, linkVars, initialized, fetch, faults>>
  /\ DriftBy(BeyondWindow("read", {n}))

(* One item, or a selection in bulk: removed at once. *)
UserDeletes(ns) ==
  /\ Act
  /\ ns # {} /\ ns \subseteq Rows
  /\ DeleteNotifications(ns)
  /\ Ask("delete", ns)
  /\ UNCHANGED <<socketVars, serverVars, linkVars, initialized, fetch, faults>>
  /\ DriftBy(BeyondWindow("delete", ns))

(* Nothing changes in the tab before the answer. *)
UserReadsAll ==
  /\ Act
  /\ Ask("all", Notes)
  /\ UNCHANGED <<socketVars, serverVars, linkVars, tabVars, fetch, faults>>
  /\ DriftBy({})

After(a) ==
  [n \in Notes |->
     IF a.kind = "delete" THEN IF n \in a.notes THEN "gone" ELSE row[n]
     ELSE IF n \in a.notes /\ row[n] = "unread" THEN "read" ELSE row[n]]

ServeAsk(a) ==
  /\ ~a.done
  /\ row' = After(a)
  /\ asks' = (asks \ {a}) \cup (IF a.kind = "all" THEN {[a EXCEPT !.done = TRUE]} ELSE {})
  /\ UNCHANGED <<socketVars, told, linkVars, tabVars, fetch, acts, faults>>
  /\ DriftBy({})

AllAnswered(a) ==
  /\ a.done
  /\ MarkAllAsRead
  /\ asks' = asks \ {a}
  /\ UNCHANGED <<socketVars, serverVars, linkVars, initialized, fetch, acts, faults>>
  /\ DriftBy({})

(* The request or its answer is lost: the query caches are invalidated, the store is not. *)
AskFails(a) ==
  /\ Fault
  /\ asks' = asks \ {a}
  /\ UNCHANGED <<socketVars, serverVars, linkVars, tabVars, fetch, acts>>
  /\ DriftBy({"failed"})
-----------------------------------------------------------------------------
(* The socket's steps, and what they do to the feed *)

(* A connection brings a registration and nothing on its way; what was on   *)
(* its way over one that ends is gone.                                      *)
LinksFollow ==
  /\ hub' = [s \in Sockets |-> IF sock'[s] # "open" THEN "off" ELSE IF sock[s] = "open" THEN hub[s] ELSE "queued"]
  /\ counted' = {s \in counted : sock'[s] = "open"}
  /\ chan' = [s \in Sockets |-> IF sock'[s] = "open" THEN chan[s] ELSE <<>>]
Cut == IF \E s \in Sockets : NewsIn(s) /\ sock'[s] # "open" THEN {"missed"} ELSE {}

(* The first open of a mount fetches nothing, the later ones backfill: what *)
(* was missed before is made good, unless something crosses it.             *)
OpenedFirst(s) ==
  /\ Opened(s) /\ (s \in former \/ ~hasConnected)
  /\ LinksFollow
  /\ UNCHANGED <<serverVars, tabVars, fetch, asks, acts, faults>>
  /\ DriftBy({})

(* Mutant of Backfill: guarded by isInitialized, like fetchInitialData. *)
BackfillGuarded(s) ==
  /\ Opened(s) /\ (s \in former \/ hasConnected)
  /\ LinksFollow
  /\ IF initialized THEN UNCHANGED fetch ELSE Refresh
  /\ UNCHANGED <<serverVars, tabVars, asks, acts, faults>>
  /\ drift' = IF News \/ asks # {} \/ Syncing THEN "raced" ELSE "none"

Backfill(s) ==
  /\ Opened(s) /\ (s \in former \/ hasConnected)
  /\ LinksFollow
  /\ Refresh
  /\ UNCHANGED <<serverVars, tabVars, asks, acts, faults>>
  /\ drift' = IF News \/ asks # {} \/ Syncing THEN "raced" ELSE "none"

(* fetchInitialData runs with the mount, once per page load *)
Enter ==
  /\ Mount
  /\ LinksFollow
  /\ IF initialized THEN UNCHANGED fetch ELSE Refresh
  /\ UNCHANGED <<serverVars, tabVars, asks, acts, faults>>
  /\ DriftBy({})

Quietly(A) ==
  /\ A
  /\ LinksFollow
  /\ UNCHANGED <<serverVars, tabVars, fetch, asks, acts>>
  /\ DriftBy(Cut)

Leave == Fault /\ Quietly(Unmount)
Press == Quietly(Resume) /\ UNCHANGED faults
Redial == Quietly(TimerFires \/ LooseTimerFires \/ StrayTimerFires) /\ UNCHANGED faults
CloseDone(s) == Quietly(Finish(s)) /\ UNCHANGED faults
Break(s, error) == Fault /\ Live(s) /\ Quietly(CloseEvent(s, error))

ServerStep ==
  \/ \E n \in Notes : \/ Insert(n) \/ DispatchOnce(n) \/ DispatchLost(n) \/ DispatchTwice(n)
                      \/ \E fate \in {"read", "gone"} : Elsewhere(n, fate)
  \/ \E s \in Sockets : HubAdds(s) \/ SendCount(s)
FetchStep ==
  \E f \in Fetches : \/ Settle(f)
                     \/ \E part \in {"count", "list"} : Serve(f, part) \/ ServeFails(f, part)
UserStep ==
  \/ \E n \in Notes : UserReads(n)
  \/ \E ns \in SUBSET Notes : UserDeletes(ns)
  \/ UserReadsAll
  \/ \E a \in asks : ServeAsk(a) \/ AllAnswered(a) \/ AskFails(a)
SocketStep ==
  \/ Enter \/ Leave \/ Press \/ Redial
  \/ \E s \in Sockets : \/ OpenedFirst(s) \/ Backfill(s) \/ CloseDone(s) \/ Deliver(s)
                        \/ \E e \in BOOLEAN : Break(s, e)

Next == ServerStep \/ FetchStep \/ UserStep \/ SocketStep
Spec == FeedInit /\ [][Next]_vars

-----------------------------------------------------------------------------
Quiet == ~News /\ ~Syncing /\ asks = {}

(* When nothing is on its way, the badge is the number of unread rows and   *)
(* the dropdown their newest window, or one of the named causes has         *)
(* happened since the last reconciliation: the incremental updates of       *)
(* notification-store.ts and the backfill of a re-open keep no other error. *)
FeedAgrees == Quiet /\ drift = "none" => unread = ServerUnread /\ recent = ServerList

=============================================================================
