---------------------------- MODULE TriggerDispatch ----------------------------
(***************************************************************************)
(* How an occurrence becomes a run: the event source of                    *)
(* automation/trigger/event_source.go, the exactly-once dispatcher of      *)
(* trigger.go over the Redis guard of events/idempotency.go, and the sink  *)
(* of automation/service/service.go over the unique index of               *)
(* automation_runs.  One tenant; automations are numbered by name.         *)
(*                                                                         *)
(* An occurrence of a schedule, a webhook or a manual call goes through    *)
(* the same dispatcher with one automation, and comes again after an       *)
(* error: here it is an event that one automation matches.                 *)
(***************************************************************************)
EXTENDS Naturals, FiniteSets

CONSTANTS
    Events,       \* the occurrences, by their event id
    NoEvent,      \* what an idle worker is at
    Automations,  \* the automations of the tenant, in the order of their names
    Matches,      \* per event, the automations whose topic and filter match it
    Selects,      \* per event, the automations whose rules select an action
    Workers,      \* the handlers of the consumer group
    MaxAttempts,  \* maxHandlerErrors of the consumer
    MaxToggles,   \* bound: automations switched on or off
    MaxFaults     \* bound: crashes, failed calls, lost replies, redeliveries, expiries

ASSUME DispatchAssumption ==
    /\ NoEvent \notin Events
    /\ Automations \subseteq Nat
    /\ \A S \in SUBSET Automations \ {{}} : \E a \in S : \A b \in S : a <= b
    /\ Matches \in [Events -> SUBSET Automations]
    /\ Selects \in [Events -> SUBSET Automations]
    /\ MaxAttempts \in Nat \ {0}
    /\ MaxToggles \in Nat /\ MaxFaults \in Nat

VARIABLES
    guarded,            \* the deployment has Redis (a nil guard lets all through)
    enabled, toggled,   \* the automations that are enabled; those ever switched
    acked, dead,        \* events whose handler returned nil; dead-lettered ones
    stage, event, todo, tries,  \* the handler of each worker
    processed, lock,    \* Redis: markers and locks, per event and automation
    runs,               \* the rows of automation_runs
    skipped,            \* history: pairs answered "processed" for a lock alone,
    refused,            \*   and pairs the unique index refused
    toggles, faults     \* budgets

busVars    == <<acked, dead>>
workerVars == <<stage, event, todo, tries>>
redisVars  == <<processed, lock>>
adminVars  == <<enabled, toggled, toggles>>
vars       == <<guarded, adminVars, busVars, workerVars, redisVars, runs, skipped, refused, faults>>

Pairs == Events \X Automations
\* idle: no event;  list: before the candidates are read;  next: at the head
\* of the loop over them;  acquire: between EXISTS and SETNX;  sink: the lock
\* is held;  mark, settle: MarkProcessed after a new run, after a duplicate;
\* undo: Release;  failed: the handler returned an error.
Stages == {"idle", "list", "next", "acquire", "sink", "mark", "settle", "undo", "failed"}
Holding == {"sink", "mark", "settle", "undo"}

First(w) == CHOOSE a \in todo[w] : \A b \in todo[w] : a <= b
Key(w) == <<event[w], First(w)>>
Busy(w) == stage[w] # "idle"
Taken(e) == \E b \in Automations : <<e, b>> \in runs
Handled(e) == \E w \in Workers : event[w] = e
Goto(w, s) == stage' = [stage EXCEPT ![w] = s]
\* The worker is rid of its event.
Rest(w) == /\ Goto(w, "idle")
           /\ event' = [event EXCEPT ![w] = NoEvent]
           /\ todo' = [todo EXCEPT ![w] = {}]
           /\ tries' = [tries EXCEPT ![w] = 1]
\* This automation is done with: on to the next one.
PassOn(w) == /\ Goto(w, "next")
             /\ todo' = [todo EXCEPT ![w] = @ \ {First(w)}]
Fault == faults > 0 /\ faults' = faults - 1

\* The type invariant, in three parts.
Shapes ==
  /\ guarded \in BOOLEAN
  /\ enabled \subseteq Automations /\ toggled \subseteq Automations
  /\ acked \subseteq Events /\ dead \subseteq Events
  /\ processed \subseteq Pairs /\ lock \subseteq Pairs
  /\ runs \subseteq Pairs /\ skipped \subseteq Pairs /\ refused \subseteq Pairs
Handlers ==
  /\ stage \in [Workers -> Stages]
  /\ event \in [Workers -> Events \cup {NoEvent}]
  /\ todo \in [Workers -> SUBSET Automations]
  /\ \A w \in Workers : /\ Busy(w) <=> event[w] \in Events
                        /\ stage[w] \in Holding \cup {"acquire"} => todo[w] # {}
Counters ==
  /\ tries \in [Workers -> 1 .. MaxAttempts]
  /\ toggles \in 0 .. MaxToggles /\ faults \in 0 .. MaxFaults
TypeOK == Shapes /\ Handlers /\ Counters

Init ==
    /\ guarded \in BOOLEAN
    /\ enabled = Automations /\ toggled = {}
    /\ acked = {} /\ dead = {}
    /\ stage = [w \in Workers |-> "idle"]
    /\ event = [w \in Workers |-> NoEvent]
    /\ todo = [w \in Workers |-> {}]
    /\ tries = [w \in Workers |-> 1]
    /\ processed = {} /\ lock = {}
    /\ runs = {} /\ skipped = {} /\ refused = {}
    /\ toggles = MaxToggles /\ faults = MaxFaults

-----------------------------------------------------------------------------
\* The bus hands an event to a worker until it is disposed of; at the cost of
\* a fault also after that (a commit was lost), or while another worker is
\* still at it (a rebalance).
Take(w, e) ==
    /\ ~Busy(w)
    /\ IF e \in acked \cup dead \/ Handled(e)
       THEN Fault ELSE UNCHANGED faults
    /\ event' = [event EXCEPT ![w] = e]
    /\ Goto(w, "list")
    /\ UNCHANGED <<guarded, adminVars, busVars, todo, tries, redisVars, runs, skipped, refused>>

\* HandleEvent: the enabled automations of the topic, filtered and sorted.
List(w) ==
    /\ stage[w] = "list"
    /\ todo' = [todo EXCEPT ![w] = enabled \cap Matches[event[w]]]
    /\ Goto(w, "next")
    /\ UNCHANGED <<guarded, adminVars, busVars, event, tries, redisVars, runs, skipped, refused, faults>>

ListFails(w) ==
    /\ stage[w] = "list" /\ Fault
    /\ Goto(w, "failed")
    /\ UNCHANGED <<guarded, adminVars, busVars, event, todo, tries, redisVars, runs, skipped, refused>>

\* Dispatch, IsProcessed: EXISTS on the marker of event and automation.
Check(w) ==
    /\ stage[w] = "next" /\ todo[w] # {}
    /\ IF ~guarded THEN Goto(w, "sink") /\ UNCHANGED todo
       ELSE IF Key(w) \in processed THEN PassOn(w)
       ELSE Goto(w, "acquire") /\ UNCHANGED todo
    /\ UNCHANGED <<guarded, adminVars, busVars, event, tries, redisVars, runs, skipped, refused, faults>>

\* IsProcessed: SETNX on the lock.  A lock that is there counts as processed.
Acquire(w) ==
    /\ stage[w] = "acquire"
    /\ lock' = lock \cup {Key(w)}
    /\ IF Key(w) \in lock
       THEN PassOn(w) /\ skipped' = skipped \cup {Key(w)}
       ELSE Goto(w, "sink") /\ UNCHANGED <<todo, skipped>>
    /\ UNCHANGED <<guarded, adminVars, busVars, event, tries, processed, runs, refused, faults>>

\* Either command fails; a SETNX whose reply is lost leaves the lock behind.
LookupFails(w) ==
    /\ guarded /\ todo[w] # {} /\ Fault
    /\ \/ stage[w] \in {"next", "acquire"} /\ UNCHANGED lock
       \/ stage[w] = "acquire" /\ lock' = lock \cup {Key(w)}
    /\ Goto(w, "failed")
    /\ UNCHANGED <<guarded, adminVars, busVars, event, todo, tries, processed, runs, skipped, refused>>

Wanted(w) == First(w) \in enabled \cap Selects[event[w]]

\* AutomationService.Dispatch, one transaction: no run when the automation was
\* switched off since or its rules select nothing, ErrAlreadyExists when the
\* tenant has a run of this event.
Fire(w) ==
    /\ stage[w] = "sink"
    /\ runs' = IF Wanted(w) /\ ~Taken(event[w]) THEN runs \cup {Key(w)} ELSE runs
    /\ refused' = IF Wanted(w) /\ Taken(event[w]) THEN refused \cup {Key(w)} ELSE refused
    /\ Goto(w, IF Wanted(w) /\ Taken(event[w]) THEN "settle" ELSE "mark")
    /\ UNCHANGED <<guarded, adminVars, busVars, event, todo, tries, redisVars, skipped, faults>>

\* The transaction fails, or it commits and its answer is lost.
FireFails(w) ==
    /\ stage[w] = "sink" /\ Fault
    /\ \/ UNCHANGED runs
       \/ Wanted(w) /\ ~Taken(event[w]) /\ runs' = runs \cup {Key(w)}
    /\ Goto(w, "undo")
    /\ UNCHANGED <<guarded, adminVars, busVars, event, todo, tries, redisVars, skipped, refused>>

\* MarkProcessed: marker set and lock deleted in one transaction.
MarkProcessed(w) ==
    /\ stage[w] \in {"mark", "settle"}
    /\ IF guarded
       THEN processed' = processed \cup {Key(w)} /\ lock' = lock \ {Key(w)}
       ELSE UNCHANGED redisVars
    /\ PassOn(w)
    /\ UNCHANGED <<guarded, adminVars, busVars, event, tries, runs, skipped, refused, faults>>

\* It fails: an error after a new run, only a log line after a duplicate.
MarkFails(w) ==
    /\ guarded /\ Fault
    /\ \/ stage[w] = "mark" /\ Goto(w, "failed") /\ UNCHANGED todo
       \/ stage[w] = "settle" /\ PassOn(w)
    /\ UNCHANGED <<guarded, adminVars, busVars, event, tries, redisVars, runs, skipped, refused>>

\* Mutant of Release: the error of one automation does not stop the loop.
ReleaseAndGoOn(w) ==
    /\ stage[w] = "undo"
    /\ \/ lock' = lock \ {Key(w)} /\ UNCHANGED faults
       \/ guarded /\ Fault /\ UNCHANGED lock
    /\ PassOn(w)
    /\ UNCHANGED <<guarded, adminVars, busVars, event, tries, processed, runs, skipped, refused>>

\* Release; its error is only logged.  HandleEvent returns the error: the
\* automations behind this one wait for the retry.
Release(w) ==
    /\ stage[w] = "undo"
    /\ \/ lock' = lock \ {Key(w)} /\ UNCHANGED faults
       \/ guarded /\ Fault /\ UNCHANGED lock
    /\ Goto(w, "failed")
    /\ UNCHANGED <<guarded, adminVars, busVars, event, todo, tries, processed, runs, skipped, refused>>

-----------------------------------------------------------------------------
\* The handler returns nil, and the offset is committed.
Ack(w) ==
    /\ stage[w] = "next" /\ todo[w] = {}
    /\ acked' = acked \cup {event[w]}
    /\ Rest(w)
    /\ UNCHANGED <<guarded, adminVars, dead, redisVars, runs, skipped, refused, faults>>

\* Mutant of Retry: one attempt too many.
RetryOnceMore(w) ==
    /\ stage[w] = "failed" /\ tries[w] <= MaxAttempts
    /\ tries' = [tries EXCEPT ![w] = @ + 1]
    /\ Goto(w, "list")
    /\ UNCHANGED <<guarded, adminVars, busVars, event, todo, redisVars, runs, skipped, refused, faults>>

\* processWithRetry: the handler is called again from the start.
Retry(w) ==
    /\ stage[w] = "failed" /\ tries[w] < MaxAttempts
    /\ tries' = [tries EXCEPT ![w] = @ + 1]
    /\ Goto(w, "list")
    /\ UNCHANGED <<guarded, adminVars, busVars, event, todo, redisVars, runs, skipped, refused, faults>>

\* Mutant of DeadLetter: the last attempt is waited for twice.
DeadLetterLate(w) ==
    /\ stage[w] = "failed" /\ tries[w] > MaxAttempts
    /\ dead' = dead \cup {event[w]} /\ UNCHANGED faults
    /\ Rest(w)
    /\ UNCHANGED <<guarded, adminVars, acked, redisVars, runs, skipped, refused>>

\* After the last attempt; when the dead letter is refused, the bus hands the
\* event out again.
DeadLetter(w) ==
    /\ stage[w] = "failed" /\ tries[w] = MaxAttempts
    /\ \/ dead' = dead \cup {event[w]} /\ UNCHANGED faults
       \/ Fault /\ UNCHANGED dead
    /\ Rest(w)
    /\ UNCHANGED <<guarded, adminVars, acked, redisVars, runs, skipped, refused>>

\* The process dies, or is stopped, and comes back; Redis keeps what it held.
Crash(w) ==
    /\ Busy(w) /\ Fault
    /\ Rest(w)
    /\ UNCHANGED <<guarded, adminVars, busVars, redisVars, runs, skipped, refused>>

\* A lock outlives nobody by more than its TTL, a fault while its owner is at
\* work; a marker expires with its own.
LockExpires(k) ==
    /\ k \in lock
    /\ lock' = lock \ {k}
    /\ IF \E w \in Workers : stage[w] \in Holding /\ Key(w) = k THEN Fault ELSE UNCHANGED faults
    /\ UNCHANGED <<guarded, adminVars, busVars, workerVars, processed, runs, skipped, refused>>

MarkerExpires(k) ==
    /\ k \in processed /\ Fault
    /\ processed' = processed \ {k}
    /\ UNCHANGED <<guarded, adminVars, busVars, workerVars, lock, runs, skipped, refused>>

\* An automation is switched on or off.
Toggle(a) ==
    /\ toggles > 0
    /\ toggles' = toggles - 1
    /\ enabled' = IF a \in enabled THEN enabled \ {a} ELSE enabled \cup {a}
    /\ toggled' = toggled \cup {a}
    /\ UNCHANGED <<guarded, busVars, workerVars, redisVars, runs, skipped, refused, faults>>

-----------------------------------------------------------------------------
Dispatch(w) == \/ Check(w) \/ Acquire(w) \/ LookupFails(w)
               \/ Fire(w) \/ FireFails(w)
               \/ MarkProcessed(w) \/ MarkFails(w) \/ Release(w)
Handle(w) == List(w) \/ ListFails(w) \/ Dispatch(w) \/ Ack(w) \/ Retry(w) \/ DeadLetter(w)

Next ==
    \/ \E w \in Workers : Handle(w) \/ Crash(w) \/ \E e \in Events : Take(w, e)
    \/ \E k \in Pairs : LockExpires(k) \/ MarkerExpires(k)
    \/ \E a \in Automations : Toggle(a)

Spec == Init /\ [][Next]_vars

\* A worker goes on with its event, and the bus hands out what is left.
FairSpec ==
    /\ Spec
    /\ \A w \in Workers : WF_vars(Handle(w))
    /\ \A e \in Events : WF_vars(e \notin acked \cup dead /\ ~Handled(e) /\ \E w \in Workers : Take(w, e))

-----------------------------------------------------------------------------
Owed(e) == (Matches[e] \cap Selects[e]) \ toggled
Fired(e, a) == <<e, a>> \in runs

\* An event is acknowledged only when each automation it should have fired has
\* its run, or was refused one because the event has a run (the unique index
\* knows the event alone), or a lock was taken for a finished dispatch:
\* no error, crash or redelivery between the automations of an event loses one
\* (HandleEvent and Dispatcher.Dispatch).
FiredOrExplained ==
    \A e \in acked : \A a \in Owed(e) : Fired(e, a) \/ <<e, a>> \in refused \cup skipped

\* Every event is disposed of: the guard, the index and the retries never
\* block a partition.
EventsSettle == \A e \in Events : <>(e \in acked \cup dead)
=============================================================================
