---------------------------- MODULE EventConsumer ----------------------------
(***************************************************************************)
(* The consuming side of the event bus: the Kafka consumer group of        *)
(* backend/internal/events/consumer.go, the Redis idempotency guard of     *)
(* events/idempotency.go, and the protocol its handlers follow             *)
(* (notification/consumer/notification_consumer.go and the cyber and data  *)
(* consumers are written alike).  One partition of one topic, one group.   *)
(*                                                                         *)
(* What is abstracted: the payload (an event is a model value), the        *)
(* handler's business effect (counted per event), delays, metrics.  What   *)
(* is kept: every Redis command, publish and offset commit as a step of    *)
(* its own, the order between them, and what each one's failure leads to.  *)
(* Once a session is being torn down its context is cancelled, and every   *)
(* command a handler still issues with that context fails.                 *)
(***************************************************************************)
EXTENDS Integers, Sequences, FiniteSets

CONSTANTS
    Events,       \* the events producers may publish (the bus may hold one twice)
    Malformed,    \* the events that do not unmarshal
    Unmatched,    \* the events no rule of the handler matches
    Members,      \* the consumer instances of the group
    MaxAttempts,  \* maxHandlerErrors
    Unguarded,    \* the events whose handler has no Redis guard (a nil guard lets all through)
    Slow,         \* the events whose handler may outlive the processing lock
    MaxLog,       \* bound: messages in the partition
    MaxFaults     \* bound: faults (crash, rebalance, lost reply, failed call) per behaviour

ASSUME ConsumerAssumption ==
    /\ Malformed \subseteq Events /\ Unmatched \subseteq Events
    /\ Unguarded \subseteq Events /\ Slow \subseteq Events
    /\ MaxAttempts \in Nat \ {0}
    /\ MaxLog \in Nat /\ MaxFaults \in Nat
    /\ "nobody" \notin Members /\ IsFiniteSet(Members)

VARIABLES
    log,        \* the partition
    committed,  \* the group's committed offset: messages 1..committed are done
    owner,      \* the member the coordinator has assigned the partition to
    session,    \* each member's session: none, live, or ending (context cancelled)
    stage,      \* where each member's claim loop is
    pos,        \* the message a member is at
    tries,      \* the handler attempt a member is at
    marked,     \* the offset a member's session has marked
    processed,  \* Redis: the events with a processed marker
    lock,       \* Redis: the events with a processing lock
    effects,    \* per event, how often its handler ran to completion
    dead,       \* per event, how often it reached the dead letter topics
    skipped,    \* the offsets answered "processed" because of a lock alone
    excuses,    \* per event, the faults that can cost one more handling each
    budget      \* faults left

busVars    == <<log, committed, owner>>
memberVars == <<session, stage, pos, tries, marked>>
redisVars  == <<processed, lock>>
ghostVars  == <<skipped, excuses>>
vars       == <<busVars, memberVars, redisVars, effects, dead, ghostVars, budget>>

Sessions == {"none", "live", "ending"}
\* idle: between messages;  check, acquire: the two commands of IsProcessed;
\* work: the handler's body;  mark: MarkProcessed;  undo, drop: Release, to
\* return an error or nil;  failed: the handler returned an error;  half: the
\* first of the two dead letter topics took the event;  done: the message may
\* be committed;  left: ConsumeClaim returned;  down: the process is gone.
Stages   == {"idle", "check", "acquire", "work", "mark", "undo", "drop",
             "failed", "half", "done", "left", "down"}
Holding  == {"work", "mark", "undo", "drop"}

At(m)        == log[pos[m]]
Holds(m, e)  == stage[m] \in Holding /\ At(m) = e
Handling(m)  == stage[m] \in Stages \ {"idle", "left", "down"}
Needed(e)    == e \notin Malformed \cup Unmatched
Handled(e)   == effects[e] > 0 \/ dead[e] > 0
Goto(m, s)   == stage' = [stage EXCEPT ![m] = s]
Fault        == budget > 0 /\ budget' = budget - 1
Inc(f, e)    == [f EXCEPT ![e] = @ + 1]
Upto(n, k)   == IF n > k THEN n ELSE k

\* A call of the handler fails: for free once the session's context is
\* cancelled, at the cost of a fault while it is live.
CallFails(m) ==
    \/ session[m] = "ending" /\ UNCHANGED budget
    \/ session[m] # "ending" /\ Fault

BusOK ==
    /\ log \in Seq(Events)
    /\ committed \in 0..Len(log)
    /\ owner \in Members \cup {"nobody"}

MembersOK ==
    /\ session \in [Members -> Sessions]
    /\ stage \in [Members -> Stages]
    /\ pos \in [Members -> Nat \ {0}]
    /\ tries \in [Members -> 1..MaxAttempts]
    /\ marked \in [Members -> Nat]
    /\ \A m \in Members : marked[m] <= Len(log) /\ (Handling(m) => pos[m] <= Len(log))

StoresOK ==
    /\ processed \subseteq Events /\ lock \subseteq Events
    /\ effects \in [Events -> Nat] /\ dead \in [Events -> Nat]
    /\ skipped \subseteq Nat
    /\ excuses \in [Events -> Nat]
    /\ budget \in 0..MaxFaults

TypeOK == BusOK /\ MembersOK /\ StoresOK

Init ==
    /\ log = <<>> /\ committed = 0 /\ owner = "nobody"
    /\ session = [m \in Members |-> "none"]
    /\ stage = [m \in Members |-> "idle"]
    /\ pos = [m \in Members |-> 1]
    /\ tries = [m \in Members |-> 1]
    /\ marked = [m \in Members |-> 0]
    /\ processed = {} /\ lock = {}
    /\ effects = [e \in Events |-> 0]
    /\ dead = [e \in Events |-> 0]
    /\ skipped = {}
    /\ excuses = [e \in Events |-> 0]
    /\ budget = MaxFaults

-----------------------------------------------------------------------------
(* The broker and the group coordinator (Kafka, Sarama).                   *)

\* A producer publishes; an at-least-once producer may publish one twice.
Produce(e) ==
    /\ Len(log) < MaxLog
    /\ log' = Append(log, e)
    /\ UNCHANGED <<committed, owner, memberVars, redisVars, effects, dead, ghostVars, budget>>

\* The partition goes to a member, which reads on from the committed offset.
Assign(m) ==
    /\ owner = "nobody" /\ session[m] = "none" /\ stage[m] = "idle"
    /\ owner' = m
    /\ session' = [session EXCEPT ![m] = "live"]
    /\ pos' = [pos EXCEPT ![m] = committed + 1]
    /\ marked' = [marked EXCEPT ![m] = committed]
    /\ UNCHANGED <<log, committed, stage, tries, redisVars, effects, dead, ghostVars, budget>>

\* A rebalance, or a graceful shutdown, cancels the session's context.
Revoke(m) ==
    /\ session[m] = "live" /\ Fault
    /\ session' = [session EXCEPT ![m] = "ending"]
    /\ UNCHANGED <<busVars, stage, pos, tries, marked, redisVars, effects, dead, ghostVars>>

\* The coordinator gives up on a member that does not answer in time; the
\* member's handler may still be running, and its commits will be refused.
Kick(m) ==
    /\ owner = m /\ Fault
    /\ owner' = "nobody"
    /\ UNCHANGED <<log, committed, memberVars, redisVars, effects, dead, ghostVars>>

\* The member learns that it lost the partition.
Lapse(m) ==
    /\ session[m] = "live" /\ owner # m
    /\ session' = [session EXCEPT ![m] = "ending"]
    /\ UNCHANGED <<busVars, stage, pos, tries, marked, redisVars, effects, dead, ghostVars, budget>>

\* What an OffsetCommit of member m up to n leaves on the broker: the
\* coordinator refuses the commit of a member it has given up on.
AfterCommit(m, n) == IF owner = m THEN Upto(n, committed) ELSE committed

\* Cleanup: the session ends, and what it marked is committed.
Leave(m) ==
    /\ session[m] = "ending" /\ stage[m] \in {"idle", "left"}
    /\ committed' = AfterCommit(m, marked[m])
    /\ owner' = IF owner = m THEN "nobody" ELSE owner
    /\ session' = [session EXCEPT ![m] = "none"]
    /\ Goto(m, "idle")
    /\ UNCHANGED <<log, pos, tries, marked, redisVars, effects, dead, ghostVars, budget>>

\* The process dies wherever it is; what it held in Redis stays there.
Crash(m) ==
    /\ stage[m] # "down" /\ Fault
    /\ Goto(m, "down")
    /\ session' = [session EXCEPT ![m] = "none"]
    /\ owner' = IF owner = m THEN "nobody" ELSE owner
    /\ excuses' = IF stage[m] = "mark" THEN Inc(excuses, At(m)) ELSE excuses
    /\ UNCHANGED <<log, committed, pos, tries, marked, redisVars, effects, dead, skipped>>

Restart(m) ==
    /\ stage[m] = "down"
    /\ Goto(m, "idle")
    /\ UNCHANGED <<busVars, session, pos, tries, marked, redisVars, effects, dead, ghostVars, budget>>

-----------------------------------------------------------------------------
(* One message: fetch, run the handler, commit.                            *)

\* Where the handler starts; a nil guard lets every event through.
Entry(m) == IF At(m) \in Unguarded THEN "work" ELSE "check"

\* ConsumeClaim takes the next message; one that does not unmarshal is
\* marked and committed unhandled.
Fetch(m) ==
    /\ session[m] # "none" /\ stage[m] = "idle" /\ pos[m] <= Len(log)
    /\ Goto(m, IF At(m) \in Malformed THEN "done" ELSE Entry(m))
    /\ tries' = [tries EXCEPT ![m] = 1]
    /\ UNCHANGED <<busVars, session, pos, marked, redisVars, effects, dead, ghostVars, budget>>

\* Mutant of Check: the durable marker is not looked at.
CheckLockOnly(m) ==
    /\ session[m] = "live" /\ stage[m] = "check"
    /\ Goto(m, "acquire")
    /\ UNCHANGED <<busVars, session, pos, tries, marked, redisVars, effects, dead, ghostVars, budget>>

\* IsProcessed, first command: EXISTS on the processed marker.
Check(m) ==
    /\ session[m] = "live" /\ stage[m] = "check"
    /\ Goto(m, IF At(m) \in processed THEN "done" ELSE "acquire")
    /\ UNCHANGED <<busVars, session, pos, tries, marked, redisVars, effects, dead, ghostVars, budget>>

\* Mutant of Acquire: the reply of SETNX is not looked at.
AcquireAlways(m) ==
    /\ session[m] = "live" /\ stage[m] = "acquire"
    /\ lock' = lock \cup {At(m)}
    /\ Goto(m, "work")
    /\ UNCHANGED <<busVars, session, pos, tries, marked, processed, effects, dead, ghostVars, budget>>

\* IsProcessed, second command: SETNX on the processing lock.  A lock that is
\* already there is reported as "processed", and the handler returns nil.
Acquire(m) ==
    /\ session[m] = "live" /\ stage[m] = "acquire"
    /\ \/ /\ At(m) \notin lock
          /\ lock' = lock \cup {At(m)}
          /\ Goto(m, "work")
          /\ UNCHANGED skipped
       \/ /\ At(m) \in lock
          /\ skipped' = skipped \cup {pos[m]}
          /\ Goto(m, "done")
          /\ UNCHANGED lock
    /\ UNCHANGED <<busVars, session, pos, tries, marked, processed, effects, dead, excuses, budget>>

\* Either command fails; a SETNX whose reply is lost leaves the lock behind.
LookupFails(m) ==
    /\ stage[m] \in {"check", "acquire"} /\ CallFails(m)
    /\ \/ UNCHANGED lock
       \/ stage[m] = "acquire" /\ session[m] = "live" /\ lock' = lock \cup {At(m)}
    /\ Goto(m, "failed")
    /\ UNCHANGED <<busVars, session, pos, tries, marked, processed, effects, dead, ghostVars>>

\* The body runs to completion.
Succeed(m) ==
    /\ session[m] = "live" /\ stage[m] = "work" /\ At(m) \notin Unmatched
    /\ effects' = Inc(effects, At(m))
    /\ Goto(m, IF At(m) \in Unguarded THEN "done" ELSE "mark")
    /\ UNCHANGED <<busVars, session, pos, tries, marked, redisVars, dead, ghostVars, budget>>

\* No rule matches: the lock is released and nil returned.
NoMatch(m) ==
    /\ stage[m] = "work" /\ At(m) \in Unmatched
    /\ Goto(m, IF At(m) \in Unguarded THEN "done" ELSE "drop")
    /\ UNCHANGED <<busVars, session, pos, tries, marked, redisVars, effects, dead, ghostVars, budget>>

\* The body fails: the lock is released and the error returned.
BodyFails(m) ==
    /\ stage[m] = "work" /\ At(m) \notin Unmatched
    /\ Goto(m, IF At(m) \in Unguarded THEN "failed" ELSE "undo")
    /\ UNCHANGED <<busVars, session, pos, tries, marked, redisVars, effects, dead, ghostVars, budget>>

\* The members that have looked for e's marker and not yet for its lock.
Between(e) == {k \in Members : stage[k] = "acquire" /\ At(k) = e}

\* MarkProcessed: marker set and lock deleted in one transaction.
MarkProcessed(m) ==
    /\ session[m] = "live" /\ stage[m] = "mark"
    /\ processed' = processed \cup {At(m)}
    /\ lock' = lock \ {At(m)}
    /\ excuses' = [excuses EXCEPT ![At(m)] = @ + Cardinality(Between(At(m)))]
    /\ Goto(m, "done")
    /\ UNCHANGED <<busVars, session, pos, tries, marked, effects, dead, skipped, budget>>

\* MarkProcessed fails: the handler returns the error, its lock still held.
MarkFails(m) ==
    /\ stage[m] = "mark" /\ CallFails(m)
    /\ excuses' = Inc(excuses, At(m))
    /\ Goto(m, "failed")
    /\ UNCHANGED <<busVars, session, pos, tries, marked, redisVars, effects, dead, skipped>>

\* Where the handler goes after Release.
AfterRelease(m) == IF stage[m] = "drop" THEN "done" ELSE "failed"

Release(m) ==
    /\ session[m] = "live" /\ stage[m] \in {"undo", "drop"}
    /\ lock' = lock \ {At(m)}
    /\ Goto(m, AfterRelease(m))
    /\ UNCHANGED <<busVars, session, pos, tries, marked, processed, effects, dead, ghostVars, budget>>

\* Release fails and its error is dropped: the lock stays until it expires.
ReleaseFails(m) ==
    /\ stage[m] \in {"undo", "drop"} /\ CallFails(m)
    /\ Goto(m, AfterRelease(m))
    /\ UNCHANGED <<busVars, session, pos, tries, marked, redisVars, effects, dead, ghostVars>>

\* The processing lock's TTL runs out.
LockExpires(e) ==
    /\ e \in lock
    /\ lock' = lock \ {e}
    /\ IF \E m \in Members : Holds(m, e)
       THEN e \in Slow /\ Fault /\ excuses' = Inc(excuses, e)
       ELSE UNCHANGED <<excuses, budget>>
    /\ UNCHANGED <<busVars, memberVars, processed, effects, dead, skipped>>

\* Mutant of Retry: the attempt is not counted.
RetryUncounted(m) ==
    /\ stage[m] = "failed" /\ tries[m] < MaxAttempts /\ session[m] = "live"
    /\ Goto(m, Entry(m))
    /\ UNCHANGED <<busVars, session, pos, tries, marked, redisVars, effects, dead, ghostVars, budget>>

\* Mutant of Retry: one attempt too many.
RetryOnceMore(m) ==
    /\ stage[m] = "failed" /\ tries[m] <= MaxAttempts /\ session[m] = "live"
    /\ tries' = [tries EXCEPT ![m] = @ + 1]
    /\ Goto(m, Entry(m))
    /\ UNCHANGED <<busVars, session, pos, marked, redisVars, effects, dead, ghostVars, budget>>

\* processWithRetry: the next attempt, after a delay the session survived.
Retry(m) ==
    /\ stage[m] = "failed" /\ tries[m] < MaxAttempts /\ session[m] = "live"
    /\ tries' = [tries EXCEPT ![m] = @ + 1]
    /\ Goto(m, Entry(m))
    /\ UNCHANGED <<busVars, session, pos, marked, redisVars, effects, dead, ghostVars, budget>>

\* publishToDLQ: the topic's own dead letter topic first, then the shared one.
DeadLetter(m) ==
    /\ \/ /\ stage[m] = "failed" /\ tries[m] = MaxAttempts
          /\ dead' = Inc(dead, At(m))
          /\ Goto(m, "half")
       \/ /\ stage[m] = "half"
          /\ Goto(m, "done")
          /\ UNCHANGED dead
    /\ UNCHANGED <<busVars, session, pos, tries, marked, redisVars, effects, ghostVars, budget>>

\* The message is not disposed of: it stays unmarked, and ConsumeClaim returns,
\* which ends the session.
Block(m) ==
    /\ Goto(m, "left")
    /\ session' = [session EXCEPT ![m] = "ending"]
    /\ UNCHANGED <<busVars, pos, tries, marked, redisVars, effects, dead, ghostVars>>

\* Mutant of DeadLetterFails: the message is committed all the same.
DeadLetterErrorDropped(m) ==
    /\ stage[m] = "half" \/ (stage[m] = "failed" /\ tries[m] = MaxAttempts)
    /\ Fault
    /\ Goto(m, "done")
    /\ UNCHANGED <<busVars, session, pos, tries, marked, redisVars, effects, dead, ghostVars>>

\* A dead letter publish fails (or, alike, no producer is configured).
DeadLetterFails(m) ==
    /\ stage[m] = "half" \/ (stage[m] = "failed" /\ tries[m] = MaxAttempts)
    /\ Fault
    /\ Block(m)

\* Mutant of GiveUp: a shutdown counts as a disposition.
GiveUpAndCommit(m) ==
    /\ stage[m] = "failed" /\ tries[m] < MaxAttempts /\ session[m] = "ending"
    /\ Goto(m, "done")
    /\ UNCHANGED <<busVars, session, pos, tries, marked, redisVars, effects, dead, ghostVars, budget>>

\* The session ends during the delay: no dead letter, no commit.
GiveUp(m) ==
    /\ stage[m] = "failed" /\ tries[m] < MaxAttempts /\ session[m] = "ending"
    /\ UNCHANGED budget
    /\ Block(m)

\* MarkMessage and Commit; a commit may be lost, the mark stays in the session.
Commit(m) ==
    /\ stage[m] = "done"
    /\ marked' = [marked EXCEPT ![m] = pos[m]]
    /\ pos' = [pos EXCEPT ![m] = @ + 1]
    /\ \/ committed' = AfterCommit(m, pos[m]) /\ UNCHANGED budget
       \/ UNCHANGED committed /\ Fault
    /\ Goto(m, "idle")
    /\ UNCHANGED <<log, owner, session, tries, redisVars, effects, dead, ghostVars>>

-----------------------------------------------------------------------------
Handle(m) ==
    \/ Check(m) \/ Acquire(m) \/ LookupFails(m)
    \/ Succeed(m) \/ NoMatch(m) \/ BodyFails(m)
    \/ MarkProcessed(m) \/ MarkFails(m) \/ Release(m) \/ ReleaseFails(m)

Dispose(m) == Retry(m) \/ DeadLetter(m) \/ DeadLetterFails(m) \/ GiveUp(m) \/ Commit(m)

Broker(m) == Assign(m) \/ Revoke(m) \/ Kick(m) \/ Lapse(m) \/ Leave(m)

Next ==
    \/ \E e \in Events : Produce(e) \/ LockExpires(e)
    \/ \E m \in Members :
        Broker(m) \/ Crash(m) \/ Restart(m) \/ Fetch(m) \/ Handle(m) \/ Dispose(m)

Spec == Init /\ [][Next]_vars

\* A running member keeps working, the coordinator keeps the partition
\* assigned, and a dead process is restarted.  Nothing forces a fault, a
\* new message or the expiry of a lock.
Fairness ==
    /\ WF_vars(\E m \in Members : Assign(m))
    /\ \A m \in Members :
        /\ WF_vars(Fetch(m) \/ Handle(m) \/ Dispose(m))
        /\ WF_vars(Lapse(m)) /\ WF_vars(Leave(m)) /\ WF_vars(Restart(m))

FairSpec == Spec /\ Fairness

-----------------------------------------------------------------------------
(* Properties.                                                             *)

\* At-least-once: the committed offset passes a message the handler is meant
\* to see only after the handler ran to completion for it, or the event is in
\* a dead letter topic (consumer.go, "without dropping the event").
AtLeastOnce ==
    \A n \in 1..committed : Needed(log[n]) => Handled(log[n])

\* The only way past the handler is the guard's processing lock: a committed
\* message whose event was neither handled nor dead-lettered was answered
\* "processed" because of a lock alone (IsProcessed); without a guard there is
\* no such message.
LossOnlyByLock ==
    \A n \in 1..committed : Needed(log[n]) =>
        Handled(log[n]) \/ (n \in skipped /\ log[n] \notin Unguarded)

\* With the guard, an event is handled again only when its marker was lost
\* after the handler had run, its lock expired under a running handler, or a
\* handler had looked for the marker before it was set and for the lock after
\* it was deleted: never because the bus or the broker delivered it twice.
RepeatsExplained ==
    \A e \in Events \ Unguarded : effects[e] <= 1 + excuses[e]

\* Two handlers never run for one event at once: SETNX admits one, and only
\* the one it admitted deletes the lock (for events whose handler never
\* outlives the lock's TTL).
GuardExcludes ==
    \A m, k \in Members : \A e \in Events \ (Unguarded \cup Slow) :
        Holds(m, e) /\ Holds(k, e) => m = k

\* Every message is eventually disposed of, that is committed, or marked in the
\* session of the partition's owner (a commit that was lost is repeated with
\* the next message or by Cleanup): a handler that keeps failing ends in the
\* dead letter topic and does not stop the partition.
EveryMessageDisposed ==
    \A n \in 1..MaxLog :
        Len(log) >= n ~> committed >= n \/ \E m \in Members : owner = m /\ marked[m] >= n
=============================================================================
