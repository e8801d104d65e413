----------------------------- MODULE OutboxRelay -----------------------------
(***************************************************************************)
(* The transactional outbox of backend/internal/events/outbox: services    *)
(* stage events in the event_outbox table inside their business            *)
(* transaction, and relays (one per service replica, all on one table)     *)
(* claim due rows, publish them to the bus and record the outcome.         *)
(*                                                                         *)
(* What is abstracted: payloads (an event is a model value; Poison holds   *)
(* those whose payload does not deserialise), clock values (a row is due   *)
(* or not, a claim is older than ClaimTimeout or not), metrics and logs.   *)
(* What is kept: every SQL statement as one atomic step with its WHERE     *)
(* clause, the steps between them, and every way one of them can fail.     *)
(***************************************************************************)
EXTENDS Integers, Sequences, FiniteSets

CONSTANTS
    Events,       \* the events services may stage
    Relays,       \* the relay instances polling the same table
    Poison,       \* the events whose payload does not deserialise
    BatchSize,    \* Config.BatchSize
    MaxAttempts,  \* Config.MaxAttempts
    MaxFaults     \* bound: faults (crash, lost ack, failed write, slow relay) per behaviour

ASSUME OutboxAssumption ==
    /\ Poison \subseteq Events
    /\ BatchSize \in Nat \ {0}
    /\ MaxAttempts \in Nat \ {0}
    /\ MaxFaults \in Nat

VARIABLES
    status,    \* the row's status column, or "unwritten" / "purged" when there is no row
    attempts,  \* the row's attempts column
    created,   \* the row's created_at: the transaction that staged it, 0 before
    due,       \* next_attempt_at <= now()
    aged,      \* claimed_at < now() - ClaimTimeout
    written,   \* the events in the order the services wrote them
    phase,     \* where each relay's goroutine is
    batch,     \* the claimed rows a relay has still to process
    cur,       \* the row a relay is processing
    bus,       \* the events the bus has accepted, in order
    faults,    \* per event, the faults that can cost one redelivery each
    budget,    \* faults left
    overrun    \* has a live relay ever held a row longer than ClaimTimeout?

rowVars   == <<status, attempts, created, due, aged, written>>
relayVars == <<phase, batch, cur>>
faultVars == <<faults, budget, overrun>>
vars      == <<rowVars, relayVars, bus, faultVars>>

Statuses == {"unwritten", "pending", "publishing", "published", "failed", "purged"}
Phases   == {"ready", "sent", "refused", "poison", "down"}

\* A claimed row as the relay sees it: RETURNING copies attempts at claim time.
Claims  == [event : Events, attempts : Nat]
NoClaim == [event |-> "none", attempts |-> 0]

Hold(r)    == batch[r] \cup (IF cur[r] = NoClaim THEN {} ELSE {cur[r]})
HeldBy(e)  == {r \in Relays : \E c \in Hold(r) : c.event = e}
Elements(s)  == {s[i] : i \in 1..Len(s)}
InBus(e)     == e \in Elements(bus)
RowExists(e) == status[e] \notin {"unwritten", "purged"}

\* Mutant of DueRows: the claim's status filter lets claimed rows through.
DueRowsAlsoClaimed == {e \in Events : status[e] \in {"pending", "publishing"} /\ due[e]}

DueRows == {e \in Events : status[e] = "pending" /\ due[e]}

RowsOK ==
    /\ status \in [Events -> Statuses]
    /\ attempts \in [Events -> Nat]
    /\ created \in [Events -> Nat]
    /\ due \in [Events -> BOOLEAN]
    /\ aged \in [Events -> BOOLEAN]

RelaysOK ==
    /\ phase \in [Relays -> Phases]
    /\ batch \in [Relays -> SUBSET Claims]
    /\ cur \in [Relays -> Claims \cup {NoClaim}]

HistoryOK == written \in Seq(Events) /\ bus \in Seq(Events)

FaultsOK == faults \in [Events -> Nat] /\ budget \in 0..MaxFaults /\ overrun \in BOOLEAN

TypeOK == RowsOK /\ RelaysOK /\ HistoryOK /\ FaultsOK

Init ==
    /\ status = [e \in Events |-> "unwritten"]
    /\ attempts = [e \in Events |-> 0]
    /\ created = [e \in Events |-> 0]
    /\ due = [e \in Events |-> FALSE]
    /\ aged = [e \in Events |-> FALSE]
    /\ written = <<>>
    /\ phase = [r \in Relays |-> "ready"]
    /\ batch = [r \in Relays |-> {}]
    /\ cur = [r \in Relays |-> NoClaim]
    /\ bus = <<>>
    /\ faults = [e \in Events |-> 0]
    /\ budget = MaxFaults
    /\ overrun = FALSE

-----------------------------------------------------------------------------
(* Writers.                                                                *)

\* Write / WriteBatch, committed: every row of one transaction gets the same
\* created_at (DEFAULT now() is the transaction's timestamp).  A transaction
\* that rolls back leaves no trace.
WriteBatch(es) ==
    /\ \A e \in Elements(es) : status[e] = "unwritten"
    /\ status' = [e \in Events |-> IF e \in Elements(es) THEN "pending" ELSE status[e]]
    /\ due' = [e \in Events |-> IF e \in Elements(es) THEN TRUE ELSE due[e]]
    /\ created' = [e \in Events |-> IF e \in Elements(es) THEN Len(written) + 1 ELSE created[e]]
    /\ written' = written \o es
    /\ UNCHANGED <<attempts, aged, relayVars, bus, faultVars>>

-----------------------------------------------------------------------------
(* One relay pass: claim a batch, then publish and record row by row.      *)

\* The claim statement: the oldest due pending rows, at most BatchSize, each
\* flipped to publishing; rows of one transaction tie and tie-break freely.
Claim(r) ==
    /\ phase[r] = "ready" /\ batch[r] = {}
    /\ \E rows \in SUBSET DueRows :
        /\ rows # {}
        /\ Cardinality(rows) <= BatchSize
        /\ rows # DueRows => Cardinality(rows) = BatchSize
        /\ \A e \in rows, f \in DueRows \ rows : created[e] <= created[f]
        /\ status' = [e \in Events |-> IF e \in rows THEN "publishing" ELSE status[e]]
        /\ attempts' = [e \in Events |-> IF e \in rows THEN attempts[e] + 1 ELSE attempts[e]]
        /\ aged' = [e \in Events |-> IF e \in rows THEN FALSE ELSE aged[e]]
        /\ batch' = [batch EXCEPT ![r] = {[event |-> e, attempts |-> attempts[e] + 1] : e \in rows}]
    /\ UNCHANGED <<created, due, written, phase, cur, bus, faultVars>>

\* The relay takes the next row of its batch and reaches phase p with it.
Take(r, c, p) ==
    /\ phase[r] = "ready" /\ c \in batch[r]
    /\ batch' = [batch EXCEPT ![r] = @ \ {c}]
    /\ cur' = [cur EXCEPT ![r] = c]
    /\ phase' = [phase EXCEPT ![r] = p]

\* The payload does not deserialise: the row will be parked without a publish.
Unreadable(r, c) ==
    /\ c.event \in Poison
    /\ Take(r, c, "poison")
    /\ UNCHANGED <<rowVars, bus, faultVars>>

\* The bus accepts the event and the relay learns of it.
PublishAcked(r, c) ==
    /\ c.event \notin Poison
    /\ Take(r, c, "sent")
    /\ bus' = Append(bus, c.event)
    /\ UNCHANGED <<rowVars, faultVars>>

\* Mutant of PublishRefused: the error of Publish is dropped.
PublishErrorDropped(r, c) ==
    /\ c.event \notin Poison
    /\ Take(r, c, "sent")
    /\ UNCHANGED <<rowVars, bus, faultVars>>

\* The publish fails and the bus has nothing.
PublishRefused(r, c) ==
    /\ c.event \notin Poison
    /\ Take(r, c, "refused")
    /\ UNCHANGED <<rowVars, bus, faultVars>>

\* The publish reports an error although the bus accepted the event.
PublishAckLost(r, c) ==
    /\ c.event \notin Poison /\ budget > 0
    /\ Take(r, c, "refused")
    /\ bus' = Append(bus, c.event)
    /\ budget' = budget - 1
    /\ faults' = [faults EXCEPT ![c.event] = @ + 1]
    /\ UNCHANGED <<rowVars, overrun>>

Publish(r) ==
    \E c \in batch[r] : Unreadable(r, c) \/ PublishAcked(r, c) \/ PublishRefused(r, c) \/ PublishAckLost(r, c)

\* Mutant of SetStatus: an upsert, which brings back a purged row.
SetStatusUpsert(e, s) == status' = [status EXCEPT ![e] = s]

\* An outcome statement is UPDATE ... WHERE id = $1: it neither looks at the
\* row's status nor at who claimed it, and touches nothing when the row is gone.
SetStatus(e, s) == status' = [status EXCEPT ![e] = IF RowExists(e) THEN s ELSE @]

Done(r) ==
    /\ phase' = [phase EXCEPT ![r] = "ready"]
    /\ cur' = [cur EXCEPT ![r] = NoClaim]
    /\ UNCHANGED <<attempts, created, written, batch, bus>>

\* Mutant of MarkPublished: it writes a status the table's CHECK rejects.
MarkSent(r) ==
    /\ phase[r] = "sent"
    /\ SetStatus(cur[r].event, "sent")
    /\ Done(r)
    /\ UNCHANGED <<due, aged, faultVars>>

MarkPublished(r) ==
    /\ phase[r] = "sent"
    /\ SetStatus(cur[r].event, "published")
    /\ Done(r)
    /\ UNCHANGED <<due, aged, faultVars>>

ScheduleRetry(r) ==
    /\ phase[r] = "refused" /\ cur[r].attempts < MaxAttempts
    /\ SetStatus(cur[r].event, "pending")
    /\ due' = [due EXCEPT ![cur[r].event] = FALSE]
    /\ aged' = [aged EXCEPT ![cur[r].event] = FALSE]
    /\ Done(r)
    /\ UNCHANGED faultVars

\* Mutant of Fail: the attempt limit is off by one.
FailOneEarly(r) ==
    /\ \/ phase[r] = "refused" /\ cur[r].attempts >= MaxAttempts - 1
       \/ phase[r] = "poison"
    /\ SetStatus(cur[r].event, "failed")
    /\ aged' = [aged EXCEPT ![cur[r].event] = FALSE]
    /\ Done(r)
    /\ UNCHANGED <<due, faultVars>>

Fail(r) ==
    /\ \/ phase[r] = "refused" /\ cur[r].attempts >= MaxAttempts
       \/ phase[r] = "poison"
    /\ SetStatus(cur[r].event, "failed")
    /\ aged' = [aged EXCEPT ![cur[r].event] = FALSE]
    /\ Done(r)
    /\ UNCHANGED <<due, faultVars>>

Record(r) == MarkPublished(r) \/ ScheduleRetry(r) \/ Fail(r)

\* The outcome statement fails: the row stays as it is and the relay moves on.
RecordFails(r) ==
    /\ phase[r] \in {"sent", "refused", "poison"} /\ budget > 0
    /\ budget' = budget - 1
    /\ faults' = [faults EXCEPT ![cur[r].event] = IF phase[r] = "sent" THEN @ + 1 ELSE @]
    /\ Done(r)
    /\ UNCHANGED <<status, due, aged, overrun>>

-----------------------------------------------------------------------------
(* Maintenance, crashes and time.                                          *)

\* Mutants of StuckRows: the age condition is missing, or the status is wrong.
StuckRowsAnyAge == {e \in Events : status[e] = "publishing"}
StuckRowsPending == {e \in Events : status[e] = "pending" /\ aged[e]}

\* What the reap statement selects: publishing rows whose claim is too old.
StuckRows == {e \in Events : status[e] = "publishing" /\ aged[e]}

\* Mutant of ExpiredRows: the purge also deletes rows parked for triage.
ExpiredRowsAndFailed == {e \in Events : status[e] \in {"published", "failed"}}

\* What the purge statement may select, once old enough: published rows.
ExpiredRows == {e \in Events : status[e] = "published"}

\* maintain runs on the relay's own goroutine, so between two batches only.
Idle(r) == phase[r] = "ready" /\ batch[r] = {}

\* ReapStuck: every row whose claim outlived ClaimTimeout returns to pending.
\* Reaping a row a live relay still holds is a fault of that row.
ReapStuck(r) ==
    /\ Idle(r)
    /\ StuckRows # {}
    /\ status' = [e \in Events |-> IF e \in StuckRows THEN "pending" ELSE status[e]]
    /\ due' = [e \in Events |-> IF e \in StuckRows THEN TRUE ELSE due[e]]
    /\ aged' = [e \in Events |-> IF e \in StuckRows THEN FALSE ELSE aged[e]]
    /\ faults' = [e \in Events |-> IF e \in StuckRows /\ HeldBy(e) # {} THEN faults[e] + 1 ELSE faults[e]]
    /\ UNCHANGED <<attempts, created, written, relayVars, bus, budget, overrun>>

\* PurgePublished: published rows older than RetentionPeriod are deleted.
PurgePublished(r) ==
    /\ Idle(r)
    /\ \E old \in SUBSET ExpiredRows :
        /\ old # {}
        /\ status' = [e \in Events |-> IF e \in old THEN "purged" ELSE status[e]]
    /\ UNCHANGED <<attempts, created, due, aged, written, relayVars, bus, faultVars>>

\* Shutdown between two rows, or a crash anywhere: the batch is abandoned.
Stop(r) ==
    /\ phase[r] # "down" /\ budget > 0
    /\ budget' = budget - 1
    /\ faults' = IF phase[r] = "sent" THEN [faults EXCEPT ![cur[r].event] = @ + 1] ELSE faults
    /\ phase' = [phase EXCEPT ![r] = "down"]
    /\ batch' = [batch EXCEPT ![r] = {}]
    /\ cur' = [cur EXCEPT ![r] = NoClaim]
    /\ UNCHANGED <<rowVars, bus, overrun>>

Restart(r) ==
    /\ phase[r] = "down"
    /\ phase' = [phase EXCEPT ![r] = "ready"]
    /\ UNCHANGED <<rowVars, batch, cur, bus, faultVars>>

\* The backoff of a row to retry elapses.
BackoffElapses(e) ==
    /\ status[e] = "pending" /\ ~due[e]
    /\ due' = [due EXCEPT ![e] = TRUE]
    /\ UNCHANGED <<status, attempts, created, aged, written, relayVars, bus, faultVars>>

\* A claim becomes older than ClaimTimeout.  A live holder may be that slow:
\* a batch is processed serially, and the producer ignores the publish context.
ClaimAges(e) ==
    /\ status[e] = "publishing" /\ ~aged[e]
    /\ \/ HeldBy(e) = {} /\ UNCHANGED <<budget, overrun>>
       \/ HeldBy(e) # {} /\ budget > 0 /\ budget' = budget - 1 /\ overrun' = TRUE
    /\ aged' = [aged EXCEPT ![e] = TRUE]
    /\ UNCHANGED <<status, attempts, created, due, written, relayVars, bus, faults>>

-----------------------------------------------------------------------------
\* The batches a transaction may stage: sequences of distinct events.
Batches == UNION {{es \in [1..n -> Events] : \A i, j \in 1..n : es[i] = es[j] => i = j} : n \in 1..2}

RelayStep(r) ==
    Claim(r) \/ Publish(r) \/ Record(r) \/ RecordFails(r) \/ ReapStuck(r) \/ PurgePublished(r) \/ Stop(r) \/ Restart(r)

Next ==
    \/ \E es \in Batches : WriteBatch(es)
    \/ \E r \in Relays : RelayStep(r)
    \/ \E e \in Events : BackoffElapses(e) \/ ClaimAges(e)

Spec == Init /\ [][Next]_vars

\* Run's select serves the poll and the maintenance ticker, a stopped relay is
\* restarted by its supervisor, and clocks advance.
Fairness ==
    /\ \A r \in Relays :
        /\ WF_vars(Claim(r)) /\ WF_vars(Publish(r)) /\ WF_vars(Record(r))
        /\ WF_vars(ReapStuck(r)) /\ WF_vars(Restart(r))
    /\ \A e \in Events : WF_vars(BackoffElapses(e)) /\ WF_vars(ClaimAges(e))

FairSpec == Spec /\ Fairness

-----------------------------------------------------------------------------
(* The promise the relays keep.                                            *)

\* Where an event is, as its writer sees it.
Place(e) ==
    CASE status[e] = "unwritten" -> "unstaged"
      [] status[e] = "failed"    -> "parked"
      [] status[e] = "purged"    -> "gone"
      [] OTHER                   -> "open"

Promise == INSTANCE EventDelivery WITH place <- [e \in Events |-> Place(e)], log <- bus

-----------------------------------------------------------------------------
(* Properties.                                                             *)

\* The relays, with every crash, stall and overwritten outcome, implement the
\* delivery the package promises: nothing leaves the outbox before the bus has
\* it, nothing else reaches the bus, and no event waits for ever.
KeepsPromise == Promise!Spec

Sent(e) == Cardinality({i \in 1..Len(bus) : bus[i] = e})

\* No event is lost: a row is marked published, and later purged, only if the
\* bus has accepted the event, whatever relays crash, stall or overwrite.
NoEventLost == \A e \in Events : status[e] \in {"published", "purged"} => InBus(e)

\* A row is parked as failed only when its payload is unreadable or its
\* attempts are used up, even when a relay that lost its claim records it.
ParkedOnlyWhenExhausted ==
    \A e \in Events : status[e] = "failed" => e \in Poison \/ attempts[e] >= MaxAttempts

\* Every redelivery has a cause: the bus sees an event at most once more than
\* the lost acks, unrecorded publishes and reaped live claims it suffered.
DuplicatesExplained == \A e \in Events : Sent(e) <= 1 + faults[e]

\* While no live relay has outlived ClaimTimeout, no two relays hold the same
\* row (the comment on type Relay).
SingleHolder ==
    ~overrun => \A r, s \in Relays : r # s => \A c \in Hold(r), d \in Hold(s) : c.event # d.event

\* While no live relay has outlived ClaimTimeout, an outcome is final: a
\* published row is only ever purged and a failed row never moves again.
OutcomeIsFinal ==
    [][~overrun' =>
        \A e \in Events :
            /\ status[e] = "published" => status'[e] \in {"published", "purged"}
            /\ status[e] = "failed" => status'[e] = "failed"]_vars

\* Every staged event comes to rest: from some point on its row is published,
\* purged or parked, no matter which relays crash, stall or fail on the way.
EverySettles ==
    \A e \in Events :
        status[e] # "unwritten" ~> [](status[e] \in {"published", "purged", "failed"})
=============================================================================
