-------------------------- MODULE OutboxRelayProofs --------------------------
(***************************************************************************)
(* Proofs about OutboxRelay, for every set of events and relays, every     *)
(* batch size, attempt limit and number of faults.                         *)
(***************************************************************************)
EXTENDS OutboxRelay, FiniteSetTheorems, TLAPS

USE DEF rowVars, relayVars, faultVars

\* Counting one more fault of an event keeps the counters in their types.
LEMMA MoreFaults ==
    ASSUME FaultsOK, NEW e
    PROVE  /\ [faults EXCEPT ![e] = @ + 1] \in [Events -> Nat]
           /\ budget > 0 => budget - 1 \in 0..MaxFaults
<1>1. \A f \in Events : faults[f] + 1 \in Nat
  BY DEF FaultsOK
<1>2. [faults EXCEPT ![e] = @ + 1] = [f \in Events |-> IF f = e THEN faults[e] + 1 ELSE faults[f]]
  BY DEF FaultsOK
<1>3. \A f \in Events : (IF f = e THEN faults[e] + 1 ELSE faults[f]) \in Nat
  BY <1>1 DEF FaultsOK
<1>4. [faults EXCEPT ![e] = @ + 1] \in [Events -> Nat]
  BY <1>2, <1>3
<1>5. budget > 0 => budget - 1 \in 0..MaxFaults
  BY OutboxAssumption DEF FaultsOK
<1> QED
  BY <1>4, <1>5

\* Every step keeps every variable in its type.
LEMMA TypeStep ==
    ASSUME TypeOK, [Next]_vars
    PROVE  TypeOK'
<1> USE DEF TypeOK
<1>1. ASSUME NEW es \in Batches, WriteBatch(es)
      PROVE  TypeOK'
  <2>1. es \in Seq(Events)
    <3>1. PICK n \in 1..2 : es \in [1..n -> Events]
      BY DEF Batches
    <3> QED
      BY <3>1
  <2>2. RowsOK'
    <3>1. Len(written) + 1 \in Nat
      BY DEF HistoryOK
    <3> QED
      BY <1>1, <3>1 DEF WriteBatch, RowsOK, Statuses
  <2>3. HistoryOK'
    BY <1>1, <2>1 DEF WriteBatch, HistoryOK
  <2>4. RelaysOK' /\ FaultsOK'
    BY <1>1 DEF WriteBatch, RelaysOK, FaultsOK
  <2> QED
    BY <2>2, <2>3, <2>4
<1>2. ASSUME NEW r \in Relays, RelayStep(r)
      PROVE  TypeOK'
  <2>1. CASE Claim(r)
    <3>1. PICK rows \in SUBSET DueRows :
            /\ status' = [e \in Events |-> IF e \in rows THEN "publishing" ELSE status[e]]
            /\ attempts' = [e \in Events |-> IF e \in rows THEN attempts[e] + 1 ELSE attempts[e]]
            /\ aged' = [e \in Events |-> IF e \in rows THEN FALSE ELSE aged[e]]
            /\ batch' = [batch EXCEPT ![r] = {[event |-> e, attempts |-> attempts[e] + 1] : e \in rows}]
      BY <2>1 DEF Claim
    <3>2. \A e \in rows : [event |-> e, attempts |-> attempts[e] + 1] \in Claims
      BY DEF Claims, DueRows, RowsOK
    <3>3. RelaysOK'
      BY <2>1, <3>1, <3>2 DEF RelaysOK, Claim
    <3>4. RowsOK'
      <4>1. \A e \in Events : attempts[e] + 1 \in Nat
        BY DEF RowsOK
      <4> QED
        BY <2>1, <3>1, <4>1 DEF RowsOK, Claim, Statuses
    <3>5. HistoryOK' /\ FaultsOK'
      BY <2>1 DEF HistoryOK, FaultsOK, Claim
    <3> QED
      BY <3>3, <3>4, <3>5
  <2>2. CASE Publish(r)
    <3> SUFFICES ASSUME NEW c \in batch[r],
                        Unreadable(r, c) \/ PublishAcked(r, c) \/ PublishRefused(r, c) \/ PublishAckLost(r, c)
                 PROVE  TypeOK'
      BY <2>2 DEF Publish
    <3>1. c \in Claims /\ c.event \in Events
      BY DEF Claims, RelaysOK
    <3>2. \A p \in Phases : Take(r, c, p) => RelaysOK'
      BY <3>1 DEF Take, RelaysOK
    <3>3. Append(bus, c.event) \in Seq(Events)
      BY <3>1 DEF HistoryOK
    <3>4. CASE Unreadable(r, c)
      BY <3>2, <3>4 DEF Unreadable, RowsOK, HistoryOK, FaultsOK, Phases
    <3>5. CASE PublishAcked(r, c)
      BY <3>2, <3>3, <3>5 DEF PublishAcked, RowsOK, HistoryOK, FaultsOK, Phases
    <3>6. CASE PublishRefused(r, c)
      BY <3>2, <3>6 DEF PublishRefused, RowsOK, HistoryOK, FaultsOK, Phases
    <3>7. CASE PublishAckLost(r, c)
      <4>1. FaultsOK'
        BY <3>1, <3>7, OutboxAssumption DEF PublishAckLost, FaultsOK
      <4> QED
        BY <3>2, <3>3, <3>7, <4>1 DEF PublishAckLost, RowsOK, HistoryOK, Phases
    <3> QED
      BY <3>4, <3>5, <3>6, <3>7
  <2>3. CASE MarkPublished(r)
    BY <2>3 DEF MarkPublished, SetStatus, Done, RowsOK, RelaysOK, HistoryOK, FaultsOK, Statuses, Phases
  <2>4. CASE ScheduleRetry(r)
    BY <2>4 DEF ScheduleRetry, SetStatus, Done, RowsOK, RelaysOK, HistoryOK, FaultsOK, Statuses, Phases
  <2>5. CASE Fail(r)
    BY <2>5 DEF Fail, SetStatus, Done, RowsOK, RelaysOK, HistoryOK, FaultsOK, Statuses, Phases
  <2>6. CASE RecordFails(r)
    <3>1. FaultsOK'
      BY <2>6, MoreFaults, OutboxAssumption DEF RecordFails, FaultsOK
    <3> QED
      BY <2>6, <3>1 DEF RecordFails, Done, RowsOK, RelaysOK, HistoryOK, Phases
  <2>7. CASE ReapStuck(r)
    <3>1. FaultsOK'
      BY <2>7 DEF ReapStuck, FaultsOK
    <3> QED
      BY <2>7, <3>1 DEF ReapStuck, RowsOK, RelaysOK, HistoryOK, Statuses
  <2>8. CASE PurgePublished(r)
    BY <2>8 DEF PurgePublished, RowsOK, RelaysOK, HistoryOK, FaultsOK, Statuses
  <2>9. CASE Stop(r)
    <3>1. FaultsOK'
      BY <2>9, MoreFaults, OutboxAssumption DEF Stop, FaultsOK
    <3> QED
      BY <2>9, <3>1 DEF Stop, RowsOK, RelaysOK, HistoryOK, Phases
  <2>10. CASE Restart(r)
    BY <2>10 DEF Restart, RowsOK, RelaysOK, HistoryOK, FaultsOK, Phases
  <2> QED
    BY <1>2, <2>1, <2>2, <2>3, <2>4, <2>5, <2>6, <2>7, <2>8, <2>9, <2>10 DEF RelayStep, Record
<1>3. ASSUME NEW e \in Events, BackoffElapses(e)
      PROVE  TypeOK'
  BY <1>3 DEF BackoffElapses, RowsOK, RelaysOK, HistoryOK, FaultsOK
<1>4. ASSUME NEW e \in Events, ClaimAges(e)
      PROVE  TypeOK'
  <2>1. budget' \in 0..MaxFaults /\ faults' = faults
    BY <1>4, OutboxAssumption DEF ClaimAges, FaultsOK
  <2>2. overrun' \in BOOLEAN
    BY <1>4, Zenon DEF ClaimAges, FaultsOK
  <2>3. FaultsOK'
    BY <2>1, <2>2 DEF FaultsOK
  <2> QED
    BY <1>4, <2>3 DEF ClaimAges, RowsOK, RelaysOK, HistoryOK
<1>5. CASE UNCHANGED vars
  BY <1>5 DEF vars, RowsOK, RelaysOK, HistoryOK, FaultsOK
<1> QED
  BY <1>1, <1>2, <1>3, <1>4, <1>5 DEF Next

\* Every variable stays in its type.
THEOREM TypeCorrect == Spec => []TypeOK
<1>1. ASSUME Init
      PROVE  TypeOK
  <2>1. RowsOK /\ RelaysOK /\ HistoryOK
    BY <1>1 DEF Init, RowsOK, RelaysOK, HistoryOK, Statuses, Phases
  <2>2. budget \in 0..MaxFaults /\ faults \in [Events -> Nat]
    BY <1>1, OutboxAssumption DEF Init
  <2>3. overrun \in BOOLEAN
    BY <1>1, Zenon DEF Init
  <2> QED
    BY <2>1, <2>2, <2>3 DEF TypeOK, FaultsOK
<1>2. TypeOK /\ [Next]_vars => TypeOK'
  BY TypeStep
<1> QED
  BY <1>1, <1>2, PTL DEF Spec

-----------------------------------------------------------------------------
(***************************************************************************)
(* No event is lost.  A relay that is about to mark a row published has    *)
(* seen the bus accept the event; the bus forgets nothing.                 *)
(***************************************************************************)
SentIsInBus == \A r \in Relays : phase[r] = "sent" => InBus(cur[r].event)

\* What the bus has accepted stays accepted.
LEMMA BusGrows ==
    ASSUME TypeOK, [Next]_vars
    PROVE  \A e : InBus(e) => InBus(e)'
<1> USE DEF InBus, Elements
<1>1. CASE bus' = bus
  BY <1>1
<1>2. ASSUME NEW f \in Events, bus' = Append(bus, f)
      PROVE  \A e : InBus(e) => InBus(e)'
  <2>1. bus \in Seq(Events)
    BY DEF TypeOK, HistoryOK
  <2>2. Len(bus') = Len(bus) + 1 /\ \A i \in 1..Len(bus) : bus'[i] = bus[i]
    BY <1>2, <2>1
  <2> QED
    BY <2>1, <2>2
<1>3. \A r \in Relays : \A c \in batch[r] : c.event \in Events
  BY DEF TypeOK, RelaysOK, Claims
<1>4. bus' = bus \/ \E f \in Events : bus' = Append(bus, f)
  BY <1>3 DEF Next, vars, WriteBatch, RelayStep, Claim, Publish, Unreadable, PublishAcked, PublishRefused,
     PublishAckLost, Record, MarkPublished, ScheduleRetry, Fail, Done, RecordFails, ReapStuck, PurgePublished,
     Stop, Restart, BackoffElapses, ClaimAges
<1> QED
  BY <1>1, <1>2, <1>4

\* A row is marked published or purged only after the bus accepted its event.
THEOREM DeliverySafe == Spec => []NoEventLost
<1>1. Init => NoEventLost /\ SentIsInBus
  BY DEF Init, NoEventLost, SentIsInBus
<1>2. TypeOK /\ NoEventLost /\ SentIsInBus /\ [Next]_vars => NoEventLost' /\ SentIsInBus'
  <2> SUFFICES ASSUME TypeOK, NoEventLost, SentIsInBus, [Next]_vars
               PROVE  NoEventLost' /\ SentIsInBus'
    OBVIOUS
  <2> USE DEF TypeOK, RowsOK, RelaysOK, NoEventLost, SentIsInBus
  <2>0. \A e : InBus(e) => InBus(e)'
    BY BusGrows
  <2>1. ASSUME NEW es \in Batches, WriteBatch(es)
        PROVE  NoEventLost' /\ SentIsInBus'
    BY <2>0, <2>1 DEF WriteBatch
  <2>2. ASSUME NEW r \in Relays, RelayStep(r)
        PROVE  NoEventLost' /\ SentIsInBus'
    <3>1. CASE Claim(r)
      BY <2>0, <3>1 DEF Claim, DueRows
    <3>2. ASSUME NEW c \in batch[r], Unreadable(r, c) \/ PublishRefused(r, c) \/ PublishAckLost(r, c)
          PROVE  NoEventLost' /\ SentIsInBus'
      BY <2>0, <3>2 DEF Unreadable, PublishRefused, PublishAckLost, Take
    <3>3. ASSUME NEW c \in batch[r], PublishAcked(r, c)
          PROVE  NoEventLost' /\ SentIsInBus'
      <4>1. bus \in Seq(Events) /\ c.event \in Events
        BY DEF HistoryOK, Claims
      <4>2. Len(bus') = Len(bus) + 1 /\ bus'[Len(bus) + 1] = c.event /\ Len(bus) + 1 \in 1..(Len(bus) + 1)
        BY <3>3, <4>1 DEF PublishAcked
      <4>3. InBus(c.event)'
        BY <4>2 DEF InBus, Elements
      <4>4. cur'[r] = c /\ \A s \in Relays \ {r} : cur'[s] = cur[s] /\ phase'[s] = phase[s]
        BY <3>3 DEF PublishAcked, Take
      <4>5. SentIsInBus'
        BY <2>0, <4>3, <4>4
      <4> QED
        BY <2>0, <3>3, <4>5 DEF PublishAcked
    <3>4. CASE MarkPublished(r)
      BY <2>0, <3>4 DEF MarkPublished, SetStatus, Done, RowExists
    <3>5. CASE ScheduleRetry(r)
      BY <2>0, <3>5 DEF ScheduleRetry, SetStatus, Done, RowExists
    <3>6. CASE Fail(r)
      BY <2>0, <3>6 DEF Fail, SetStatus, Done, RowExists
    <3>7. CASE RecordFails(r)
      BY <2>0, <3>7 DEF RecordFails, Done
    <3>8. CASE ReapStuck(r)
      BY <2>0, <3>8 DEF ReapStuck
    <3>9. CASE PurgePublished(r)
      BY <2>0, <3>9 DEF PurgePublished, ExpiredRows
    <3>10. CASE Stop(r)
      BY <2>0, <3>10 DEF Stop
    <3>11. CASE Restart(r)
      BY <2>0, <3>11 DEF Restart
    <3> QED
      BY <2>2, <3>1, <3>2, <3>3, <3>4, <3>5, <3>6, <3>7, <3>8, <3>9, <3>10, <3>11 DEF RelayStep, Record, Publish
  <2>3. ASSUME NEW e \in Events, BackoffElapses(e)
        PROVE  NoEventLost' /\ SentIsInBus'
    BY <2>0, <2>3 DEF BackoffElapses
  <2>4. ASSUME NEW e \in Events, ClaimAges(e)
        PROVE  NoEventLost' /\ SentIsInBus'
    BY <2>0, <2>4 DEF ClaimAges
  <2>5. CASE UNCHANGED vars
    BY <2>0, <2>5 DEF vars
  <2> QED
    BY <2>1, <2>2, <2>3, <2>4, <2>5 DEF Next
<1> QED
  BY <1>1, <1>2, TypeCorrect, PTL DEF Spec

-----------------------------------------------------------------------------
(***************************************************************************)
(* Only exhausted rows are parked.  The attempts a relay remembers from    *)
(* its claim never exceed the row's own count, which only grows, so the    *)
(* verdict of a relay that has lost its claim is still justified.          *)
(***************************************************************************)
ClaimsRemembered ==
    \A r \in Relays :
        /\ \A c \in batch[r] : c.attempts <= attempts[c.event]
        /\ phase[r] \in {"sent", "refused", "poison"} => cur[r] \in Claims /\ cur[r].attempts <= attempts[cur[r].event]
        /\ phase[r] = "poison" => cur[r].event \in Poison

\* The attempts column only grows.
LEMMA AttemptsGrow ==
    ASSUME TypeOK, [Next]_vars
    PROVE  \A e \in Events : attempts[e] <= attempts'[e]
<1> USE DEF TypeOK, RowsOK
<1>1. attempts' = attempts \/ \E r \in Relays : Claim(r)
  BY DEF Next, vars, WriteBatch, RelayStep, Publish, Unreadable, PublishAcked, PublishRefused,
     PublishAckLost, Record, MarkPublished, ScheduleRetry, Fail, Done, RecordFails, ReapStuck, PurgePublished,
     Stop, Restart, BackoffElapses, ClaimAges
<1>2. ASSUME NEW r \in Relays, Claim(r)
      PROVE  \A e \in Events : attempts[e] <= attempts'[e]
  <2>1. PICK rows : attempts' = [e \in Events |-> IF e \in rows THEN attempts[e] + 1 ELSE attempts[e]]
    BY <1>2 DEF Claim
  <2> QED
    BY <2>1
<1> QED
  BY <1>1, <1>2

\* A parked row is unreadable or has used up its attempts.
THEOREM ParkingJustified == Spec => []ParkedOnlyWhenExhausted
<1>1. Init => ParkedOnlyWhenExhausted /\ ClaimsRemembered
  BY DEF Init, ParkedOnlyWhenExhausted, ClaimsRemembered
<1>2. TypeOK /\ ParkedOnlyWhenExhausted /\ ClaimsRemembered /\ [Next]_vars
        => ParkedOnlyWhenExhausted' /\ ClaimsRemembered'
  <2> SUFFICES ASSUME TypeOK, ParkedOnlyWhenExhausted, ClaimsRemembered, [Next]_vars
               PROVE  ParkedOnlyWhenExhausted' /\ ClaimsRemembered'
    OBVIOUS
  <2> USE DEF TypeOK, RowsOK, RelaysOK, ParkedOnlyWhenExhausted, ClaimsRemembered
  <2>0. TypeOK'
    BY TypeStep
  <2>1. \A e \in Events : attempts[e] \in Nat /\ attempts'[e] \in Nat /\ attempts[e] <= attempts'[e]
    BY <2>0, AttemptsGrow
  <2>2. \A c \in Claims : c.event \in Events /\ c.attempts \in Nat
    BY DEF Claims
  <2>3. ASSUME NEW es \in Batches, WriteBatch(es)
        PROVE  ParkedOnlyWhenExhausted' /\ ClaimsRemembered'
    BY <2>3 DEF WriteBatch
  <2>4. ASSUME NEW r \in Relays, RelayStep(r)
        PROVE  ParkedOnlyWhenExhausted' /\ ClaimsRemembered'
    <3>1. CASE Claim(r)
      <4>1. PICK rows \in SUBSET DueRows :
              /\ status' = [e \in Events |-> IF e \in rows THEN "publishing" ELSE status[e]]
              /\ attempts' = [e \in Events |-> IF e \in rows THEN attempts[e] + 1 ELSE attempts[e]]
              /\ batch' = [batch EXCEPT ![r] = {[event |-> e, attempts |-> attempts[e] + 1] : e \in rows}]
        BY <3>1 DEF Claim
      <4>2. \A c \in batch'[r] : c.attempts <= attempts'[c.event]
        BY <4>1, <2>1 DEF DueRows
      <4>3. ClaimsRemembered'
        BY <2>1, <2>2, <3>1, <4>1, <4>2 DEF Claim
      <4> QED
        BY <2>1, <4>1, <4>3, OutboxAssumption
    <3>2. ASSUME NEW c \in batch[r],
                 Unreadable(r, c) \/ PublishAcked(r, c) \/ PublishRefused(r, c) \/ PublishAckLost(r, c)
          PROVE  ParkedOnlyWhenExhausted' /\ ClaimsRemembered'
      <4>1. c \in Claims
        OBVIOUS
      <4>2. PICK p \in {"sent", "refused", "poison"} : Take(r, c, p) /\ (p = "poison" => c.event \in Poison)
        BY <3>2 DEF Unreadable, PublishAcked, PublishRefused, PublishAckLost
      <4>3. status' = status /\ attempts' = attempts
        BY <3>2 DEF Unreadable, PublishAcked, PublishRefused, PublishAckLost
      <4> QED
        BY <4>1, <4>2, <4>3 DEF Take
    <3>3. CASE MarkPublished(r)
      BY <3>3 DEF MarkPublished, SetStatus, Done
    <3>4. CASE ScheduleRetry(r)
      BY <3>4 DEF ScheduleRetry, SetStatus, Done
    <3>5. CASE Fail(r)
      <4>1. ParkedOnlyWhenExhausted'
        BY <2>1, <2>2, <3>5, OutboxAssumption DEF Fail, SetStatus, Done
      <4> QED
        BY <3>5, <4>1 DEF Fail, Done
    <3>6. CASE RecordFails(r)
      BY <3>6 DEF RecordFails, Done
    <3>7. CASE ReapStuck(r)
      BY <3>7 DEF ReapStuck
    <3>8. CASE PurgePublished(r)
      BY <3>8 DEF PurgePublished
    <3>9. CASE Stop(r)
      BY <3>9 DEF Stop
    <3>10. CASE Restart(r)
      BY <3>10 DEF Restart
    <3> QED
      BY <2>4, <3>1, <3>2, <3>3, <3>4, <3>5, <3>6, <3>7, <3>8, <3>9, <3>10 DEF RelayStep, Record, Publish
  <2>5. ASSUME NEW e \in Events, BackoffElapses(e)
        PROVE  ParkedOnlyWhenExhausted' /\ ClaimsRemembered'
    BY <2>5 DEF BackoffElapses
  <2>6. ASSUME NEW e \in Events, ClaimAges(e)
        PROVE  ParkedOnlyWhenExhausted' /\ ClaimsRemembered'
    BY <2>6 DEF ClaimAges
  <2>7. CASE UNCHANGED vars
    BY <2>7 DEF vars
  <2> QED
    BY <2>3, <2>4, <2>5, <2>6, <2>7 DEF Next
<1> QED
  BY <1>1, <1>2, TypeCorrect, PTL DEF Spec

-----------------------------------------------------------------------------
(***************************************************************************)
(* While no live relay outlives ClaimTimeout, claims are exclusive.  A     *)
(* held row is publishing with a fresh claim, so neither the claim nor the *)
(* reap statement selects it, and no relay holds two claims of one row.    *)
(***************************************************************************)
Disjoint ==
    \A r, s \in Relays : r # s => \A c \in Hold(r), d \in Hold(s) : c.event # d.event

HeldRowsFresh ==
    \A r \in Relays : \A c \in Hold(r) : status[c.event] = "publishing" /\ ~aged[c.event]

ClaimsDistinct ==
    \A r \in Relays :
        /\ \A c, d \in Hold(r) : c.event = d.event => c = d
        /\ \A c \in batch[r] : c.attempts > 0 /\ c # cur[r]
        /\ phase[r] \in {"sent", "refused", "poison"} <=> cur[r] # NoClaim
        /\ phase[r] = "down" => batch[r] = {}

ExclusiveInv == Disjoint /\ HeldRowsFresh /\ ClaimsDistinct

\* A relay's claims are of different events, at every speed of every relay.
LEMMA DistinctStep ==
    ASSUME TypeOK, ClaimsDistinct, [Next]_vars
    PROVE  ClaimsDistinct'
<1> USE DEF TypeOK, RelaysOK, ClaimsDistinct, Hold
<1>0. NoClaim.attempts = 0
  BY DEF NoClaim
<1>1. CASE UNCHANGED relayVars
  BY <1>1
<1>2. ASSUME NEW r \in Relays, Claim(r)
      PROVE  ClaimsDistinct'
  <2>1. PICK rows \in SUBSET DueRows :
          batch' = [batch EXCEPT ![r] = {[event |-> e, attempts |-> attempts[e] + 1] : e \in rows}]
    BY <1>2 DEF Claim
  <2>2. \A c \in batch'[r] : c.event \in rows /\ c = [event |-> c.event, attempts |-> attempts[c.event] + 1]
    BY <2>1
  <2>3. \A e \in rows : attempts[e] + 1 > 0
    BY DEF DueRows, RowsOK
  <2>4. cur[r] = NoClaim /\ UNCHANGED <<cur, phase>>
    BY <1>2 DEF Claim
  <2>5. \A c \in batch'[r] : c.attempts > 0
    BY <2>2, <2>3
  <2>6. \A c, d \in Hold(r)' : c.event = d.event => c = d
    BY <2>2, <2>4
  <2>7. phase[r] # "down" /\ \A s \in Relays \ {r} : batch'[s] = batch[s]
    BY <1>2, <2>1 DEF Claim
  <2> QED
    BY <1>0, <2>4, <2>5, <2>6, <2>7
<1>3. ASSUME NEW r \in Relays, NEW c \in batch[r], NEW p \in {"sent", "refused", "poison"}, Take(r, c, p)
      PROVE  ClaimsDistinct'
  <2>1. c # NoClaim /\ cur[r] = NoClaim
    BY <1>0, <1>3 DEF Take
  <2>2. \A s \in Relays : Hold(s)' = Hold(s)
    BY <1>3, <2>1 DEF Take
  <2> QED
    BY <1>3, <2>1, <2>2 DEF Take
<1>4. ASSUME NEW r \in Relays, Done(r), phase[r] # "down"
      PROVE  ClaimsDistinct'
  BY <1>0, <1>4 DEF Done
<1>5. ASSUME NEW r \in Relays, Stop(r) \/ Restart(r)
      PROVE  ClaimsDistinct'
  BY <1>0, <1>5 DEF Stop, Restart
<1>6. ASSUME NEW r \in Relays, Publish(r)
      PROVE  ClaimsDistinct'
  BY <1>3, <1>6 DEF Publish, Unreadable, PublishAcked, PublishRefused, PublishAckLost
<1>7. ASSUME NEW r \in Relays, Record(r) \/ RecordFails(r)
      PROVE  ClaimsDistinct'
  BY <1>4, <1>7 DEF Record, MarkPublished, ScheduleRetry, Fail, RecordFails
<1>8. ASSUME NEW r \in Relays, ReapStuck(r) \/ PurgePublished(r)
      PROVE  UNCHANGED relayVars
  BY <1>8 DEF ReapStuck, PurgePublished
<1>9. ASSUME NEW e \in Events, BackoffElapses(e) \/ ClaimAges(e)
      PROVE  UNCHANGED relayVars
  BY <1>9 DEF BackoffElapses, ClaimAges
<1>10. ASSUME NEW es \in Batches, WriteBatch(es)
       PROVE  UNCHANGED relayVars
  BY <1>10 DEF WriteBatch
<1> QED
  BY <1>1, <1>2, <1>5, <1>6, <1>7, <1>8, <1>9, <1>10 DEF Next, RelayStep, vars

\* An outcome step or a failed outcome statement gives up the row and no other.
LEMMA ReleaseKeepsExclusive ==
    ASSUME TypeOK, ExclusiveInv, ClaimsDistinct', NEW r \in Relays, phase[r] \in {"sent", "refused", "poison"}, Done(r),
           \A e \in Events : e # cur[r].event => status'[e] = status[e] /\ aged'[e] = aged[e]
    PROVE  ExclusiveInv'
<1> USE DEF TypeOK, RelaysOK, ExclusiveInv, Disjoint, ClaimsDistinct, Hold
<1>1. \A s \in Relays : Hold(s)' = IF s = r THEN Hold(r) \ {cur[r]} ELSE Hold(s)
  BY DEF Done
<1>2. \A s \in Relays : \A c \in Hold(s)' : c.event # cur[r].event /\ c \in Hold(s) /\ c.event \in Events
  BY <1>1 DEF Claims
<1>3. HeldRowsFresh'
  BY <1>2 DEF HeldRowsFresh
<1>4. Disjoint'
  BY <1>2
<1> QED
  BY <1>3, <1>4

\* A step that leaves the relays and every held row alone.
LEMMA RowStepKeepsExclusive ==
    ASSUME TypeOK, ExclusiveInv, ClaimsDistinct', UNCHANGED relayVars,
           \A e \in Events : HeldBy(e) # {} => status'[e] = status[e] /\ aged'[e] = aged[e]
    PROVE  ExclusiveInv'
<1> USE DEF TypeOK, RelaysOK, ExclusiveInv, Disjoint, ClaimsDistinct, Hold
<1>1. \A s \in Relays : Hold(s)' = Hold(s)
  OBVIOUS
<1>2. \A s \in Relays : \A c \in Hold(s) : c.event \in Events /\ HeldBy(c.event) # {}
  BY DEF Claims, HeldBy
<1>3. HeldRowsFresh'
  BY <1>1, <1>2 DEF HeldRowsFresh
<1> QED
  BY <1>1, <1>3

\* A step by which no live relay becomes too slow keeps claims exclusive.
LEMMA ExclusiveStep ==
    ASSUME ~overrun', TypeOK, ExclusiveInv, [Next]_vars
    PROVE  ExclusiveInv'
<1> USE DEF TypeOK, RowsOK, RelaysOK
<1>7. ClaimsDistinct'
  BY DistinctStep DEF ExclusiveInv
<1>0. \A e \in Events : HeldBy(e) # {} => status[e] = "publishing" /\ ~aged[e]
  BY DEF ExclusiveInv, HeldRowsFresh, HeldBy
<1>1. ASSUME NEW es \in Batches, WriteBatch(es)
      PROVE  ExclusiveInv'
  BY <1>0, <1>1, <1>7, RowStepKeepsExclusive DEF WriteBatch
<1>2. ASSUME NEW r \in Relays, RelayStep(r)
      PROVE  ExclusiveInv'
  <2>1. CASE Claim(r)
    <3>1. PICK rows \in SUBSET DueRows :
            /\ status' = [e \in Events |-> IF e \in rows THEN "publishing" ELSE status[e]]
            /\ aged' = [e \in Events |-> IF e \in rows THEN FALSE ELSE aged[e]]
            /\ batch' = [batch EXCEPT ![r] = {[event |-> e, attempts |-> attempts[e] + 1] : e \in rows}]
      BY <2>1 DEF Claim
    <3> USE DEF ExclusiveInv, Hold
    <3>2. cur[r] = NoClaim /\ Hold(r)' = batch'[r] /\ UNCHANGED <<cur, phase>>
      BY <2>1 DEF Claim, ClaimsDistinct
    <3>3. \A s \in Relays \ {r} : Hold(s)' = Hold(s)
      BY <3>1, <3>2
    <3>4. \A c \in batch'[r] : c.event \in rows /\ c = [event |-> c.event, attempts |-> attempts[c.event] + 1] /\ c.attempts > 0
      BY <3>1 DEF DueRows
    <3>5. \A s \in Relays : \A c \in Hold(s) : c.event \in Events /\ c.event \notin rows
      BY <1>0 DEF DueRows, HeldRowsFresh, Claims
    <3>6. Disjoint'
      BY <3>2, <3>3, <3>4, <3>5 DEF Disjoint
    <3>7. HeldRowsFresh'
      BY <3>1, <3>2, <3>3, <3>4, <3>5 DEF HeldRowsFresh, DueRows
    <3> QED
      BY <1>7, <3>6, <3>7
  <2>2. ASSUME NEW c \in batch[r],
               Unreadable(r, c) \/ PublishAcked(r, c) \/ PublishRefused(r, c) \/ PublishAckLost(r, c)
        PROVE  ExclusiveInv'
    <3>1. PICK p \in {"sent", "refused", "poison"} : Take(r, c, p) /\ UNCHANGED rowVars
      BY <2>2 DEF Unreadable, PublishAcked, PublishRefused, PublishAckLost
    <3> USE DEF ExclusiveInv, Hold
    <3>2. c # NoClaim /\ cur[r] = NoClaim
      BY <3>1 DEF Take, ClaimsDistinct, NoClaim
    <3>3. \A s \in Relays : Hold(s)' = Hold(s)
      BY <3>1, <3>2 DEF Take
    <3>4. Disjoint' /\ HeldRowsFresh'
      BY <3>1, <3>3 DEF Disjoint, HeldRowsFresh
    <3> QED
      BY <1>7, <3>4
  <2>3. CASE MarkPublished(r)
    BY <2>3, <1>7, ReleaseKeepsExclusive DEF MarkPublished, SetStatus
  <2>4. CASE ScheduleRetry(r)
    BY <2>4, <1>7, ReleaseKeepsExclusive DEF ScheduleRetry, SetStatus
  <2>5. CASE Fail(r)
    BY <2>5, <1>7, ReleaseKeepsExclusive DEF Fail, SetStatus
  <2>6. CASE RecordFails(r)
    BY <2>6, <1>7, ReleaseKeepsExclusive DEF RecordFails
  <2>7. CASE ReapStuck(r)
    BY <1>0, <2>7, <1>7, RowStepKeepsExclusive DEF ReapStuck, StuckRows
  <2>8. CASE PurgePublished(r)
    BY <1>0, <2>8, <1>7, RowStepKeepsExclusive DEF PurgePublished, ExpiredRows
  <2>9. CASE Stop(r)
    <3> USE DEF Hold
    <3>1. \A s \in Relays : Hold(s)' = IF s = r THEN {} ELSE Hold(s)
      BY <2>9 DEF Stop
    <3>2. Disjoint' /\ HeldRowsFresh'
      BY <2>9, <3>1 DEF Stop, ExclusiveInv, Disjoint, HeldRowsFresh
    <3> QED
      BY <1>7, <3>2 DEF ExclusiveInv
  <2>10. CASE Restart(r)
    BY <1>7, <2>10 DEF Restart, ExclusiveInv, Disjoint, HeldRowsFresh, Hold
  <2> QED
    BY <1>2, <2>1, <2>2, <2>3, <2>4, <2>5, <2>6, <2>7, <2>8, <2>9, <2>10 DEF RelayStep, Record, Publish
<1>3. ASSUME NEW e \in Events, BackoffElapses(e)
      PROVE  ExclusiveInv'
  BY <1>0, <1>3, <1>7, RowStepKeepsExclusive DEF BackoffElapses
<1>4. ASSUME NEW e \in Events, ClaimAges(e)
      PROVE  ExclusiveInv'
  BY <1>0, <1>4, <1>7, RowStepKeepsExclusive DEF ClaimAges
<1>5. CASE UNCHANGED vars
  BY <1>5, <1>7, RowStepKeepsExclusive DEF vars
<1> QED
  BY <1>1, <1>2, <1>3, <1>4, <1>5 DEF Next

\* Until a live relay outlives ClaimTimeout, claims are exclusive.
PromptInv == ~overrun => ExclusiveInv

\* A relay that was too slow stays on record.
LEMMA OverrunStays ==
    ASSUME [Next]_vars
    PROVE  overrun => overrun'
BY DEF Next, vars, WriteBatch, RelayStep, Claim, Publish, Unreadable, PublishAcked, PublishRefused,
   PublishAckLost, Record, MarkPublished, ScheduleRetry, Fail, Done, RecordFails, ReapStuck, PurgePublished,
   Stop, Restart, BackoffElapses, ClaimAges

LEMMA PromptStep ==
    ASSUME TypeOK, PromptInv, [Next]_vars
    PROVE  PromptInv'
BY ExclusiveStep, OverrunStays DEF PromptInv

LEMMA PromptInit ==
    ASSUME Init
    PROVE  PromptInv
BY DEF Init, PromptInv, ExclusiveInv, Disjoint, HeldRowsFresh, ClaimsDistinct, Hold

\* While no live relay has outlived ClaimTimeout, no two relays hold a row.
THEOREM ClaimsExclusive == Spec => []SingleHolder
<1>1. PromptInv => SingleHolder
  BY DEF PromptInv, ExclusiveInv, Disjoint, SingleHolder
<1> QED
  BY <1>1, PromptInit, PromptStep, TypeCorrect, PTL DEF Spec

\* While no live relay has outlived ClaimTimeout, recorded outcomes are final:
\* the relay that records an outcome still owns the row, which is publishing.
THEOREM OutcomesFinal == Spec => OutcomeIsFinal
<1> DEFINE Final == ~overrun' =>
                      \A e \in Events :
                        /\ status[e] = "published" => status'[e] \in {"published", "purged"}
                        /\ status[e] = "failed" => status'[e] = "failed"
<1>1. TypeOK /\ PromptInv /\ [Next]_vars => [Final]_vars
  <2> SUFFICES ASSUME TypeOK, PromptInv, Next, ~overrun'
               PROVE  Final
    OBVIOUS
  <2>0. ExclusiveInv
    BY OverrunStays DEF PromptInv
  <2> USE DEF TypeOK, RowsOK
  <2>1. \A r \in Relays : phase[r] \in {"sent", "refused", "poison"} => status[cur[r].event] = "publishing"
    BY <2>0 DEF ExclusiveInv, ClaimsDistinct, HeldRowsFresh, Hold
  <2>2. ASSUME NEW es \in Batches, WriteBatch(es)
        PROVE  Final
    BY <2>2 DEF WriteBatch
  <2>3. ASSUME NEW r \in Relays, RelayStep(r)
        PROVE  Final
    <3>1. CASE Record(r)
      BY <2>1, <3>1 DEF Record, MarkPublished, ScheduleRetry, Fail, SetStatus
    <3>2. CASE Claim(r) \/ ReapStuck(r) \/ PurgePublished(r)
      BY <3>2 DEF Claim, DueRows, ReapStuck, StuckRows, PurgePublished, ExpiredRows
    <3>3. CASE Publish(r) \/ RecordFails(r) \/ Stop(r) \/ Restart(r)
      BY <3>3 DEF Publish, Unreadable, PublishAcked, PublishRefused, PublishAckLost, RecordFails, Stop, Restart
    <3> QED
      BY <2>3, <3>1, <3>2, <3>3 DEF RelayStep
  <2>4. ASSUME NEW e \in Events, BackoffElapses(e) \/ ClaimAges(e)
        PROVE  Final
    BY <2>4 DEF BackoffElapses, ClaimAges
  <2> QED
    BY <2>2, <2>3, <2>4 DEF Next
<1> QED
  BY <1>1, PromptInit, PromptStep, TypeCorrect, PTL DEF Spec, OutcomeIsFinal

-----------------------------------------------------------------------------
(***************************************************************************)
(* Every redelivery has a cause.  An event is charged for what was sent,   *)
(* for every relay that may still send it or give it back unsent, and for  *)
(* a row the next claim, now or after a reap, may take.  Each step moves   *)
(* the charge or lowers it, or counts a fault for the one it adds: no      *)
(* induction over the bus is needed.                                       *)
(***************************************************************************)
Owing(e) ==
    {r \in Relays : \/ \E c \in batch[r] : c.event = e
                    \/ phase[r] \in {"refused", "poison"} /\ cur[r].event = e}

Claimable(e) ==
    \/ status[e] \in {"unwritten", "pending"}
    \/ status[e] = "publishing" /\ HeldBy(e) = {}

Charge(e) == Sent(e) + Cardinality(Owing(e)) + (IF Claimable(e) THEN 1 ELSE 0)

ChargeExplained ==
    \A e \in Events : IsFiniteSet(Owing(e)) /\ Charge(e) <= 1 + faults[e]

\* How often an element occurs in a sequence.
Occurs(s, e) == Cardinality({i \in 1..Len(s) : s[i] = e})

\* It is a number, and appending the element to the sequence adds one.
LEMMA OccursAppend ==
    ASSUME NEW S, NEW s \in Seq(S), NEW e
    PROVE  /\ Occurs(s, e) \in Nat
           /\ \A f \in S : Occurs(Append(s, f), e) = IF e = f THEN Occurs(s, e) + 1 ELSE Occurs(s, e)
<1> DEFINE At == {i \in 1..Len(s) : s[i] = e}
<1>1. Len(s) \in Nat /\ IsFiniteSet(1..Len(s))
  BY FS_Interval
<1>2. IsFiniteSet(At)
  BY <1>1, FS_Subset
<1>3. Len(s) + 1 \notin At
  BY <1>1
<1>4. ASSUME NEW f \in S
      PROVE  {i \in 1..Len(Append(s, f)) : Append(s, f)[i] = e} = IF e = f THEN At \cup {Len(s) + 1} ELSE At
  <2>1. /\ Len(Append(s, f)) = Len(s) + 1
        /\ Append(s, f)[Len(s) + 1] = f
        /\ \A i \in 1..Len(s) : Append(s, f)[i] = s[i]
    OBVIOUS
  <2>2. 1..(Len(s) + 1) = 1..Len(s) \cup {Len(s) + 1}
    BY <1>1
  <2> QED
    BY <2>1, <2>2
<1>5. Occurs(s, e) = Cardinality(At)
  BY DEF Occurs
<1>6. \A f \in S : Occurs(Append(s, f), e) = IF e = f THEN Cardinality(At \cup {Len(s) + 1}) ELSE Cardinality(At)
  BY <1>4 DEF Occurs
<1> HIDE DEF At
<1>7. Cardinality(At \cup {Len(s) + 1}) = Cardinality(At) + 1
  BY <1>2, <1>3, FS_AddElement
<1>8. Cardinality(At) \in Nat
  BY <1>2, FS_CardinalityType
<1> QED
  BY <1>5, <1>6, <1>7, <1>8

\* The bus has every event a number of times, before and after a step.
LEMMA SentIsNat ==
    ASSUME TypeOK, TypeOK', NEW e
    PROVE  Sent(e) \in Nat /\ Sent(e)' \in Nat
<1>1. Sent(e) = Occurs(bus, e) /\ Sent(e)' = Occurs(bus', e)
  BY DEF Sent, Occurs
<1>2. bus \in Seq(Events) /\ bus' \in Seq(Events)
  BY DEF TypeOK, HistoryOK
<1> QED
  BY <1>1, <1>2, OccursAppend

\* A charge that does not outgrow the faults stays explained.
LEMMA ChargeKept ==
    ASSUME TypeOK, TypeOK', ChargeExplained, NEW e \in Events, NEW o \in Nat, NEW o1 \in Nat,
           IsFiniteSet(Owing(e)'), Cardinality(Owing(e)) = o, Cardinality(Owing(e)') = o1,
           Sent(e)' + o1 + faults[e] + (IF Claimable(e)' THEN 1 ELSE 0)
             <= Sent(e) + o + faults'[e] + (IF Claimable(e) THEN 1 ELSE 0)
    PROVE  IsFiniteSet(Owing(e)') /\ Charge(e)' <= 1 + faults'[e]
<1>1. Sent(e) \in Nat /\ Sent(e)' \in Nat
  BY SentIsNat
<1>2. faults[e] \in Nat /\ faults'[e] \in Nat
  BY DEF TypeOK, FaultsOK
<1>3. Sent(e) + o + (IF Claimable(e) THEN 1 ELSE 0) <= 1 + faults[e]
  BY DEF ChargeExplained, Charge
<1>4. Sent(e)' + o1 + (IF Claimable(e)' THEN 1 ELSE 0) <= 1 + faults'[e]
  BY <1>1, <1>2, <1>3
<1> QED
  BY <1>4 DEF Charge

\* A step of the rows alone: a row becomes claimable only at the cost of a fault.
LEMMA RowCharge ==
    ASSUME TypeOK, TypeOK', ChargeExplained, UNCHANGED <<relayVars, bus>>,
           \A e \in Events : faults'[e] >= faults[e],
           \A e \in Events : Claimable(e)' => Claimable(e) \/ faults'[e] = faults[e] + 1
    PROVE  ChargeExplained'
<1> SUFFICES ASSUME NEW e \in Events
             PROVE  (IsFiniteSet(Owing(e)) /\ Charge(e) <= 1 + faults[e])'
  BY DEF ChargeExplained
<1>1. Owing(e)' = Owing(e) /\ Sent(e)' = Sent(e)
  BY DEF Owing, Sent
<1>2. IsFiniteSet(Owing(e)) /\ Cardinality(Owing(e)) \in Nat
  BY FS_CardinalityType DEF ChargeExplained
<1>3. Sent(e) \in Nat /\ faults[e] \in Nat /\ faults'[e] \in Nat
  BY SentIsNat DEF TypeOK, FaultsOK
<1> QED
  BY <1>1, <1>2, <1>3, ChargeKept

\* A relay gives up its row: what it owed is paid, or it had sent the event and
\* its row is at rest unless a fault is counted.
LEMMA ReleaseCharge ==
    ASSUME TypeOK, TypeOK', ClaimsDistinct, ChargeExplained, NEW r \in Relays,
           phase[r] \in {"sent", "refused", "poison"}, Done(r),
           \A e \in Events : e # cur[r].event => status'[e] = status[e] /\ faults'[e] = faults[e],
           \A e \in Events : faults'[e] >= faults[e],
           phase[r] = "sent" =>
             \A e \in Events : e = cur[r].event => (Claimable(e)' => Claimable(e)) \/ faults'[e] = faults[e] + 1
    PROVE  ChargeExplained'
<1> USE DEF ClaimsDistinct
<1> SUFFICES ASSUME NEW e \in Events
             PROVE  (IsFiniteSet(Owing(e)) /\ Charge(e) <= 1 + faults[e])'
  BY DEF ChargeExplained
<1>1. Sent(e)' = Sent(e)
  BY DEF Done, Sent
<1>2. Sent(e) \in Nat /\ faults[e] \in Nat /\ faults'[e] \in Nat
  BY SentIsNat DEF TypeOK, FaultsOK
<1>3. IsFiniteSet(Owing(e)) /\ Cardinality(Owing(e)) \in Nat
  BY FS_CardinalityType DEF ChargeExplained
<1>4. /\ phase'[r] = "ready" /\ cur'[r] = NoClaim /\ batch' = batch
      /\ \A s \in Relays : s # r => phase'[s] = phase[s] /\ cur'[s] = cur[s]
  BY DEF Done, TypeOK, RelaysOK
<1>5. cur[r] # NoClaim /\ cur[r] \in Hold(r) /\ \A c \in batch[r] : c.event # cur[r].event
  BY DEF Hold
<1>6. CASE e # cur[r].event
  <2>1. Owing(e)' = Owing(e)
    BY <1>4, <1>6 DEF Owing
  <2>2. \A s \in Relays : \A c : c.event = e => (c \in Hold(s)' <=> c \in Hold(s))
    BY <1>4, <1>6 DEF Hold
  <2>3. HeldBy(e)' = HeldBy(e)
    BY <2>2 DEF HeldBy
  <2>4. Claimable(e)' <=> Claimable(e)
    BY <1>6, <2>3 DEF Claimable
  <2> QED
    BY <1>1, <1>2, <1>3, <1>6, <2>1, <2>4, ChargeKept
<1>7. CASE e = cur[r].event
  <2>1. Owing(e)' = Owing(e) \ {r}
    BY <1>4, <1>5, <1>7 DEF Owing
  <2>2. IsFiniteSet(Owing(e)') /\ Cardinality(Owing(e)') = IF r \in Owing(e) THEN Cardinality(Owing(e)) - 1 ELSE Cardinality(Owing(e))
    BY <1>3, <2>1, FS_RemoveElement
  <2>3. Cardinality(Owing(e)') \in Nat
    BY <2>2, FS_CardinalityType
  <2>4. r \in Owing(e) <=> phase[r] # "sent"
    BY <1>5, <1>7 DEF Owing
  <2>5. CASE phase[r] # "sent"
    BY <1>1, <1>2, <1>3, <2>2, <2>3, <2>4, <2>5, ChargeKept
  <2>6. CASE phase[r] = "sent"
    BY <1>1, <1>2, <1>3, <1>7, <2>2, <2>3, <2>4, <2>6, ChargeKept
  <2> QED
    BY <2>5, <2>6
<1> QED
  BY <1>6, <1>7

\* A relay takes up a row: a delivery the relay learns of is what it owed, and
\* one it does not learn of is a fault.
LEMMA TakeCharge ==
    ASSUME TypeOK, TypeOK', ClaimsDistinct, ChargeExplained, NEW r \in Relays, NEW c \in batch[r],
           Unreadable(r, c) \/ PublishAcked(r, c) \/ PublishRefused(r, c) \/ PublishAckLost(r, c)
    PROVE  ChargeExplained'
<1> USE DEF ClaimsDistinct
<1> SUFFICES ASSUME NEW e \in Events
             PROVE  (IsFiniteSet(Owing(e)) /\ Charge(e) <= 1 + faults[e])'
  BY DEF ChargeExplained
<1>1. PICK p \in {"sent", "refused", "poison"} : Take(r, c, p) /\ UNCHANGED rowVars /\ (p = "sent" <=> PublishAcked(r, c))
  BY DEF Unreadable, PublishAcked, PublishRefused, PublishAckLost, Take, TypeOK, RelaysOK
<1>2. c \in Claims /\ c.event \in Events /\ c.attempts > 0
  BY DEF TypeOK, RelaysOK, Claims
<1>3. c # NoClaim /\ cur[r] = NoClaim
  BY <1>1, <1>2 DEF Take, NoClaim
<1>4. /\ phase'[r] = p /\ cur'[r] = c /\ batch'[r] = batch[r] \ {c} /\ phase[r] = "ready"
      /\ \A s \in Relays : s # r => phase'[s] = phase[s] /\ cur'[s] = cur[s] /\ batch'[s] = batch[s]
  BY <1>1 DEF Take, TypeOK, RelaysOK
<1>5. \A s \in Relays : Hold(s)' = Hold(s)
  BY <1>3, <1>4 DEF Hold
<1>6. Claimable(e)' <=> Claimable(e)
  <2>1. HeldBy(e)' = HeldBy(e)
    BY <1>5 DEF HeldBy
  <2> QED
    BY <1>1, <2>1 DEF Claimable
<1>7. \A d \in batch[r] : d.event = c.event => d = c
  BY DEF Hold
<1>8. Sent(e) \in Nat /\ faults[e] \in Nat /\ faults'[e] \in Nat
  BY SentIsNat DEF TypeOK, FaultsOK
<1>9. IsFiniteSet(Owing(e)) /\ Cardinality(Owing(e)) \in Nat
  BY FS_CardinalityType DEF ChargeExplained
<1>10. bus' = Append(bus, c.event) => Sent(e)' = IF e = c.event THEN Sent(e) + 1 ELSE Sent(e)
  <2>1. Sent(e) = Occurs(bus, e) /\ Sent(e)' = Occurs(bus', e) /\ bus \in Seq(Events)
    BY DEF Sent, Occurs, TypeOK, HistoryOK
  <2> QED
    BY <1>2, <2>1, OccursAppend
<1>11. bus' = bus => Sent(e)' = Sent(e)
  BY DEF Sent
<1>12. CASE p = "sent"
  <2>1. bus' = Append(bus, c.event) /\ faults' = faults
    BY <1>1, <1>12 DEF PublishAcked
  <2>2. CASE e # c.event
    <3>1. Owing(e)' = Owing(e)
      BY <1>4, <1>12, <2>2 DEF Owing
    <3> QED
      BY <1>6, <1>8, <1>9, <1>10, <2>1, <2>2, <3>1, ChargeKept
  <2>3. CASE e = c.event
    <3>1. Owing(e)' = Owing(e) \ {r} /\ r \in Owing(e)
      BY <1>4, <1>7, <1>12, <2>3 DEF Owing
    <3>2. IsFiniteSet(Owing(e)') /\ Cardinality(Owing(e)') = Cardinality(Owing(e)) - 1
      BY <1>9, <3>1, FS_RemoveElement
    <3>3. Cardinality(Owing(e)') \in Nat
      BY <3>2, FS_CardinalityType
    <3> QED
      BY <1>6, <1>8, <1>9, <1>10, <2>1, <2>3, <3>2, <3>3, ChargeKept
  <2> QED
    BY <2>2, <2>3
<1>13. CASE p # "sent"
  <2>1. Owing(e)' = Owing(e)
    BY <1>4, <1>7, <1>13 DEF Owing
  <2>2. CASE PublishAckLost(r, c)
    <3>1. bus' = Append(bus, c.event) /\ faults'[e] = IF e = c.event THEN faults[e] + 1 ELSE faults[e]
      BY <2>2 DEF PublishAckLost, TypeOK, FaultsOK
    <3> QED
      BY <1>6, <1>8, <1>9, <1>10, <2>1, <3>1, ChargeKept
  <2>3. CASE ~PublishAckLost(r, c)
    <3>1. bus' = bus /\ faults' = faults
      BY <1>1, <1>13, <2>3 DEF Unreadable, PublishRefused
    <3> QED
      BY <1>6, <1>8, <1>9, <1>11, <2>1, <3>1, ChargeKept
  <2> QED
    BY <2>2, <2>3
<1> QED
  BY <1>12, <1>13

\* A claim moves the charge of each claimed row from the row to the relay.
LEMMA ClaimCharge ==
    ASSUME TypeOK, TypeOK', ClaimsDistinct, ChargeExplained, NEW r \in Relays, Claim(r)
    PROVE  ChargeExplained'
<1> USE DEF ClaimsDistinct
<1> SUFFICES ASSUME NEW e \in Events
             PROVE  (IsFiniteSet(Owing(e)) /\ Charge(e) <= 1 + faults[e])'
  BY DEF ChargeExplained
<1>1. PICK rows \in SUBSET DueRows :
        /\ status' = [f \in Events |-> IF f \in rows THEN "publishing" ELSE status[f]]
        /\ batch' = [batch EXCEPT ![r] = {[event |-> f, attempts |-> attempts[f] + 1] : f \in rows}]
  BY DEF Claim
<1>2. phase[r] = "ready" /\ batch[r] = {} /\ UNCHANGED <<phase, cur, bus, faults>>
  BY DEF Claim
<1>3. Sent(e)' = Sent(e)
  BY <1>2 DEF Sent
<1>4. Sent(e) \in Nat /\ faults[e] \in Nat /\ faults'[e] \in Nat
  BY SentIsNat DEF TypeOK, FaultsOK
<1>5. IsFiniteSet(Owing(e)) /\ Cardinality(Owing(e)) \in Nat
  BY FS_CardinalityType DEF ChargeExplained
<1>6. \A s \in Relays : s # r => batch'[s] = batch[s]
  BY <1>1 DEF TypeOK, RelaysOK
<1>7. batch'[r] = {[event |-> f, attempts |-> attempts[f] + 1] : f \in rows}
  BY <1>1 DEF TypeOK, RelaysOK
<1>8. (\E c \in batch'[r] : c.event = e) <=> e \in rows
  <2>1. \A c \in batch'[r] : c.event \in rows
    BY <1>7
  <2>2. ASSUME e \in rows
        PROVE  \E c \in batch'[r] : c.event = e
    <3>1. [event |-> e, attempts |-> attempts[e] + 1] \in batch'[r]
      BY <1>7, <2>2
    <3> QED
      BY <3>1
  <2> QED
    BY <2>1, <2>2
<1>9. r \notin Owing(e)
  BY <1>2 DEF Owing
<1>10. CASE e \notin rows
  <2>1. Owing(e)' = Owing(e)
    BY <1>2, <1>6, <1>8, <1>9, <1>10 DEF Owing
  <2>2. \A s \in Relays : (\E c \in Hold(s) : c.event = e)' <=> \E c \in Hold(s) : c.event = e
    <3>1. ASSUME NEW s \in Relays, s # r
          PROVE  Hold(s)' = Hold(s)
      BY <1>2, <1>6, <3>1 DEF Hold
    <3>2. Hold(r) = {} /\ Hold(r)' = batch'[r]
      BY <1>2 DEF Hold
    <3> QED
      BY <1>8, <1>10, <3>1, <3>2
  <2>3. HeldBy(e)' = HeldBy(e)
    BY <2>2 DEF HeldBy
  <2>4. Claimable(e)' <=> Claimable(e)
    BY <1>1, <1>10, <2>3 DEF Claimable
  <2> QED
    BY <1>2, <1>3, <1>4, <1>5, <2>1, <2>4, ChargeKept
<1>11. CASE e \in rows
  <2>1. Owing(e)' = Owing(e) \cup {r}
    BY <1>2, <1>6, <1>8, <1>9, <1>11 DEF Owing
  <2>2. IsFiniteSet(Owing(e)') /\ Cardinality(Owing(e)') = Cardinality(Owing(e)) + 1
    BY <1>5, <1>9, <2>1, FS_AddElement
  <2>3. Claimable(e)
    BY <1>11 DEF Claimable, DueRows
  <2>4. r \in HeldBy(e)'
    <3>1. \E c \in Hold(r)' : c.event = e
      BY <1>8, <1>11 DEF Hold
    <3> QED
      BY <3>1 DEF HeldBy
  <2>5. ~Claimable(e)'
    BY <1>1, <1>11, <2>4 DEF Claimable
  <2> QED
    BY <1>2, <1>3, <1>4, <1>5, <2>2, <2>3, <2>5, ChargeKept
<1> QED
  BY <1>10, <1>11

\* A relay that stops gives back what it owed; a row it had sent is a fault.
LEMMA StopCharge ==
    ASSUME TypeOK, TypeOK', ClaimsDistinct, ChargeExplained, NEW r \in Relays, Stop(r)
    PROVE  ChargeExplained'
<1> USE DEF ClaimsDistinct
<1> SUFFICES ASSUME NEW e \in Events
             PROVE  (IsFiniteSet(Owing(e)) /\ Charge(e) <= 1 + faults[e])'
  BY DEF ChargeExplained
<1>1. /\ phase'[r] = "down" /\ batch'[r] = {} /\ cur'[r] = NoClaim /\ UNCHANGED <<rowVars, bus>>
      /\ \A s \in Relays : s # r => phase'[s] = phase[s] /\ batch'[s] = batch[s] /\ cur'[s] = cur[s]
  BY DEF Stop, TypeOK, RelaysOK
<1>2. /\ faults'[e] >= faults[e]
      /\ phase[r] = "sent" /\ e = cur[r].event => faults'[e] = faults[e] + 1
  BY DEF Stop, TypeOK, FaultsOK
<1>3. Sent(e)' = Sent(e)
  BY <1>1 DEF Sent
<1>4. Sent(e) \in Nat /\ faults[e] \in Nat /\ faults'[e] \in Nat
  BY SentIsNat DEF TypeOK, FaultsOK
<1>5. IsFiniteSet(Owing(e)) /\ Cardinality(Owing(e)) \in Nat
  BY FS_CardinalityType DEF ChargeExplained
<1>6. Owing(e)' = Owing(e) \ {r}
  BY <1>1 DEF Owing
<1>7. IsFiniteSet(Owing(e)') /\ Cardinality(Owing(e)') = IF r \in Owing(e) THEN Cardinality(Owing(e)) - 1 ELSE Cardinality(Owing(e))
  BY <1>5, <1>6, FS_RemoveElement
<1>8. Cardinality(Owing(e)') \in Nat
  BY <1>7, FS_CardinalityType
<1>9. CASE r \in Owing(e) \/ faults'[e] = faults[e] + 1
  BY <1>2, <1>3, <1>4, <1>5, <1>7, <1>8, <1>9, ChargeKept
<1>10. CASE r \notin Owing(e) /\ faults'[e] # faults[e] + 1
  <2>1. ~\E c \in Hold(r) : c.event = e
    BY <1>2, <1>10 DEF Hold, Owing
  <2>2. HeldBy(e)' = HeldBy(e)
    BY <1>1, <2>1 DEF HeldBy, Hold
  <2>3. Claimable(e)' <=> Claimable(e)
    BY <1>1, <2>2 DEF Claimable
  <2> QED
    BY <1>2, <1>3, <1>4, <1>5, <1>7, <1>8, <1>10, <2>3, ChargeKept
<1> QED
  BY <1>9, <1>10

\* Every step keeps the charge of every event within the faults it suffered.
LEMMA ChargeStep ==
    ASSUME TypeOK, ClaimsDistinct, ChargeExplained, [Next]_vars
    PROVE  ChargeExplained'
<1>1. TypeOK'
  BY TypeStep
<1> USE <1>1
<1>2. \A e \in Events : faults[e] \in Nat /\ faults[e] >= faults[e] /\ faults[e] + 1 >= faults[e]
  BY DEF TypeOK, FaultsOK
<1>3. ASSUME UNCHANGED relayVars
      PROVE  \A e \in Events : HeldBy(e)' = HeldBy(e)
  BY <1>3 DEF HeldBy, Hold
<1>4. ASSUME NEW es \in Batches, WriteBatch(es)
      PROVE  ChargeExplained'
  <2>1. UNCHANGED <<relayVars, bus, faults>>
    BY <1>4 DEF WriteBatch
  <2>2. \A e \in Events : Claimable(e)' => Claimable(e)
    BY <1>3, <1>4, <2>1 DEF WriteBatch, Claimable
  <2> QED
    BY <1>2, <2>1, <2>2, RowCharge
<1>5. ASSUME NEW r \in Relays, RelayStep(r)
      PROVE  ChargeExplained'
  <2>1. CASE Claim(r)
    BY <2>1, ClaimCharge
  <2>2. CASE Publish(r)
    BY <2>2, TakeCharge DEF Publish
  <2>3. CASE Record(r)
    <3>1. Done(r) /\ phase[r] \in {"sent", "refused", "poison"} /\ faults' = faults
      BY <2>3 DEF Record, MarkPublished, ScheduleRetry, Fail
    <3>2. \A e \in Events : e # cur[r].event => status'[e] = status[e]
      BY <2>3 DEF Record, MarkPublished, ScheduleRetry, Fail, SetStatus, TypeOK, RowsOK
    <3>3. ASSUME phase[r] = "sent", NEW e \in Events, e = cur[r].event
          PROVE  Claimable(e)' => Claimable(e)
      <4>1. SetStatus(e, "published")
        BY <2>3, <3>3 DEF Record, MarkPublished, ScheduleRetry, Fail
      <4>2. status'[e] = IF RowExists(e) THEN "published" ELSE status[e]
        BY <4>1 DEF SetStatus, TypeOK, RowsOK
      <4> QED
        BY <4>2 DEF Claimable, RowExists
    <3> QED
      BY <1>2, <3>1, <3>2, <3>3, ReleaseCharge
  <2>4. CASE RecordFails(r)
    <3>1. Done(r) /\ phase[r] \in {"sent", "refused", "poison"} /\ status' = status
      BY <2>4 DEF RecordFails
    <3>2. \A e \in Events : faults'[e] = IF e = cur[r].event /\ phase[r] = "sent" THEN faults[e] + 1 ELSE faults[e]
      BY <2>4 DEF RecordFails, TypeOK, FaultsOK
    <3> QED
      BY <1>2, <3>1, <3>2, ReleaseCharge
  <2>5. CASE ReapStuck(r)
    <3>1. UNCHANGED <<relayVars, bus>>
      BY <2>5 DEF ReapStuck
    <3>2. \A e \in Events : faults'[e] = IF e \in StuckRows /\ HeldBy(e) # {} THEN faults[e] + 1 ELSE faults[e]
      BY <2>5 DEF ReapStuck
    <3>3. \A e \in Events : Claimable(e)' => Claimable(e) \/ faults'[e] = faults[e] + 1
      <4>1. ASSUME NEW e \in Events, e \in StuckRows
            PROVE  Claimable(e) \/ faults'[e] = faults[e] + 1
        BY <3>2, <4>1 DEF Claimable, StuckRows
      <4>2. ASSUME NEW e \in Events, e \notin StuckRows
            PROVE  Claimable(e)' => Claimable(e)
        BY <1>3, <2>5, <3>1, <4>2 DEF Claimable, ReapStuck
      <4> QED
        BY <4>1, <4>2
    <3> QED
      BY <1>2, <3>1, <3>2, <3>3, RowCharge
  <2>6. CASE PurgePublished(r)
    <3>1. UNCHANGED <<relayVars, bus, faults>>
      BY <2>6 DEF PurgePublished
    <3>2. \A e \in Events : Claimable(e)' => Claimable(e)
      BY <1>3, <2>6, <3>1 DEF PurgePublished, Claimable
    <3> QED
      BY <1>2, <3>1, <3>2, RowCharge
  <2>7. CASE Stop(r)
    BY <2>7, StopCharge
  <2>8. CASE Restart(r)
    <3>1. \A e \in Events : Owing(e)' = Owing(e) /\ HeldBy(e)' = HeldBy(e) /\ Sent(e)' = Sent(e)
      BY <2>8 DEF Restart, Owing, HeldBy, Hold, Sent, TypeOK, RelaysOK
    <3>2. status' = status /\ faults' = faults
      BY <2>8 DEF Restart
    <3> QED
      BY <3>1, <3>2 DEF ChargeExplained, Charge, Claimable
  <2> QED
    BY <1>5, <2>1, <2>2, <2>3, <2>4, <2>5, <2>6, <2>7, <2>8 DEF RelayStep
<1>6. ASSUME NEW e \in Events, BackoffElapses(e) \/ ClaimAges(e)
      PROVE  ChargeExplained'
  <2>1. UNCHANGED <<relayVars, bus, faults, status>>
    BY <1>6 DEF BackoffElapses, ClaimAges
  <2>2. \A f \in Events : Claimable(f)' => Claimable(f)
    BY <1>3, <2>1 DEF Claimable
  <2> QED
    BY <1>2, <2>1, <2>2, RowCharge
<1>7. CASE UNCHANGED vars
  <2>1. UNCHANGED <<relayVars, bus, faults, status>>
    BY <1>7 DEF vars
  <2>2. \A f \in Events : Claimable(f)' => Claimable(f)
    BY <1>3, <2>1 DEF Claimable
  <2> QED
    BY <1>2, <2>1, <2>2, RowCharge
<1> QED
  BY <1>4, <1>5, <1>6, <1>7 DEF Next

\* The bus sees an event at most once more than the lost acks, unrecorded
\* publishes and reaped live claims it suffered, for any number of faults.
THEOREM DuplicatesBounded == Spec => []DuplicatesExplained
<1>1. ASSUME Init
      PROVE  ClaimsDistinct /\ ChargeExplained
  <2>1. ClaimsDistinct
    BY <1>1 DEF Init, ClaimsDistinct, Hold
  <2>2. ASSUME NEW e \in Events
        PROVE  IsFiniteSet(Owing(e)) /\ Charge(e) <= 1 + faults[e]
    <3>1. Owing(e) = {} /\ {i \in 1..Len(bus) : bus[i] = e} = {}
      BY <1>1 DEF Init, Owing
    <3>2. Cardinality(Owing(e)) = 0 /\ Sent(e) = 0 /\ IsFiniteSet(Owing(e))
      BY <3>1, FS_EmptySet DEF Sent
    <3> QED
      BY <1>1, <3>2 DEF Init, Charge
  <2> QED
    BY <2>1, <2>2 DEF ChargeExplained
<1>2. TypeOK /\ ClaimsDistinct /\ [Next]_vars => ClaimsDistinct'
  BY DistinctStep
<1>3. TypeOK /\ ClaimsDistinct /\ ChargeExplained /\ [Next]_vars => ChargeExplained'
  BY ChargeStep
<1>4. TypeOK /\ ChargeExplained => DuplicatesExplained
  <2> SUFFICES ASSUME TypeOK, ChargeExplained, NEW e \in Events
               PROVE  Sent(e) <= 1 + faults[e]
    BY DEF DuplicatesExplained
  <2>1. Cardinality(Owing(e)) \in Nat
    BY FS_CardinalityType DEF ChargeExplained
  <2>2. Sent(e) = Occurs(bus, e) /\ bus \in Seq(Events)
    BY DEF Sent, Occurs, TypeOK, HistoryOK
  <2>3. Sent(e) \in Nat
    BY <2>2, OccursAppend
  <2>4. faults[e] \in Nat
    BY DEF TypeOK, FaultsOK
  <2> QED
    BY <2>1, <2>3, <2>4 DEF ChargeExplained, Charge
<1> QED
  BY <1>1, <1>2, <1>3, <1>4, TypeCorrect, PTL DEF Spec

-----------------------------------------------------------------------------
(***************************************************************************)
(* The relays implement the delivery the package promises.  A step maps to *)
(* a stage, a delivery, a retirement or a change of one event's place; all *)
(* others leave every event where its writer sees it.                      *)
(***************************************************************************)
Placed == [e \in Events |-> Place(e)]

\* A step after which every event is in the same place, the bus unchanged.
LEMMA StutterStep ==
    ASSUME bus' = bus, \A e \in Events : Place(e)' = Place(e)
    PROVE  UNCHANGED Promise!vars
BY DEF Promise!vars

\* A step that moves some events and leaves the bus alone.
LEMMA MoveStep ==
    ASSUME NEW es \in SUBSET Events, NEW from, NEW to, \A e \in es : Place(e) = from,
           \A e \in Events : Place(e)' = IF e \in es THEN to ELSE Place(e), bus' = bus
    PROVE  Promise!Move(es, from, to)
BY DEF Promise!Move

\* An outcome statement moves one event, and only between open and parked.
LEMMA OutcomeStep ==
    ASSUME TypeOK, NEW e, NEW s \in {"published", "pending", "failed"}, SetStatus(e, s), bus' = bus
    PROVE  [Promise!Next]_(Promise!vars)
<1> USE DEF TypeOK, RowsOK, Statuses, Place
<1>1. \A f \in Events : f # e => Place(f)' = Place(f)
  BY DEF SetStatus
<1>2. CASE e \notin Events \/ Place(e)' = Place(e)
  BY <1>1, <1>2, StutterStep
<1>3. CASE e \in Events /\ Place(e)' # Place(e)
  <2>1. \/ Place(e) = "open" /\ Place(e)' = "parked"
        \/ Place(e) = "parked" /\ Place(e)' = "open"
    BY <1>3 DEF SetStatus, RowExists
  <2> HIDE DEF Place
  <2>2. \A f \in Events : Place(f)' = IF f \in {e} THEN Place(e)' ELSE Place(f)
    BY <1>1
  <2>3. Promise!Move({e}, Place(e), Place(e)')
    BY <1>3, <2>2, MoveStep
  <2>4. Promise!Park(e) \/ Promise!Revive(e)
    BY <2>1, <2>3 DEF Promise!Park, Promise!Revive
  <2> QED
    BY <1>3, <2>4 DEF Promise!Next
<1> QED
  BY <1>2, <1>3

\* The bus accepts an event a relay holds.
LEMMA DeliverStep ==
    ASSUME TypeOK, NEW e \in Events, status[e] # "unwritten", status' = status, bus' = Append(bus, e)
    PROVE  [Promise!Next]_(Promise!vars)
<1>1. Place(e) # "unstaged" /\ \A f \in Events : Place(f)' = Place(f)
  BY DEF TypeOK, RowsOK, Statuses, Place
<1>2. Promise!Deliver(e)
  BY <1>1 DEF Promise!Deliver
<1> QED
  BY <1>2 DEF Promise!Next

\* A claimed event was staged.
HeldAreStaged == \A r \in Relays : \A c \in batch[r] : status[c.event] # "unwritten"

LEMMA StagedStep ==
    ASSUME TypeOK, HeldAreStaged, [Next]_vars
    PROVE  HeldAreStaged'
<1> USE DEF TypeOK, RowsOK, RelaysOK, HeldAreStaged
<1>1. \A e \in Events : status[e] # "unwritten" => status'[e] # "unwritten"
  <2> DEFINE Kept == \A e \in Events : status[e] # "unwritten" => status'[e] # "unwritten"
  <2>1. ASSUME NEW es \in Batches, WriteBatch(es)
        PROVE  Kept
    BY <2>1 DEF WriteBatch
  <2>2. ASSUME NEW r \in Relays, RelayStep(r)
        PROVE  Kept
    <3>1. CASE Claim(r) \/ ReapStuck(r) \/ PurgePublished(r)
      BY <3>1 DEF Claim, ReapStuck, PurgePublished
    <3>2. CASE Record(r)
      BY <3>2 DEF Record, MarkPublished, ScheduleRetry, Fail, SetStatus
    <3>3. CASE Publish(r) \/ RecordFails(r) \/ Stop(r) \/ Restart(r)
      BY <3>3 DEF Publish, Unreadable, PublishAcked, PublishRefused, PublishAckLost, RecordFails, Stop, Restart
    <3> QED
      BY <2>2, <3>1, <3>2, <3>3 DEF RelayStep
  <2>3. ASSUME NEW e \in Events, BackoffElapses(e) \/ ClaimAges(e)
        PROVE  Kept
    BY <2>3 DEF BackoffElapses, ClaimAges
  <2>4. CASE UNCHANGED vars
    BY <2>4 DEF vars
  <2> QED
    BY <2>1, <2>2, <2>3, <2>4 DEF Next
<1>2. ASSUME NEW r \in Relays, Claim(r)
      PROVE  HeldAreStaged'
  <2>1. PICK rows \in SUBSET DueRows :
          /\ status' = [e \in Events |-> IF e \in rows THEN "publishing" ELSE status[e]]
          /\ batch' = [batch EXCEPT ![r] = {[event |-> e, attempts |-> attempts[e] + 1] : e \in rows}]
    BY <1>2 DEF Claim
  <2>2. \A c \in batch'[r] : c.event \in rows /\ c.event \in Events
    BY <2>1 DEF DueRows
  <2> QED
    BY <1>1, <2>1, <2>2 DEF Claims
<1>3. ASSUME ~\E r \in Relays : Claim(r)
      PROVE  \A r \in Relays : batch'[r] \subseteq batch[r]
  <2>1. ASSUME NEW s \in Relays, RelayStep(s)
        PROVE  \A r \in Relays : batch'[r] \subseteq batch[r]
    <3>1. CASE Publish(s)
      <4>1. PICK c : Take(s, c, "sent") \/ Take(s, c, "refused") \/ Take(s, c, "poison")
        BY <3>1 DEF Publish, Unreadable, PublishAcked, PublishRefused, PublishAckLost
      <4> QED
        BY <4>1 DEF Take
    <3>2. CASE Record(s) \/ RecordFails(s) \/ ReapStuck(s) \/ PurgePublished(s) \/ Stop(s) \/ Restart(s)
      BY <3>2 DEF Record, MarkPublished, ScheduleRetry, Fail, Done, RecordFails, ReapStuck, PurgePublished,
         Stop, Restart
    <3> QED
      BY <1>3, <2>1, <3>1, <3>2 DEF RelayStep
  <2> QED
    BY <2>1 DEF Next, vars, WriteBatch, BackoffElapses, ClaimAges
<1>4. CASE \E r \in Relays : Claim(r)
  BY <1>2, <1>4
<1>5. CASE ~\E r \in Relays : Claim(r)
  BY <1>1, <1>3, <1>5 DEF Claims
<1> QED
  BY <1>4, <1>5

\* Every step of the relays is a step of the promise or leaves it alone.
LEMMA PromiseStep ==
    ASSUME TypeOK, NoEventLost, HeldAreStaged, HeldAreStaged', [Next]_vars
    PROVE  [Promise!Next]_(Promise!vars)
<1> USE DEF TypeOK, RowsOK, RelaysOK, Statuses
<1>1. ASSUME NEW es \in Batches, WriteBatch(es)
      PROVE  [Promise!Next]_(Promise!vars)
  <2> DEFINE E == Elements(es)
  <2>1. E \subseteq Events
    <3>1. PICK n \in 1..2 : es \in [1..n -> Events]
      BY DEF Batches
    <3>2. es \in Seq(Events) /\ Len(es) = n
      BY <3>1
    <3> QED
      BY <3>1, <3>2 DEF Elements
  <2>2. /\ status' = [e \in Events |-> IF e \in E THEN "pending" ELSE status[e]]
        /\ bus' = bus
        /\ \A e \in E : status[e] = "unwritten"
    BY <1>1 DEF WriteBatch
  <2> HIDE DEF E
  <2>3. /\ \A e \in Events : Place(e)' = IF e \in E THEN "open" ELSE Place(e)
        /\ \A e \in E : Place(e) = "unstaged"
    BY <2>1, <2>2 DEF Place
  <2>4. Promise!Stage(E)
    BY <2>1, <2>2, <2>3, MoveStep DEF Promise!Stage
  <2> QED
    BY <2>1, <2>4 DEF Promise!Next
<1>2. ASSUME NEW r \in Relays, RelayStep(r)
      PROVE  [Promise!Next]_(Promise!vars)
  <2>1. CASE Claim(r)
    <3>1. PICK rows \in SUBSET DueRows :
            status' = [e \in Events |-> IF e \in rows THEN "publishing" ELSE status[e]]
      BY <2>1 DEF Claim
    <3>2. \A e \in Events : Place(e)' = Place(e)
      BY <3>1 DEF DueRows, Place
    <3> QED
      BY <2>1, <3>2, StutterStep DEF Claim
  <2>2. ASSUME NEW c \in batch[r], Unreadable(r, c) \/ PublishRefused(r, c)
        PROVE  [Promise!Next]_(Promise!vars)
    BY <2>2, StutterStep DEF Unreadable, PublishRefused, Place
  <2>3. ASSUME NEW c \in batch[r], PublishAcked(r, c) \/ PublishAckLost(r, c)
        PROVE  [Promise!Next]_(Promise!vars)
    <3>1. c.event \in Events /\ status[c.event] # "unwritten"
      BY DEF Claims, HeldAreStaged
    <3> QED
      BY <2>3, <3>1, DeliverStep DEF PublishAcked, PublishAckLost
  <2>4. CASE MarkPublished(r)
    BY <2>4, OutcomeStep DEF MarkPublished, Done
  <2>5. CASE ScheduleRetry(r)
    BY <2>5, OutcomeStep DEF ScheduleRetry, Done
  <2>6. CASE Fail(r)
    BY <2>6, OutcomeStep DEF Fail, Done
  <2>7. CASE RecordFails(r)
    BY <2>7, StutterStep DEF RecordFails, Done, Place
  <2>8. CASE ReapStuck(r)
    <3>1. \A e \in Events : Place(e)' = Place(e)
      BY <2>8 DEF ReapStuck, StuckRows, Place
    <3> QED
      BY <2>8, <3>1, StutterStep DEF ReapStuck
  <2>9. CASE PurgePublished(r)
    <3>1. PICK old \in SUBSET ExpiredRows :
            status' = [e \in Events |-> IF e \in old THEN "purged" ELSE status[e]]
      BY <2>9 DEF PurgePublished
    <3>2. old \subseteq Events /\ \A e \in old : status[e] = "published"
      BY DEF ExpiredRows
    <3>3. \A e \in old : Promise!OnBus(e)
      BY <3>2 DEF NoEventLost, InBus, Elements, Promise!OnBus
    <3>4. \A e \in Events : Place(e)' = IF e \in old THEN "gone" ELSE Place(e)
      BY <3>1, <3>2 DEF Place
    <3>5. \A e \in old : Place(e) = "open"
      BY <3>2 DEF Place
    <3>6. Promise!Retire(old)
      BY <2>9, <3>2, <3>3, <3>4, <3>5, MoveStep DEF Promise!Retire, PurgePublished
    <3> QED
      BY <3>2, <3>6 DEF Promise!Next
  <2>10. CASE Stop(r)
    BY <2>10, StutterStep DEF Stop, Place
  <2>11. CASE Restart(r)
    BY <2>11, StutterStep DEF Restart, Place
  <2> QED
    BY <1>2, <2>1, <2>2, <2>3, <2>4, <2>5, <2>6, <2>7, <2>8, <2>9, <2>10, <2>11 DEF RelayStep, Record, Publish
<1>3. ASSUME NEW e \in Events, BackoffElapses(e) \/ ClaimAges(e)
      PROVE  [Promise!Next]_(Promise!vars)
  BY <1>3, StutterStep DEF BackoffElapses, ClaimAges, Place
<1>4. CASE UNCHANGED vars
  BY <1>4, StutterStep DEF vars, Place
<1> QED
  BY <1>1, <1>2, <1>3, <1>4 DEF Next

\* The safety half of the promise, for every number of relays, events and
\* faults: what is staged, delivered, parked and forgotten obeys EventDelivery.
THEOREM PromiseKept == Spec => Promise!Safety
<1>1. Init => Promise!Init /\ HeldAreStaged
  BY DEF Init, Promise!Init, HeldAreStaged, Place
<1>2. TypeOK /\ HeldAreStaged /\ [Next]_vars => HeldAreStaged'
  BY StagedStep
<1>3. TypeOK /\ NoEventLost /\ HeldAreStaged /\ HeldAreStaged' /\ [Next]_vars
        => [Promise!Next]_(Promise!vars)
  BY PromiseStep
<1> QED
  BY <1>1, <1>2, <1>3, TypeCorrect, DeliverySafe, PTL DEF Spec, Promise!Safety
=============================================================================
