---------------------------- MODULE AutomationRun ----------------------------
(***************************************************************************)
(* One durable run of an automation runbook                                *)
(* (backend/internal/automation/service): the loop that claims runnable    *)
(* runs and advances them step by step (loop.go, orchestrator.go), the     *)
(* gate sweeper in the same goroutine, and the approvers' requests         *)
(* (api.go, gates.go).                                                     *)
(*                                                                         *)
(* A database transaction is READ COMMITTED and locks nothing it reads:    *)
(* what it read and what it writes are two steps, and its writes (gate     *)
(* row, run row, step row) commit as one.  The claim hands out a copy of   *)
(* the run row, which the loop works on after the claim has committed.     *)
(* Abstracted: payloads, variables and events; a deadline is any later     *)
(* moment.  No row is shared between runs, but the claim's LIMIT is: of    *)
(* the older runs, which are claimed first, the model keeps the number of  *)
(* those that stay runnable for ever.                                      *)
(* Steps are numbered from 1, the code's from 0.                           *)
(***************************************************************************)
EXTENDS Integers, Sequences, FiniteSets

CONSTANTS
    Drivers,      \* the loops: one, as long as leadership is exclusive
    Users,        \* the approvers, with one request each in flight
    Runbook,      \* the kinds of the steps: "action" or "gate"
    Quorums,      \* the quorums a gate may ask for
    MaxAttempts,  \* OrchestratorConfig.MaxAttempts
    Batch,        \* LoopConfig.BatchSize: how many runs one claim takes
    MaxFaults     \* bound: driver crashes and failed transactions per behaviour

ASSUME AutomationAssumption ==
    /\ Runbook \in Seq({"action", "gate"})
    /\ Quorums \subseteq Nat \ {0} /\ MaxAttempts \in Nat \ {0} /\ MaxFaults \in Nat
    /\ Batch \in Nat \ {0}
    /\ Drivers \cap Users = {}
    /\ IsFiniteSet(Users)

VARIABLES
    policy,      \* the gates' timeout_action, or none when they have no timeout
    quorum,      \* the approvals the gates need
    stuck,       \* how many older runs stay runnable for ever; beyond Batch it is not counted
    status,      \* the run row: status
    step,        \* the run row: current_step
    log,         \* the step rows' status, none before there is a row
    attempt,     \* the step rows' attempt
    gate,        \* the gate rows' status, none before there is a row
    votes,       \* the gate rows' decisions: who approved
    at,          \* where each loop and each request is
    seen,        \* what each of them has read
    execs,       \* per step, how often its action was executed
    approvers,   \* per step, whoever had an approval committed
    reported,    \* did Advance report a recorded failure?
    overwritten, \* has a gate writer overwritten a row changed since it read it?
    budget       \* faults left

runVars  == <<status, step, log, attempt>>
gateVars == <<gate, votes>>
procVars == <<at, seen>>
pastVars == <<execs, approvers, reported, overwritten>>
givenVars == <<policy, quorum, stuck>>
vars     == <<givenVars, runVars, gateVars, procVars, pastVars, budget>>

Steps     == 1..Len(Runbook)
Gates     == {s \in Steps : Runbook[s] = "gate"}
Processes == Drivers \cup Users
Policies  == {"none", "abort", "auto_approve", "escalate"}
Statuses  == {"PENDING", "RUNNING", "AWAITING_APPROVAL", "ESCALATED", "COMPLETED", "FAILED", "ABORTED"}
LogStates == {"none", "RUNNING", "OK", "FAILED", "AWAITING", "APPROVED"}
GateStates == {"none", "OPEN", "ESCALATED", "APPROVED", "REJECTED", "EXPIRED"}

Runnable == {"PENDING", "RUNNING"}
Parked   == {"AWAITING_APPROVAL", "ESCALATED"}
Undecided == {"OPEN", "ESCALATED"}

\* A loop is idle, or between two transactions of Advance or of the sweeper; a
\* request is idle or between its reads, which count as one, and its writes; a
\* request that fails has changed nothing, like one that was never made.
Places == {"idle", "start", "look", "complete", "gate", "skip", "prepare", "execute",
           "done", "failed", "resume", "listed", "timeout", "approve", "reject"}

\* What a loop or a request has read: the run's status and step, the step it is
\* working on with its gate, and the attempt the loop is at.
Copies == [status : Statuses, step : 1..(Len(Runbook) + 1), on : 1..(Len(Runbook) + 1),
           gate : GateStates, votes : SUBSET Users, attempt : Nat]

GateAt(s)  == IF s \in Steps THEN gate[s] ELSE "none"
VotesAt(s) == IF s \in Steps THEN votes[s] ELSE {}

Nothing    == [status |-> "PENDING", step |-> 1, on |-> 1, gate |-> "none", votes |-> {}, attempt |-> 0]
RunCopy(s)  == [Nothing EXCEPT !.status = status, !.step = step, !.on = s]
GateCopy(s) == [RunCopy(s) EXCEPT !.gate = GateAt(s), !.votes = VotesAt(s)]

\* Is a gate writer about to overwrite something it has not read?
Stale(p) == LET c == seen[p] IN
    <<c.status, c.step, c.gate, c.votes>> # <<status, step, GateAt(c.on), VotesAt(c.on)>>

Goto(p, x)  == at' = [at EXCEPT ![p] = x]
Read(p, c)  == seen' = [seen EXCEPT ![p] = c]
Finish(p)   == Goto(p, "idle") /\ Read(p, Nothing)
Fault       == budget > 0 /\ budget' = budget - 1

\* The places at which a process works on a step of the runbook.
OnStep == Places \ {"idle", "start", "look", "complete"}

RowsOK ==
    /\ policy \in Policies /\ quorum \in Quorums /\ stuck \in 0..Batch
    /\ status \in Statuses
    /\ step \in 1..(Len(Runbook) + 1)
    /\ log \in [Steps -> LogStates]
    /\ attempt \in [Steps -> Nat]
    /\ gate \in [Steps -> GateStates]
    /\ votes \in [Steps -> SUBSET Users]

ProcessesOK ==
    /\ at \in [Processes -> Places]
    /\ seen \in [Processes -> Copies]
    /\ \A p \in Processes : at[p] \in OnStep => seen[p].on \in Steps

PastOK ==
    /\ execs \in [Steps -> Nat]
    /\ approvers \in [Steps -> SUBSET Users]
    /\ reported \in BOOLEAN /\ overwritten \in BOOLEAN
    /\ budget \in 0..MaxFaults

TypeOK == RowsOK /\ ProcessesOK /\ PastOK

\* A run as the trigger dispatcher, or Replay, creates it.
Init ==
    /\ policy \in Policies /\ quorum \in Quorums /\ stuck \in 0..Batch
    /\ status = "PENDING" /\ step = 1
    /\ log = [s \in Steps |-> "none"]
    /\ attempt = [s \in Steps |-> 0]
    /\ gate = [s \in Steps |-> "none"]
    /\ votes = [s \in Steps |-> {}]
    /\ at = [p \in Processes |-> "idle"]
    /\ seen = [p \in Processes |-> Nothing]
    /\ execs = [s \in Steps |-> 0]
    /\ approvers = [s \in Steps |-> {}]
    /\ reported = FALSE /\ overwritten = FALSE
    /\ budget = MaxFaults

-----------------------------------------------------------------------------
(* The driver: claim, then Advance on the copy the claim returned.         *)

\* The loop goes back to its timers, with the run row written from its copy.
WriteRun(d, st, s) ==
    /\ status' = st /\ step' = s
    /\ Finish(d)

\* EnsureRunStep: the row of the step the loop works on, at its attempt.
Record(d, result) ==
    /\ log' = [log EXCEPT ![seen[d].on] = result]
    /\ attempt' = [attempt EXCEPT ![seen[d].on] = seen[d].attempt]

\* SystemClaimRunnableRuns, ORDER BY started_at LIMIT Batch: a copy of a
\* runnable run, unless older runs fill every batch.
Claim(d) ==
    /\ at[d] = "idle" /\ status \in Runnable
    /\ stuck < Batch
    /\ Read(d, RunCopy(step))
    /\ Goto(d, IF status = "PENDING" THEN "start" ELSE "look")
    /\ UNCHANGED <<givenVars, runVars, gateVars, pastVars, budget>>

\* startRun.
Start(d) ==
    /\ at[d] = "start"
    /\ WriteRun(d, "RUNNING", seen[d].step)
    /\ UNCHANGED <<givenVars, log, attempt, gateVars, pastVars, budget>>

\* Mutant of Route: a step that was already executed is executed again.
RouteAgain(s) ==
    CASE s \notin Steps -> "complete"
      [] s \in Gates -> "gate"
      [] OTHER -> "prepare"

\* Where advanceRunning goes at step s: past the last step, to a gate, past an
\* action whose step row is OK, or to another attempt.
Route(s) ==
    CASE s \notin Steps -> "complete"
      [] s \in Gates -> "gate"
      [] s \in Steps \ Gates /\ log[s] = "OK" -> "skip"
      [] OTHER -> "prepare"

\* advanceRunning: the read transaction, and the next attempt's number.
Look(d) ==
    LET s == seen[d].on IN
    /\ at[d] = "look"
    /\ Read(d, [seen[d] EXCEPT !.attempt = IF s \in Steps THEN attempt[s] + 1 ELSE 0])
    /\ Goto(d, Route(s))
    /\ UNCHANGED <<givenVars, runVars, gateVars, pastVars, budget>>

\* completeRun.
Complete(d) ==
    /\ at[d] = "complete"
    /\ WriteRun(d, "COMPLETED", seen[d].step)
    /\ UNCHANGED <<givenVars, log, attempt, gateVars, pastVars, budget>>

\* Mutant of Prepare: the attempt is not recorded before the action runs.
PrepareUnrecorded(d) ==
    /\ at[d] = "prepare"
    /\ log' = [log EXCEPT ![seen[d].on] = "RUNNING"]
    /\ Goto(d, "execute")
    /\ UNCHANGED <<givenVars, status, step, attempt, gateVars, seen, pastVars, budget>>

\* runActionStep, PREPARE: the attempt is recorded as RUNNING.
Prepare(d) ==
    /\ at[d] = "prepare"
    /\ Record(d, "RUNNING")
    /\ Goto(d, "execute")
    /\ UNCHANGED <<givenVars, status, step, gateVars, seen, pastVars, budget>>

\* Execute: the side effect, outside any transaction; it may fail.
Execute(d) ==
    /\ at[d] = "execute"
    /\ execs' = [execs EXCEPT ![seen[d].on] = @ + 1]
    /\ \E x \in {"done", "failed"} : Goto(d, x)
    /\ UNCHANGED <<givenVars, runVars, gateVars, seen, approvers, reported, overwritten, budget>>

\* advanceInTx: past step s, and to COMPLETED after the last one.
AdvancePast(d, s) ==
    WriteRun(d, IF s = Len(Runbook) THEN "COMPLETED" ELSE seen[d].status, s + 1)

\* runActionStep, PERSIST after a success: step row and run row in one.
PersistDone(d) ==
    /\ at[d] = "done"
    /\ Record(d, "OK")
    /\ AdvancePast(d, seen[d].on)
    /\ UNCHANGED <<givenVars, gateVars, pastVars, budget>>

\* persistAdvance: the step row was OK before.
Skip(d) ==
    /\ at[d] = "skip"
    /\ AdvancePast(d, seen[d].on)
    /\ UNCHANGED <<givenVars, log, attempt, gateVars, pastVars, budget>>

\* runActionStep, PERSIST after a failure: the run goes on to another attempt,
\* or, after the last one (failActionStep), ends.
PersistFailed(d) ==
    LET last == seen[d].attempt >= MaxAttempts IN
    /\ at[d] = "failed"
    /\ Record(d, "FAILED")
    /\ WriteRun(d, IF last THEN "FAILED" ELSE seen[d].status, seen[d].step)
    /\ reported' = (reported \/ last)
    /\ UNCHANGED <<givenVars, gateVars, execs, approvers, overwritten, budget>>

\* openGate, no gate row yet: gate row, step row and run row in one.
Park(d) ==
    LET s == seen[d].on IN
    /\ at[d] = "gate" /\ gate[s] = "none"
    /\ gate' = [gate EXCEPT ![s] = "OPEN"]
    /\ log' = [log EXCEPT ![s] = "AWAITING"]
    /\ attempt' = [attempt EXCEPT ![s] = 1]
    /\ WriteRun(d, "AWAITING_APPROVAL", s)
    /\ UNCHANGED <<givenVars, votes, pastVars, budget>>

\* openGate on a gate that is already resolved, or still open.  The FAILED of a
\* rejected or expired gate is written inside the transaction whose callback
\* then returns RecordedFailureError, so the transaction rolls back: the loop
\* is told of a recorded failure and no row has changed.
Reopen(d) ==
    LET s == seen[d].on IN
    /\ at[d] = "gate" /\ gate[s] # "none"
    /\ \/ gate[s] = "APPROVED" /\ Goto(d, "resume") /\ UNCHANGED seen
       \/ gate[s] # "APPROVED" /\ Finish(d)
    /\ reported' = (reported \/ gate[s] \in {"REJECTED", "EXPIRED"})
    /\ UNCHANGED <<givenVars, runVars, gateVars, execs, approvers, overwritten, budget>>

\* Mutants of Resume: the run is moved twice, or not past the gate; the step row
\* is not recorded.
ResumeTwice(d) ==
    LET s == seen[d].on IN
    /\ at[d] = "resume"
    /\ log' = [log EXCEPT ![s] = "APPROVED"]
    /\ attempt' = [attempt EXCEPT ![s] = 1]
    /\ WriteRun(d, "RUNNING", s + 2)
    /\ UNCHANGED <<givenVars, gateVars, pastVars, budget>>

ResumeInPlace(d) ==
    LET s == seen[d].on IN
    /\ at[d] = "resume"
    /\ log' = [log EXCEPT ![s] = "APPROVED"]
    /\ attempt' = [attempt EXCEPT ![s] = 1]
    /\ WriteRun(d, "RUNNING", s)
    /\ UNCHANGED <<givenVars, gateVars, pastVars, budget>>

ResumeUnrecorded(d) ==
    /\ at[d] = "resume"
    /\ WriteRun(d, "RUNNING", seen[d].step + 1)
    /\ UNCHANGED <<givenVars, log, attempt, gateVars, pastVars, budget>>

\* resumeAfterGate.
Resume(d) ==
    LET s == seen[d].on IN
    /\ at[d] = "resume"
    /\ log' = [log EXCEPT ![s] = "APPROVED"]
    /\ attempt' = [attempt EXCEPT ![s] = 1]
    /\ WriteRun(d, "RUNNING", s + 1)
    /\ UNCHANGED <<givenVars, gateVars, pastVars, budget>>

\* The loop advances an older run to a rejected gate.  failRunInTx rolls its own
\* failure back, as in Reopen, so that run heads the batches from now on.  It is
\* counted when this run competes for a claim: nothing else depends on it.
OlderSticks(d) ==
    /\ at[d] = "idle" /\ status \in Runnable /\ stuck < Batch
    /\ stuck' = stuck + 1
    /\ UNCHANGED <<policy, quorum, runVars, gateVars, procVars, pastVars, budget>>

\* A transaction fails, or the loop's process dies, wherever it is.
Abandon(d) ==
    /\ at[d] # "idle" /\ Fault
    /\ Finish(d)
    /\ UNCHANGED <<givenVars, runVars, gateVars, pastVars>>

-----------------------------------------------------------------------------
(* The writers of gates: approvers and the timeout sweeper.                *)

\* Gate row and run row, written from p's copy, in one transaction.
Resolve(p, g, v, st) ==
    LET s == seen[p].on IN
    /\ gate' = [gate EXCEPT ![s] = g]
    /\ votes' = [votes EXCEPT ![s] = v]
    /\ status' = st /\ step' = seen[p].step
    /\ overwritten' = (overwritten \/ Stale(p))
    /\ Finish(p)
    /\ UNCHANGED <<givenVars, log, attempt, execs, reported, budget>>

\* The gate row alone, written from p's copy.
WriteGate(p, g, v) ==
    LET s == seen[p].on IN
    /\ gate' = [gate EXCEPT ![s] = g]
    /\ votes' = [votes EXCEPT ![s] = v]
    /\ overwritten' = (overwritten \/ Stale(p))
    /\ Finish(p)
    /\ UNCHANGED <<givenVars, runVars, execs, reported, budget>>

\* decideRun and decide, the reads: the run is parked and its gate undecided.
Decide(u) ==
    /\ at[u] = "idle" /\ status \in Parked
    /\ GateAt(step) \in Undecided
    /\ Read(u, GateCopy(step))
    /\ \E verdict \in {"approve", "reject"} : Goto(u, verdict)
    /\ UNCHANGED <<givenVars, runVars, gateVars, pastVars, budget>>

\* Mutant of QuorumMet: one approval short.
QuorumNearlyMet(v) == Cardinality(v) + 1 >= quorum

QuorumMet(v) == Cardinality(v) >= quorum

\* decide, the writes of an approval: the vote, and with the quorum the
\* resolution, which re-arms the run.
Approve(u) ==
    LET v == seen[u].votes \cup {u} IN
    /\ at[u] = "approve"
    /\ approvers' = [approvers EXCEPT ![seen[u].on] = @ \cup {u}]
    /\ \/ QuorumMet(v) /\ Resolve(u, "APPROVED", v, "RUNNING")
       \/ ~QuorumMet(v) /\ WriteGate(u, seen[u].gate, v)

\* decide, the writes of a rejection; it replaces an earlier approval of u.
Reject(u) ==
    /\ at[u] = "reject"
    /\ Resolve(u, "REJECTED", seen[u].votes \ {u}, "FAILED")
    /\ UNCHANGED approvers

\* sweepGates: an OPEN gate past its deadline is listed.
List(d) ==
    /\ at[d] = "idle" /\ policy # "none"
    /\ \E s \in Gates :
        /\ gate[s] = "OPEN"
        /\ Read(d, GateCopy(s))
    /\ Goto(d, "listed")
    /\ UNCHANGED <<givenVars, runVars, gateVars, pastVars, budget>>

\* ApplyTimeout reads the run again, but not the gate.
Reread(d) ==
    /\ at[d] = "listed"
    /\ Read(d, [seen[d] EXCEPT !.status = status, !.step = step])
    /\ Goto(d, "timeout")
    /\ UNCHANGED <<givenVars, runVars, gateVars, pastVars, budget>>

\* Mutant of TimeoutStatus: the run of an aborted gate stays parked.
TimeoutLeavesParked ==
    CASE policy = "abort" -> "AWAITING_APPROVAL"
      [] policy = "auto_approve" -> "RUNNING"
      [] OTHER -> "ESCALATED"

\* What each timeout_action makes of the run, and of the gate; an unknown one
\* escalates.
TimeoutStatus ==
    CASE policy = "abort" -> "ABORTED"
      [] policy = "auto_approve" -> "RUNNING"
      [] OTHER -> "ESCALATED"

TimeoutGate ==
    CASE policy = "abort" -> "EXPIRED"
      [] policy = "auto_approve" -> "APPROVED"
      [] OTHER -> "ESCALATED"

\* ApplyTimeout, the writes: the policy when the run is still parked on the
\* gate, else the gate is taken for a leftover and closed.
ApplyTimeout(d) ==
    /\ at[d] = "timeout"
    /\ \/ /\ seen[d].status = "AWAITING_APPROVAL"
          /\ Resolve(d, TimeoutGate, seen[d].votes, TimeoutStatus)
       \/ /\ seen[d].status # "AWAITING_APPROVAL"
          /\ WriteGate(d, "EXPIRED", seen[d].votes)
    /\ UNCHANGED approvers

-----------------------------------------------------------------------------
Advance(d) ==
    \/ Start(d) \/ Look(d) \/ Complete(d) \/ Prepare(d) \/ Execute(d)
    \/ PersistDone(d) \/ Skip(d) \/ PersistFailed(d)
    \/ Park(d) \/ Reopen(d) \/ Resume(d)

Sweep(d) == Reread(d) \/ ApplyTimeout(d)

Next ==
    \/ \E d \in Drivers : Claim(d) \/ Advance(d) \/ OlderSticks(d) \/ Abandon(d) \/ List(d) \/ Sweep(d)
    \/ \E u \in Users : Decide(u) \/ Approve(u) \/ Reject(u)

Spec == Init /\ [][Next]_vars

\* The loop keeps running, and ends what it has begun.  A claim comes round
\* although sweeps go on, and reaches this run again and again while fewer than
\* Batch older runs are stuck, because the other older runs park or end in their
\* turn.  Nothing forces a request, a decision or a timeout.
Fairness == \A d \in Drivers : SF_vars(Claim(d)) /\ WF_vars(Advance(d) \/ Sweep(d))

FairSpec == Spec /\ Fairness

-----------------------------------------------------------------------------
(* Properties.                                                             *)

\* No step is skipped, so a finished run can be replayed (firstStepGap): the
\* run is past a step only when its row says OK or APPROVED, also after the
\* run row was overwritten from an old copy, and COMPLETED means all of them.
NoGap ==
    /\ \A s \in Steps : s < step => log[s] \in {"OK", "APPROVED"}
    /\ status = "COMPLETED" => step = Len(Runbook) + 1

\* Every execution of an action has an attempt of its own on record before it
\* begins (PREPARE), crashes between the transactions included.
AttemptsRecorded == \A s \in Steps : execs[s] <= attempt[s]

\* An action that is on record as OK stays on record and is never executed again
\* (runActionStep), not even when the run row was set back to an earlier step.
OkNeverRefired ==
    [][\A s \in Steps : log[s] = "OK" => log'[s] = "OK" /\ execs'[s] = execs[s]]_vars

\* No action behind a gate is executed unless quorum different users approved,
\* or the gate timed out under auto_approve, however votes, timeouts and the
\* driver interleave (ApproveGate, openGate).
GateHolds ==
    \A g \in Gates, s \in Steps :
        g < s /\ execs[s] > 0 => Cardinality(approvers[g]) >= quorum \/ policy = "auto_approve"

\* Gate row and run row say the same.
Agree ==
    \A g \in Gates :
        CASE gate[g] = "OPEN"      -> status = "AWAITING_APPROVAL" /\ step = g
          [] gate[g] = "ESCALATED" -> status = "ESCALATED" /\ step = g
          [] gate[g] = "REJECTED"  -> status = "FAILED"
          [] gate[g] = "EXPIRED"   -> status = "ABORTED"
          [] gate[g] = "APPROVED"  -> step > g \/ status = "RUNNING"
          [] OTHER                 -> step <= g

\* The two rows diverge only by a writer that overwrote a row which had changed
\* since it read it: no order of transactions and crashes alone does it.
DivergeOnlyByOverwrite == ~overwritten => Agree

\* Every batch is taken by older runs that will never end.
CrowdedOut == stuck >= Batch

\* A run that can be advanced is advanced until it parks or ends: no order of
\* crashes, failures, votes and timeouts leaves it claimed for ever, except
\* after an overwrite, and none leaves it waiting for ever behind fewer stuck
\* runs than a batch holds.
EveryRunSettles == status \in Runnable ~> status \notin Runnable \/ overwritten \/ CrowdedOut

\* orchestrator.go: RecordedFailureError says that the orchestrator "has ALREADY
\* durably recorded [...] the terminal FAILED run status".
ReportedIsRecorded == reported => status = "FAILED"
=============================================================================
