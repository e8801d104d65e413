------------------------- MODULE AutomationRunProofs -------------------------
(***************************************************************************)
(* Proofs about AutomationRun, for every runbook, every set of approvers,  *)
(* quorum, attempt limit and number of faults.  The approvals are proved   *)
(* for any number of drivers; what is said of attempts, of the log and of  *)
(* repeated actions needs the one driver that exclusive leadership gives.  *)
(***************************************************************************)
EXTENDS AutomationRun, FiniteSetTheorems, TLAPS

USE DEF givenVars, runVars, gateVars, procVars, pastVars

-----------------------------------------------------------------------------
(* Types.                                                                  *)

\* The runbook has a length.
LEMMA LengthType == Len(Runbook) \in Nat /\ Len(Runbook) + 1 \in 1..(Len(Runbook) + 1)
<1>1. Len(Runbook) \in Nat
  BY AutomationAssumption
<1> QED
  BY <1>1

\* The three copies a process can hold are copies.
LEMMA CopyType ==
    ASSUME RowsOK, NEW s \in 1..(Len(Runbook) + 1)
    PROVE  /\ Nothing \in Copies
           /\ RunCopy(s) \in Copies /\ RunCopy(s).on = s /\ RunCopy(s).step = step
           /\ GateCopy(s) \in Copies /\ GateCopy(s).on = s /\ GateCopy(s).step = step
<1>1. Nothing \in Copies
  <2>1. "PENDING" \in Statuses /\ "none" \in GateStates /\ 1 \in 1..(Len(Runbook) + 1)
    BY LengthType DEF Statuses, GateStates
  <2> QED
    BY <2>1 DEF Nothing, Copies
<1>2. RunCopy(s) \in Copies /\ RunCopy(s).on = s /\ RunCopy(s).step = step
  BY <1>1 DEF RunCopy, Copies, Nothing, RowsOK
<1>3. GateAt(s) \in GateStates /\ VotesAt(s) \in SUBSET Users
  BY DEF GateAt, VotesAt, RowsOK, GateStates
<1>4. GateCopy(s) \in Copies /\ GateCopy(s).on = s /\ GateCopy(s).step = step
  BY <1>2, <1>3 DEF GateCopy, Copies
<1> QED
  BY <1>1, <1>2, <1>4

\* A process that goes to a place with a copy that fits it.
LEMMA MoveType ==
    ASSUME ProcessesOK, NEW p \in Processes, NEW x \in Places, NEW c \in Copies,
           Goto(p, x), Read(p, c), x \in OnStep => c.on \in Steps
    PROVE  ProcessesOK'
BY DEF ProcessesOK, Goto, Read

\* A process that goes on with the copy it has.
LEMMA StayType ==
    ASSUME ProcessesOK, NEW p \in Processes, NEW x \in Places,
           Goto(p, x), UNCHANGED seen, x \in OnStep => seen[p].on \in Steps
    PROVE  ProcessesOK'
BY DEF ProcessesOK, Goto

\* A process that is done.
LEMMA FinishType ==
    ASSUME RowsOK, ProcessesOK, NEW p \in Processes, Finish(p)
    PROVE  ProcessesOK'
<1>1. Nothing \in Copies
  BY CopyType DEF RowsOK
<1>2. "idle" \in Places \ OnStep
  BY DEF Places, OnStep
<1> QED
  BY <1>1, <1>2, MoveType DEF Finish

\* Route goes to a step only when there is one.
LEMMA RouteType ==
    ASSUME RowsOK, NEW s \in 1..(Len(Runbook) + 1)
    PROVE  /\ Route(s) \in {"complete", "gate", "skip", "prepare"}
           /\ Route(s) = "complete" <=> s \notin Steps
           /\ Route(s) = "gate" => s \in Gates
           /\ Route(s) \in {"skip", "prepare"} => s \in Steps \ Gates
           /\ Route(s) = "skip" => log[s] = "OK"
           /\ Route(s) = "prepare" => log[s] # "OK"
<1>1. CASE s \notin Steps
  BY <1>1 DEF Route, Gates
<1>2. CASE s \in Gates
  <2>1. s \in Steps
    BY <1>2 DEF Gates
  <2>2. Route(s) = "gate"
    BY <1>2, <2>1 DEF Route
  <2> QED
    BY <1>2, <2>1, <2>2
<1>3. CASE s \in Steps \ Gates /\ log[s] = "OK"
  <2>1. Route(s) = "skip"
    BY <1>3 DEF Route
  <2> QED
    BY <1>3, <2>1
<1>4. CASE s \in Steps \ Gates /\ log[s] # "OK"
  <2>1. Route(s) = "prepare"
    BY <1>4 DEF Route
  <2> QED
    BY <1>4, <2>1
<1> QED
  BY <1>1, <1>2, <1>3, <1>4

\* A counted thing once more is still counted.
LEMMA CountType ==
    ASSUME NEW f \in [Steps -> Nat], NEW s
    PROVE  [f EXCEPT ![s] = @ + 1] \in [Steps -> Nat]
<1>1. \A t \in Steps : f[t] + 1 \in Nat
  OBVIOUS
<1> QED
  BY <1>1

\* The rows after a driver has written the run from its copy.
LEMMA WriteRunType ==
    ASSUME RowsOK, ProcessesOK, NEW d \in Processes, NEW st \in Statuses,
           NEW s \in 1..(Len(Runbook) + 1),
           WriteRun(d, st, s)
    PROVE  /\ status' \in Statuses /\ step' \in 1..(Len(Runbook) + 1)
           /\ ProcessesOK'
BY FinishType DEF WriteRun

\* The next step of a step of the runbook.
LEMMA NextStepType ==
    ASSUME NEW s \in Steps
    PROVE  s \in 1..(Len(Runbook) + 1) /\ s + 1 \in 1..(Len(Runbook) + 1)
BY LengthType DEF Steps

\* The step rows after a driver has recorded a result.
LEMMA RecordType ==
    ASSUME RowsOK, ProcessesOK, NEW d \in Processes, at[d] \in OnStep,
           NEW x \in LogStates, Record(d, x)
    PROVE  log' \in [Steps -> LogStates] /\ attempt' \in [Steps -> Nat]
<1>1. seen[d].attempt \in Nat
  BY DEF ProcessesOK, Copies
<1> QED
  BY <1>1 DEF Record, RowsOK

\* The driver's steps keep the types.
LEMMA DriverType ==
    ASSUME TypeOK, NEW d \in Processes, Claim(d) \/ Advance(d) \/ Abandon(d)
    PROVE  TypeOK'
<1> USE DEF TypeOK
<1>1. seen[d] \in Copies /\ at[d] \in Places /\ (at[d] \in OnStep => seen[d].on \in Steps)
  BY DEF ProcessesOK
<1>2. /\ seen[d].status \in Statuses /\ seen[d].step \in 1..(Len(Runbook) + 1)
      /\ seen[d].on \in 1..(Len(Runbook) + 1) /\ seen[d].attempt \in Nat
  BY <1>1 DEF Copies
<1>3. /\ {"idle", "start", "look", "complete"} \cap OnStep = {}
      /\ {"gate", "skip", "prepare", "execute", "done", "failed", "resume"} \subseteq OnStep
      /\ OnStep \subseteq Places /\ {"idle", "start", "look", "complete"} \subseteq Places
  BY DEF OnStep, Places
<1>4. {"RUNNING", "COMPLETED", "FAILED", "AWAITING_APPROVAL"} \subseteq Statuses
  BY DEF Statuses
<1>5. {"RUNNING", "OK", "FAILED", "AWAITING", "APPROVED"} \subseteq LogStates
  BY DEF LogStates
<1>6. CASE Claim(d)
  <2>1. RunCopy(step) \in Copies
    BY CopyType DEF RowsOK
  <2>2. PICK x \in {"start", "look"} : Goto(d, x) /\ Read(d, RunCopy(step))
    BY <1>6 DEF Claim
  <2>3. ProcessesOK'
    BY <2>1, <2>2, <1>3, MoveType
  <2> QED
    BY <1>6, <2>3 DEF Claim, RowsOK, PastOK
<1>7. CASE Start(d)
  <2>1. status' \in Statuses /\ step' \in 1..(Len(Runbook) + 1) /\ ProcessesOK'
    BY <1>7, <1>2, <1>4, WriteRunType DEF Start
  <2> QED
    BY <1>7, <2>1 DEF Start, RowsOK, PastOK
<1>8. CASE Look(d)
  <2> DEFINE n == IF seen[d].on \in Steps THEN attempt[seen[d].on] + 1 ELSE 0
             c == [seen[d] EXCEPT !.attempt = n]
  <2>1. n \in Nat
    BY DEF RowsOK
  <2>2. c \in Copies /\ c.on = seen[d].on
    BY <1>1, <2>1 DEF Copies
  <2>3. Goto(d, Route(seen[d].on)) /\ Read(d, c)
    BY <1>8 DEF Look
  <2>4. Route(seen[d].on) \in Places /\ (Route(seen[d].on) \in OnStep => c.on \in Steps)
    BY <1>2, <1>3, <2>2, RouteType
  <2>5. ProcessesOK'
    BY <2>2, <2>3, <2>4, MoveType
  <2> QED
    BY <1>8, <2>5 DEF Look, RowsOK, PastOK
<1>9. CASE Complete(d)
  <2>1. status' \in Statuses /\ step' \in 1..(Len(Runbook) + 1) /\ ProcessesOK'
    BY <1>9, <1>2, <1>4, WriteRunType DEF Complete
  <2> QED
    BY <1>9, <2>1 DEF Complete, RowsOK, PastOK
<1>10. CASE Prepare(d)
  <2>1. at[d] \in OnStep /\ "execute" \in Places /\ seen[d].on \in Steps
    BY <1>10, <1>1, <1>3 DEF Prepare
  <2>2. ProcessesOK'
    BY <1>10, <2>1, StayType DEF Prepare
  <2>3. log' \in [Steps -> LogStates] /\ attempt' \in [Steps -> Nat]
    BY <1>10, <1>5, <2>1, RecordType DEF Prepare
  <2> QED
    BY <1>10, <2>2, <2>3 DEF Prepare, RowsOK, PastOK
<1>11. CASE Execute(d)
  <2>1. seen[d].on \in Steps /\ {"done", "failed"} \subseteq Places
    BY <1>11, <1>1, <1>3 DEF Execute
  <2>2. ProcessesOK'
    BY <1>11, <2>1, StayType DEF Execute
  <2>3. execs' \in [Steps -> Nat]
    BY <1>11, CountType DEF Execute, PastOK
  <2> QED
    BY <1>11, <2>2, <2>3 DEF Execute, RowsOK, PastOK
<1>12. CASE PersistDone(d)
  <2>1. at[d] \in OnStep /\ seen[d].on \in Steps
    BY <1>12, <1>1, <1>3 DEF PersistDone
  <2>2. status' \in Statuses /\ step' \in 1..(Len(Runbook) + 1) /\ ProcessesOK'
    BY <1>12, <2>1, <1>2, <1>4, NextStepType, WriteRunType DEF PersistDone, AdvancePast
  <2>3. log' \in [Steps -> LogStates] /\ attempt' \in [Steps -> Nat]
    BY <1>12, <1>5, <2>1, RecordType DEF PersistDone
  <2> QED
    BY <1>12, <2>2, <2>3 DEF PersistDone, RowsOK, PastOK
<1>13. CASE Skip(d)
  <2>1. at[d] \in OnStep /\ seen[d].on \in Steps
    BY <1>13, <1>1, <1>3 DEF Skip
  <2>2. status' \in Statuses /\ step' \in 1..(Len(Runbook) + 1) /\ ProcessesOK'
    BY <1>13, <2>1, <1>2, <1>4, NextStepType, WriteRunType DEF Skip, AdvancePast
  <2> QED
    BY <1>13, <2>2 DEF Skip, RowsOK, PastOK
<1>14. CASE PersistFailed(d)
  <2>1. at[d] \in OnStep
    BY <1>14, <1>3 DEF PersistFailed
  <2>2. status' \in Statuses /\ step' \in 1..(Len(Runbook) + 1) /\ ProcessesOK'
    BY <1>14, <1>2, <1>4, WriteRunType DEF PersistFailed
  <2>3. log' \in [Steps -> LogStates] /\ attempt' \in [Steps -> Nat]
    BY <1>14, <1>5, <2>1, RecordType DEF PersistFailed
  <2>4. reported' \in BOOLEAN
    BY <1>14 DEF PersistFailed
  <2> QED
    BY <1>14, <2>2, <2>3, <2>4 DEF PersistFailed, RowsOK, PastOK
<1>15. CASE Park(d)
  <2>1. seen[d].on \in Steps
    BY <1>15, <1>1, <1>3 DEF Park
  <2>2. status' \in Statuses /\ step' \in 1..(Len(Runbook) + 1) /\ ProcessesOK'
    BY <1>15, <2>1, <1>2, <1>4, WriteRunType DEF Park
  <2>3. log' \in [Steps -> LogStates] /\ attempt' \in [Steps -> Nat] /\ gate' \in [Steps -> GateStates]
    BY <1>15, <1>5 DEF Park, RowsOK, GateStates
  <2> QED
    BY <1>15, <2>2, <2>3 DEF Park, RowsOK, PastOK
<1>16. CASE Reopen(d)
  <2>1. seen[d].on \in Steps /\ "resume" \in Places
    BY <1>16, <1>1, <1>3 DEF Reopen
  <2>2. Goto(d, "resume") /\ UNCHANGED seen => ProcessesOK'
    BY <2>1, StayType
  <2>3. Finish(d) => ProcessesOK'
    BY FinishType
  <2>4. reported' \in BOOLEAN
    BY <1>16 DEF Reopen
  <2> QED
    BY <1>16, <2>2, <2>3, <2>4 DEF Reopen, RowsOK, PastOK
<1>17. CASE Resume(d)
  <2>1. seen[d].on \in Steps
    BY <1>17, <1>1, <1>3 DEF Resume
  <2>2. status' \in Statuses /\ step' \in 1..(Len(Runbook) + 1) /\ ProcessesOK'
    BY <1>17, <2>1, <1>4, NextStepType, WriteRunType DEF Resume
  <2>3. log' \in [Steps -> LogStates] /\ attempt' \in [Steps -> Nat]
    BY <1>17, <1>5 DEF Resume, RowsOK
  <2> QED
    BY <1>17, <2>2, <2>3 DEF Resume, RowsOK, PastOK
<1>18. CASE Abandon(d)
  <2>1. budget' \in 0..MaxFaults
    BY <1>18, AutomationAssumption DEF Abandon, Fault, PastOK
  <2>2. ProcessesOK'
    BY <1>18, FinishType DEF Abandon
  <2> QED
    BY <1>18, <2>1, <2>2 DEF Abandon, RowsOK, PastOK
<1> QED
  BY <1>6, <1>7, <1>8, <1>9, <1>10, <1>11, <1>12, <1>13, <1>14, <1>15, <1>16, <1>17, <1>18
  DEF Advance

\* What a writer of gates leaves.
LEMMA ResolveType ==
    ASSUME RowsOK, ProcessesOK, NEW p \in Processes, at[p] \in OnStep,
           NEW g \in GateStates, NEW v \in SUBSET Users, NEW st \in Statuses,
           PastOK, Resolve(p, g, v, st) \/ WriteGate(p, g, v)
    PROVE  RowsOK' /\ ProcessesOK' /\ overwritten' \in BOOLEAN
<1>1. seen[p].step \in 1..(Len(Runbook) + 1)
  BY DEF ProcessesOK, Copies
<1>2. ProcessesOK'
  BY FinishType DEF Resolve, WriteGate
<1>3. CASE Resolve(p, g, v, st)
  BY <1>1, <1>2, <1>3 DEF Resolve, RowsOK, PastOK
<1>4. CASE WriteGate(p, g, v)
  BY <1>1, <1>2, <1>4 DEF WriteGate, RowsOK, PastOK
<1> QED
  BY <1>3, <1>4

\* The steps of the approvers and of the sweeper keep the types.
LEMMA GateWriterType ==
    ASSUME TypeOK,
           \/ \E d \in Drivers : List(d) \/ Sweep(d)
           \/ \E u \in Users : Decide(u) \/ Approve(u) \/ Reject(u)
    PROVE  TypeOK'
<1> USE DEF TypeOK
<1>1. \A p \in Processes : seen[p] \in Copies /\ (at[p] \in OnStep => seen[p].on \in Steps)
  BY DEF ProcessesOK
<1>2. \A p \in Processes :
        /\ seen[p].status \in Statuses /\ seen[p].gate \in GateStates
        /\ seen[p].votes \in SUBSET Users
  BY <1>1 DEF Copies
<1>3. {"approve", "reject", "listed", "timeout"} \subseteq OnStep /\ OnStep \subseteq Places
  BY DEF OnStep, Places
<1>4. {"APPROVED", "REJECTED", "EXPIRED", "ESCALATED"} \subseteq GateStates
  BY DEF GateStates
<1>5. {"RUNNING", "FAILED", "ABORTED", "ESCALATED"} \subseteq Statuses
  BY DEF Statuses
<1>6. ASSUME NEW d \in Drivers, List(d) PROVE TypeOK'
  <2>1. PICK s \in Gates : Read(d, GateCopy(s)) /\ Goto(d, "listed")
    BY <1>6 DEF List
  <2>2. s \in Steps /\ s \in 1..(Len(Runbook) + 1)
    BY NextStepType DEF Gates
  <2>3. GateCopy(s) \in Copies /\ GateCopy(s).on = s
    BY <2>2, CopyType
  <2>4. ProcessesOK'
    BY <2>1, <2>2, <2>3, <1>3, MoveType DEF Processes
  <2> QED
    BY <1>6, <2>4 DEF List, RowsOK, PastOK
<1>7. ASSUME NEW d \in Drivers, Reread(d) PROVE TypeOK'
  <2> DEFINE c == [seen[d] EXCEPT !.status = status, !.step = step]
  <2>1. d \in Processes
    BY DEF Processes
  <2>2. at[d] \in OnStep /\ Read(d, c) /\ Goto(d, "timeout")
    BY <1>7, <1>3 DEF Reread
  <2>3. c \in Copies /\ c.on = seen[d].on
    BY <1>1, <2>1 DEF Copies, RowsOK
  <2>4. ProcessesOK'
    BY <1>1, <1>3, <2>1, <2>2, <2>3, MoveType
  <2> QED
    BY <1>7, <2>4 DEF Reread, RowsOK, PastOK
<1>8. ASSUME NEW d \in Drivers, ApplyTimeout(d) PROVE TypeOK'
  <2>1. d \in Processes /\ at[d] \in OnStep
    BY <1>8, <1>3 DEF ApplyTimeout, Processes
  <2>2. TimeoutGate \in GateStates /\ TimeoutStatus \in Statuses
    BY <1>4, <1>5 DEF TimeoutGate, TimeoutStatus
  <2>3. RowsOK' /\ ProcessesOK' /\ overwritten' \in BOOLEAN
    BY <1>2, <1>4, <1>8, <2>1, <2>2, ResolveType DEF ApplyTimeout
  <2> QED
    BY <1>8, <2>3 DEF ApplyTimeout, Resolve, WriteGate, PastOK
<1>9. ASSUME NEW u \in Users, Decide(u) PROVE TypeOK'
  <2>1. PICK x \in {"approve", "reject"} : Goto(u, x) /\ Read(u, GateCopy(step))
    BY <1>9 DEF Decide
  <2>2. step \in Steps
    BY <1>9 DEF Decide, GateAt, Undecided
  <2>3. GateCopy(step) \in Copies /\ GateCopy(step).on = step
    BY CopyType DEF RowsOK
  <2>4. ProcessesOK'
    BY <2>1, <2>2, <2>3, <1>3, MoveType DEF Processes
  <2> QED
    BY <1>9, <2>4 DEF Decide, RowsOK, PastOK
<1>10. ASSUME NEW u \in Users, Approve(u) PROVE TypeOK'
  <2> DEFINE v == seen[u].votes \cup {u}
  <2>1. u \in Processes /\ at[u] \in OnStep
    BY <1>10, <1>3 DEF Approve, Processes
  <2>2. v \in SUBSET Users
    BY <1>2, <2>1
  <2>3. Resolve(u, "APPROVED", v, "RUNNING") \/ WriteGate(u, seen[u].gate, v)
    BY <1>10 DEF Approve
  <2>4. RowsOK' /\ ProcessesOK' /\ overwritten' \in BOOLEAN
    BY <1>2, <1>4, <1>5, <2>1, <2>2, <2>3, ResolveType
  <2>5. approvers' \in [Steps -> SUBSET Users]
    BY <1>10 DEF Approve, PastOK
  <2> QED
    BY <2>3, <2>4, <2>5 DEF Resolve, WriteGate, PastOK
<1>11. ASSUME NEW u \in Users, Reject(u) PROVE TypeOK'
  <2>1. u \in Processes /\ at[u] \in OnStep
    BY <1>11, <1>3 DEF Reject, Processes
  <2>2. seen[u].votes \ {u} \in SUBSET Users
    BY <1>2, <2>1
  <2>3. RowsOK' /\ ProcessesOK' /\ overwritten' \in BOOLEAN
    BY <1>4, <1>5, <1>11, <2>1, <2>2, ResolveType DEF Reject
  <2> QED
    BY <1>11, <2>3 DEF Reject, Resolve, PastOK
<1> QED
  BY <1>6, <1>7, <1>8, <1>9, <1>10, <1>11 DEF Sweep

\* A new run has the types.
LEMMA InitType == Init => TypeOK
<1> SUFFICES ASSUME Init PROVE TypeOK
  OBVIOUS
<1>1. RowsOK
  BY LengthType DEF Init, RowsOK, Statuses, LogStates, GateStates
<1>2. Nothing \in Copies
  BY <1>1, CopyType DEF RowsOK
<1>3. ProcessesOK
  BY <1>2 DEF Init, ProcessesOK, Places, OnStep
<1>4. PastOK
  <2>1. MaxFaults \in 0..MaxFaults
    BY AutomationAssumption
  <2>2. execs \in [Steps -> Nat] /\ approvers \in [Steps -> SUBSET Users]
    BY DEF Init
  <2>3. budget = MaxFaults /\ reported = FALSE /\ overwritten = FALSE
    BY DEF Init
  <2> QED
    BY <2>1, <2>2, <2>3 DEF PastOK
<1> QED
  BY <1>1, <1>3, <1>4 DEF TypeOK

\* Every step keeps the types.
LEMMA NextType ==
    ASSUME TypeOK, [Next]_vars
    PROVE  TypeOK'
<1>1. CASE UNCHANGED vars
  BY <1>1 DEF vars, TypeOK, RowsOK, ProcessesOK, PastOK
<1>2. CASE \E d \in Drivers : OlderSticks(d)
  BY <1>2, AutomationAssumption
  DEF OlderSticks, runVars, gateVars, procVars, pastVars, TypeOK, RowsOK, ProcessesOK, PastOK
<1>3. CASE \E d \in Drivers : Claim(d) \/ Advance(d) \/ Abandon(d) \/ List(d) \/ Sweep(d)
  BY <1>3, DriverType, GateWriterType DEF Processes
<1>4. CASE \E u \in Users : Decide(u) \/ Approve(u) \/ Reject(u)
  BY <1>4, GateWriterType DEF Processes
<1> QED
  BY <1>1, <1>2, <1>3, <1>4 DEF Next

\* Type correctness: every variable of the run model stays in its type, and a
\* process that works on a step works on one the runbook has (loop.go,
\* orchestrator.go, gates.go).
THEOREM TypeCorrect == Spec => []TypeOK
BY InitType, NextType, PTL DEF Spec

-----------------------------------------------------------------------------
(* Approvals, for any number of drivers.                                   *)

\* Whoever takes a gate for passed may.
Passed(g) == QuorumMet(approvers[g]) \/ policy = "auto_approve"

\* Every gate before step n is passed.
PassedUpTo(n) == \A g \in Gates : g < n => Passed(g)

\* The places at which a driver works on the step its copy of the run is at.
Driving == {"start", "look", "complete", "gate", "skip", "prepare", "execute", "done", "failed", "resume"}
OnAction == {"skip", "prepare", "execute", "done", "failed"}

\* The rows: an approved gate is passed, votes were cast, and the run is past
\* passed gates only.
RowsApproved ==
    /\ \A g \in Steps : gate[g] = "APPROVED" => Passed(g)
    /\ \A g \in Steps : votes[g] \subseteq approvers[g]
    /\ PassedUpTo(step)

\* The copies: what a process has read was true of some earlier row, and an
\* approval, once committed, is not taken back.
CopyApproved(p) ==
    /\ PassedUpTo(seen[p].step)
    /\ at[p] \in Driving => seen[p].on = seen[p].step
    /\ at[p] \in OnAction => seen[p].on \in Steps \ Gates
    /\ at[p] = "resume" => Passed(seen[p].on)
    /\ at[p] \in {"approve", "reject", "listed", "timeout"} =>
           seen[p].votes \subseteq approvers[seen[p].on]
    /\ at[p] = "approve" => seen[p].gate \in Undecided

CopiesApproved == \A p \in Processes : CopyApproved(p)

ApprovalInv == RowsApproved /\ CopiesApproved /\ GateHolds

\* A quorum stays one when approvers join.
LEMMA QuorumMonotone ==
    ASSUME RowsOK, NEW v \in SUBSET Users, NEW w \in SUBSET Users, v \subseteq w, QuorumMet(v)
    PROVE  QuorumMet(w)
<1>1. IsFiniteSet(w) /\ IsFiniteSet(v)
  BY FS_Subset, AutomationAssumption
<1>2. Cardinality(v) <= Cardinality(w) /\ Cardinality(v) \in Nat /\ Cardinality(w) \in Nat
  BY <1>1, FS_Subset, FS_CardinalityType
<1>3. quorum \in Nat
  BY AutomationAssumption DEF RowsOK
<1> QED
  BY <1>2, <1>3 DEF QuorumMet

\* A gate that is passed stays passed: approvals are added only.
LEMMA PassedStable ==
    ASSUME TypeOK, TypeOK', Next
    PROVE  \A g \in Steps : approvers[g] \subseteq approvers'[g] /\ (Passed(g) => Passed(g)')
<1>1. policy' = policy /\ quorum' = quorum
  BY DEF Next, OlderSticks, Claim, Advance, Abandon, List, Sweep, Decide, Approve, Reject, Start, Look,
         Complete, Prepare, Execute, PersistDone, Skip, PersistFailed, Park, Reopen, Resume,
         Reread, ApplyTimeout, Resolve, WriteGate
<1>2. \A g \in Steps : approvers[g] \subseteq approvers'[g]
  BY DEF TypeOK, PastOK, Next, Claim, Advance, OlderSticks, Abandon, List, Sweep, Decide, Approve, Reject,
         Start, Look, Complete, Prepare, Execute, PersistDone, Skip, PersistFailed, Park, Reopen,
         Resume, Reread, ApplyTimeout
<1>3. ASSUME NEW g \in Steps, QuorumMet(approvers[g]) PROVE QuorumMet(approvers[g])'
  <2>1. approvers[g] \in SUBSET Users /\ approvers'[g] \in SUBSET Users
    BY DEF TypeOK, PastOK
  <2>2. QuorumMet(approvers'[g])
    BY <1>2, <1>3, <2>1, QuorumMonotone DEF TypeOK
  <2> QED
    BY <1>1, <2>2 DEF QuorumMet
<1> QED
  BY <1>1, <1>2, <1>3 DEF Passed

\* The gates before the next step.
LEMMA PassedNext ==
    ASSUME NEW n \in Steps, PassedUpTo(n), n \in Gates => Passed(n)
    PROVE  PassedUpTo(n + 1)
BY LengthType DEF PassedUpTo, Gates, Steps

\* There is nothing before the first step.
LEMMA PassedFirst == PassedUpTo(1)
BY LengthType DEF PassedUpTo, Gates, Steps

\* A copy nobody touches stays right.
LEMMA CopyKept ==
    ASSUME TypeOK, TypeOK', Next, NEW p \in Processes, CopyApproved(p),
           at'[p] = at[p], seen'[p] = seen[p]
    PROVE  CopyApproved(p)'
<1>1. \A n : PassedUpTo(n) => PassedUpTo(n)'
  BY PassedStable DEF PassedUpTo, Gates
<1>2. at[p] \in OnStep => seen[p].on \in Steps
  BY DEF TypeOK, ProcessesOK
<1>3. {"resume", "approve", "reject", "listed", "timeout"} \subseteq OnStep
  BY DEF OnStep, Places
<1> QED
  BY <1>1, <1>2, <1>3, PassedStable DEF CopyApproved, PassedUpTo

\* When one process moves and its copy is right, all copies are right.
LEMMA CopiesKept ==
    ASSUME TypeOK, TypeOK', Next, CopiesApproved, NEW p \in Processes,
           \A q \in Processes \ {p} : at'[q] = at[q] /\ seen'[q] = seen[q],
           CopyApproved(p)'
    PROVE  CopiesApproved'
<1>1. ASSUME NEW q \in Processes PROVE CopyApproved(q)'
  <2>1. CASE q = p
    BY <2>1
  <2>2. CASE q # p
    BY <2>2, CopyKept DEF CopiesApproved
  <2> QED
    BY <2>1, <2>2
<1> QED
  BY <1>1 DEF CopiesApproved

\* A process that is done has a right copy.
LEMMA FinishedCopy ==
    ASSUME TypeOK, NEW p \in Processes, Finish(p)
    PROVE  /\ CopyApproved(p)'
           /\ \A q \in Processes \ {p} : at'[q] = at[q] /\ seen'[q] = seen[q]
<1>1. at'[p] = "idle" /\ seen'[p] = Nothing
  BY DEF Finish, Goto, Read, TypeOK, ProcessesOK
<1>2. PassedUpTo(1)'
  BY PassedFirst, PTL
<1>3. PassedUpTo(seen[p].step)'
  BY <1>1, <1>2 DEF Nothing, PassedUpTo
<1>4. CopyApproved(p)'
  BY <1>1, <1>3 DEF CopyApproved, Driving, OnAction
<1> QED
  BY <1>4 DEF Finish, Goto, Read, TypeOK, ProcessesOK

\* What a driver's write of the run needs.
LEMMA WriteRunApproved ==
    ASSUME TypeOK, TypeOK', Next, ApprovalInv, NEW d \in Processes, NEW st, NEW n,
           WriteRun(d, st, n), PassedUpTo(n),
           UNCHANGED <<votes, approvers, execs, policy, quorum>>,
           \A g \in Steps : gate'[g] = "APPROVED" => gate[g] = "APPROVED"
    PROVE  ApprovalInv'
<1>1. CopiesApproved'
  BY FinishedCopy, CopiesKept DEF ApprovalInv, WriteRun
<1>2. \A g \in Steps : Passed(g) => Passed(g)'
  BY PassedStable
<1>3. PassedUpTo(step)'
  BY <1>2 DEF WriteRun, PassedUpTo, Gates
<1>4. RowsApproved'
  BY <1>2, <1>3 DEF ApprovalInv, RowsApproved
<1>5. GateHolds'
  BY DEF ApprovalInv, GateHolds, QuorumMet
<1> QED
  BY <1>1, <1>4, <1>5 DEF ApprovalInv

\* What a driver's step needs that writes no run row and no gate row.
LEMMA ReadApproved ==
    ASSUME TypeOK, TypeOK', Next, ApprovalInv, NEW d \in Processes,
           CopyApproved(d)', GateHolds',
           \A q \in Processes \ {d} : at'[q] = at[q] /\ seen'[q] = seen[q],
           UNCHANGED <<step, gate, votes, approvers>>
    PROVE  ApprovalInv'
<1>1. CopiesApproved'
  BY CopiesKept DEF ApprovalInv
<1>2. \A g \in Steps : Passed(g) => Passed(g)'
  BY PassedStable
<1>3. PassedUpTo(step)'
  BY <1>2 DEF PassedUpTo, Gates, ApprovalInv, RowsApproved
<1>4. RowsApproved'
  BY <1>2, <1>3 DEF ApprovalInv, RowsApproved
<1> QED
  BY <1>1, <1>4 DEF ApprovalInv

\* The driver keeps to the approvals.
LEMMA DriverApproved ==
    ASSUME TypeOK, TypeOK', Next, ApprovalInv, NEW d \in Processes,
           Claim(d) \/ Advance(d) \/ Abandon(d)
    PROVE  ApprovalInv'
<1> DEFINE s == seen[d].on
<1>1. CopyApproved(d) /\ RowsApproved /\ GateHolds
  BY DEF ApprovalInv, CopiesApproved
<1>2. /\ at[d] \in OnStep => s \in Steps
      /\ s \in 1..(Len(Runbook) + 1) /\ seen[d].attempt \in Nat
  BY DEF TypeOK, ProcessesOK, Copies
<1>3. {"gate", "skip", "prepare", "execute", "done", "failed", "resume"} \subseteq OnStep
  BY DEF OnStep, Places
<1>4. at \in [Processes -> Places] /\ seen \in [Processes -> Copies]
  BY DEF TypeOK, ProcessesOK
<1>5. UNCHANGED <<execs, approvers, policy, quorum>> => GateHolds'
  BY <1>1 DEF GateHolds, QuorumMet
<1>6. CASE Claim(d)
  <2>1. /\ at'[d] \in {"start", "look"} /\ seen'[d] = RunCopy(step)
        /\ \A q \in Processes \ {d} : at'[q] = at[q] /\ seen'[q] = seen[q]
    BY <1>4, <1>6 DEF Claim, Goto, Read
  <2>2. seen'[d].step = step /\ seen'[d].on = step
    BY <2>1, CopyType DEF TypeOK, RowsOK
  <2>3. PassedUpTo(step)'
    BY <1>1, <1>6, PassedStable DEF Claim, RowsApproved, PassedUpTo, Gates
  <2>4. CopyApproved(d)'
    BY <2>1, <2>2, <2>3, <1>6 DEF CopyApproved, PassedUpTo, OnAction, Claim
  <2> QED
    BY <1>5, <1>6, <2>1, <2>4, ReadApproved DEF Claim
<1>7. CASE Start(d)
  BY <1>1, <1>7, WriteRunApproved DEF Start, CopyApproved
<1>8. CASE Look(d)
  <2>1. /\ at'[d] = Route(s)
        /\ seen'[d] = [seen[d] EXCEPT !.attempt = IF s \in Steps THEN attempt[s] + 1 ELSE 0]
        /\ \A q \in Processes \ {d} : at'[q] = at[q] /\ seen'[q] = seen[q]
    BY <1>4, <1>8 DEF Look, Goto, Read
  <2>2. seen'[d].step = seen[d].step /\ seen'[d].on = s
    BY <1>4, <2>1 DEF Copies
  <2>3. PassedUpTo(seen[d].step)'
    BY <1>1, <2>2, PassedStable DEF CopyApproved, PassedUpTo, Gates
  <2>4. s = seen[d].step
    BY <1>1, <1>8 DEF CopyApproved, Look, Driving
  <2>5. CopyApproved(d)'
    BY <1>2, <2>1, <2>2, <2>3, <2>4, RouteType DEF CopyApproved, OnAction, TypeOK
  <2> QED
    BY <1>5, <1>8, <2>1, <2>5, ReadApproved DEF Look
<1>9. CASE Complete(d)
  BY <1>1, <1>9, WriteRunApproved DEF Complete, CopyApproved
<1>10. CASE Prepare(d)
  <2>1. /\ at'[d] = "execute" /\ seen' = seen
        /\ \A q \in Processes \ {d} : at'[q] = at[q] /\ seen'[q] = seen[q]
    BY <1>4, <1>10 DEF Prepare, Goto
  <2>2. PassedUpTo(seen[d].step)'
    BY <1>1, <2>1, PassedStable DEF CopyApproved, PassedUpTo, Gates
  <2>3. CopyApproved(d)'
    BY <1>1, <1>10, <2>1, <2>2 DEF CopyApproved, OnAction, Driving, Prepare
  <2> QED
    BY <1>5, <1>10, <2>1, <2>3, ReadApproved DEF Prepare
<1>11. CASE Execute(d)
  <2>1. /\ at'[d] \in {"done", "failed"} /\ seen' = seen
        /\ \A q \in Processes \ {d} : at'[q] = at[q] /\ seen'[q] = seen[q]
    BY <1>4, <1>11 DEF Execute, Goto
  <2>2. PassedUpTo(seen[d].step)'
    BY <1>1, <2>1, PassedStable DEF CopyApproved, PassedUpTo, Gates
  <2>3. CopyApproved(d)'
    BY <1>1, <1>11, <2>1, <2>2 DEF CopyApproved, OnAction, Driving, Execute
  <2>4. ASSUME NEW g \in Gates, NEW t \in Steps, g < t, execs'[t] > 0
        PROVE  Passed(g)
    <3>1. CASE t = s
      BY <1>1, <1>11, <2>4, <3>1 DEF CopyApproved, Driving, PassedUpTo, Execute
    <3>2. CASE t # s
      <4>1. execs'[t] = execs[t]
        BY <1>11, <3>2 DEF Execute, TypeOK, PastOK
      <4> QED
        BY <1>1, <2>4, <4>1 DEF GateHolds, Passed, QuorumMet
    <3> QED
      BY <3>1, <3>2
  <2>5. GateHolds'
    BY <1>11, <2>4 DEF Execute, GateHolds, Passed, QuorumMet
  <2> QED
    BY <1>11, <2>1, <2>3, <2>5, ReadApproved DEF Execute
<1>12. CASE PersistDone(d) \/ Skip(d)
  <2>1. s \in Steps \ Gates /\ s = seen[d].step
    BY <1>1, <1>12 DEF PersistDone, Skip, CopyApproved, OnAction, Driving
  <2>2. PassedUpTo(s + 1)
    BY <1>1, <2>1, PassedNext DEF CopyApproved
  <2> QED
    BY <1>12, <2>2, WriteRunApproved DEF PersistDone, Skip, AdvancePast
<1>13. CASE PersistFailed(d)
  BY <1>1, <1>13, WriteRunApproved DEF PersistFailed, CopyApproved
<1>14. CASE Park(d)
  <2>1. s = seen[d].step
    BY <1>1, <1>14 DEF Park, CopyApproved, Driving
  <2>2. \A g \in Steps : gate'[g] = "APPROVED" => gate[g] = "APPROVED"
    BY <1>14 DEF Park, TypeOK, RowsOK
  <2> QED
    BY <1>1, <1>14, <2>1, <2>2, WriteRunApproved DEF Park, CopyApproved
<1>15. CASE Reopen(d)
  <2>1. GateHolds'
    BY <1>5, <1>15 DEF Reopen
  <2>2. ASSUME Finish(d) PROVE ApprovalInv'
    BY <1>15, <2>1, <2>2, FinishedCopy, ReadApproved DEF Reopen
  <2>3. ASSUME gate[s] = "APPROVED", Goto(d, "resume"), UNCHANGED seen PROVE ApprovalInv'
    <3>1. at'[d] = "resume" /\ \A q \in Processes \ {d} : at'[q] = at[q] /\ seen'[q] = seen[q]
      BY <1>4, <2>3 DEF Goto
    <3>2. s \in Steps
      BY <1>2, <1>3, <1>15 DEF Reopen
    <3>3. Passed(s)'
      BY <1>1, <2>3, <3>2, PassedStable DEF RowsApproved
    <3>4. PassedUpTo(seen[d].step)'
      BY <1>1, <2>3, PassedStable DEF CopyApproved, PassedUpTo, Gates
    <3>5. s = seen[d].step
      BY <1>1, <1>15 DEF Reopen, CopyApproved, Driving
    <3>6. CopyApproved(d)'
      BY <2>3, <3>1, <3>3, <3>4, <3>5 DEF CopyApproved, Driving, OnAction, Passed
    <3> QED
      BY <1>15, <2>1, <3>1, <3>6, ReadApproved DEF Reopen
  <2> QED
    BY <1>15, <2>2, <2>3 DEF Reopen
<1>16. CASE Resume(d)
  <2>1. s \in Steps /\ Passed(s) /\ s = seen[d].step
    BY <1>1, <1>2, <1>3, <1>16 DEF Resume, CopyApproved, Driving
  <2>2. PassedUpTo(s + 1)
    BY <1>1, <2>1, PassedNext DEF CopyApproved
  <2> QED
    BY <1>16, <2>2, WriteRunApproved DEF Resume
<1>17. CASE Abandon(d)
  BY <1>5, <1>17, FinishedCopy, ReadApproved DEF Abandon
<1> QED
  BY <1>6, <1>7, <1>8, <1>9, <1>10, <1>11, <1>12, <1>13, <1>14, <1>15, <1>16, <1>17 DEF Advance

\* What a writer of gates needs: the votes it writes were cast, and a gate it
\* approves is passed.
LEMMA ResolveApproved ==
    ASSUME TypeOK, TypeOK', Next, ApprovalInv, NEW p \in Processes, at[p] \in OnStep,
           NEW g, NEW v, NEW st,
           Resolve(p, g, v, st) \/ WriteGate(p, g, v),
           \A t \in Steps : t = seen[p].on /\ g = "APPROVED" => Passed(t)',
           v \subseteq approvers'[seen[p].on]
    PROVE  ApprovalInv'
<1> DEFINE s == seen[p].on
<1>1. s \in Steps
  BY DEF TypeOK, ProcessesOK
<1>2. Finish(p) /\ gate' = [gate EXCEPT ![s] = g] /\ votes' = [votes EXCEPT ![s] = v]
  BY DEF Resolve, WriteGate
<1>3. CopiesApproved'
  BY <1>2, FinishedCopy, CopiesKept DEF ApprovalInv
<1>4. \A t \in Steps : approvers[t] \subseteq approvers'[t] /\ (Passed(t) => Passed(t)')
  BY PassedStable
<1>5. ASSUME NEW t \in Steps, gate'[t] = "APPROVED" PROVE Passed(t)'
  <2>1. CASE t = s
    BY <1>1, <1>2, <1>5, <2>1 DEF TypeOK, RowsOK
  <2>2. CASE t # s
    BY <1>2, <1>4, <1>5, <2>2 DEF TypeOK, RowsOK, ApprovalInv, RowsApproved
  <2> QED
    BY <2>1, <2>2
<1>6. ASSUME NEW t \in Steps PROVE votes'[t] \subseteq approvers'[t]
  <2>1. CASE t = s
    BY <1>1, <1>2, <2>1 DEF TypeOK, RowsOK
  <2>2. CASE t # s
    BY <1>2, <1>4, <2>2 DEF TypeOK, RowsOK, ApprovalInv, RowsApproved
  <2> QED
    BY <2>1, <2>2
<1>7. PassedUpTo(step)'
  <2>1. step' = step \/ step' = seen[p].step
    BY DEF Resolve, WriteGate
  <2>2. PassedUpTo(step) /\ PassedUpTo(seen[p].step)
    BY DEF ApprovalInv, RowsApproved, CopiesApproved, CopyApproved
  <2> QED
    BY <1>4, <2>1, <2>2 DEF PassedUpTo, Gates
<1>8. RowsApproved'
  BY <1>5, <1>6, <1>7 DEF RowsApproved
<1>9. GateHolds'
  <2>1. execs' = execs
    BY DEF Resolve, WriteGate
  <2> QED
    BY <1>4, <2>1 DEF ApprovalInv, GateHolds, Passed, QuorumMet, Gates
<1> QED
  BY <1>3, <1>8, <1>9 DEF ApprovalInv

\* What a reader of gates needs: it wrote nothing.
LEMMA GateReadApproved ==
    ASSUME TypeOK, TypeOK', Next, ApprovalInv, NEW p \in Processes,
           NEW x \in {"listed", "timeout", "approve", "reject"}, NEW c,
           Goto(p, x), Read(p, c), c.step = step,
           c.votes \subseteq approvers[c.on],
           x = "approve" => c.gate \in Undecided,
           UNCHANGED <<givenVars, runVars, gateVars, pastVars>>
    PROVE  ApprovalInv'
<1>1. at'[p] = x /\ seen'[p] = c /\ \A q \in Processes \ {p} : at'[q] = at[q] /\ seen'[q] = seen[q]
  BY DEF Goto, Read, TypeOK, ProcessesOK
<1>2. PassedUpTo(step)'
  BY PassedStable DEF ApprovalInv, RowsApproved, PassedUpTo, Gates
<1>3. PassedUpTo(seen[p].step)'
  BY <1>1, <1>2 DEF PassedUpTo
<1>4. CopyApproved(p)'
  BY <1>1, <1>3 DEF CopyApproved, Driving, OnAction
<1>5. GateHolds'
  BY DEF ApprovalInv, GateHolds, QuorumMet
<1> QED
  BY <1>1, <1>4, <1>5, ReadApproved

\* Approvers and sweeper keep to the approvals.
LEMMA GateWriterApproved ==
    ASSUME TypeOK, TypeOK', Next, ApprovalInv,
           \/ \E d \in Drivers : List(d) \/ Sweep(d)
           \/ \E u \in Users : Decide(u) \/ Approve(u) \/ Reject(u)
    PROVE  ApprovalInv'
<1>1. \A p \in Processes : CopyApproved(p) /\ seen[p] \in Copies
                          /\ (at[p] \in OnStep => seen[p].on \in Steps)
  BY DEF ApprovalInv, CopiesApproved, TypeOK, ProcessesOK
<1>2. {"approve", "reject", "listed", "timeout"} \subseteq OnStep
  BY DEF OnStep, Places
<1>3. ASSUME NEW t \in 1..(Len(Runbook) + 1)
      PROVE  /\ GateCopy(t).step = step /\ GateCopy(t).on = t
             /\ GateCopy(t).votes = VotesAt(t) /\ GateCopy(t).gate = GateAt(t)
             /\ (t \in Steps => VotesAt(t) \subseteq approvers[t])
  <2>1. VotesAt(t) = votes[t] \/ t \notin Steps
    BY DEF VotesAt
  <2> QED
    BY <2>1, CopyType DEF TypeOK, GateCopy, RunCopy, Nothing, ApprovalInv, RowsApproved
<1>4. ASSUME NEW d \in Drivers, List(d) PROVE ApprovalInv'
  <2>1. PICK t \in Gates : Read(d, GateCopy(t)) /\ Goto(d, "listed")
    BY <1>4 DEF List
  <2>2. t \in Steps /\ t \in 1..(Len(Runbook) + 1)
    BY NextStepType DEF Gates
  <2> QED
    BY <1>3, <1>4, <2>1, <2>2, GateReadApproved DEF List, Processes
<1>5. ASSUME NEW d \in Drivers, Reread(d) PROVE ApprovalInv'
  <2> DEFINE c == [seen[d] EXCEPT !.status = status, !.step = step]
  <2>1. d \in Processes
    BY DEF Processes
  <2>2. c.step = step /\ c.on = seen[d].on /\ c.votes = seen[d].votes
    BY <1>1, <2>1 DEF Copies
  <2>3. c.votes \subseteq approvers[c.on]
    BY <1>1, <1>5, <2>1, <2>2 DEF Reread, CopyApproved
  <2> QED
    BY <1>5, <2>1, <2>2, <2>3, GateReadApproved DEF Reread
<1>6. ASSUME NEW d \in Drivers, ApplyTimeout(d) PROVE ApprovalInv'
  <2>1. d \in Processes /\ at[d] \in OnStep /\ seen[d].votes \subseteq approvers'[seen[d].on]
    BY <1>1, <1>2, <1>6 DEF ApplyTimeout, CopyApproved, Processes
  <2>2. TimeoutGate = "APPROVED" => policy = "auto_approve"
    BY DEF TimeoutGate
  <2>3. TimeoutGate = "APPROVED" => \A t \in Steps : Passed(t)'
    BY <1>6, <2>2 DEF ApplyTimeout, Resolve, WriteGate, Passed
  <2> QED
    BY <1>6, <2>1, <2>3, ResolveApproved DEF ApplyTimeout
<1>7. ASSUME NEW u \in Users, Decide(u) PROVE ApprovalInv'
  <2>1. PICK x \in {"approve", "reject"} : Goto(u, x) /\ Read(u, GateCopy(step))
    BY <1>7 DEF Decide
  <2>2. step \in Steps /\ step \in 1..(Len(Runbook) + 1) /\ GateAt(step) \in Undecided
    BY <1>7, NextStepType DEF Decide, GateAt, Undecided
  <2> QED
    BY <1>3, <1>7, <2>1, <2>2, GateReadApproved DEF Decide, Processes
<1>8. ASSUME NEW u \in Users, Approve(u) PROVE ApprovalInv'
  <2> DEFINE s == seen[u].on
             v == seen[u].votes \cup {u}
  <2>1. u \in Processes /\ at[u] \in OnStep /\ s \in Steps
    BY <1>1, <1>2, <1>8 DEF Approve, Processes
  <2>2. seen[u].votes \subseteq approvers[s] /\ seen[u].gate \in Undecided
    BY <1>1, <1>8, <2>1 DEF Approve, CopyApproved
  <2>3. approvers'[s] = approvers[s] \cup {u}
    BY <1>8, <2>1 DEF Approve, TypeOK, PastOK
  <2>4. v \subseteq approvers'[s] /\ v \in SUBSET Users /\ approvers'[s] \in SUBSET Users
    BY <1>1, <2>1, <2>2, <2>3 DEF Copies, TypeOK, PastOK
  <2>5. ASSUME QuorumMet(v), Resolve(u, "APPROVED", v, "RUNNING") PROVE ApprovalInv'
    <3>1. QuorumMet(approvers'[s])
      BY <2>4, <2>5, QuorumMonotone DEF TypeOK
    <3>2. \A t \in Steps : t = s => Passed(t)'
      BY <2>5, <3>1 DEF Passed, QuorumMet, Resolve
    <3> QED
      BY <2>1, <2>4, <2>5, <3>2, ResolveApproved
  <2>6. ASSUME WriteGate(u, seen[u].gate, v) PROVE ApprovalInv'
    <3>1. seen[u].gate # "APPROVED"
      BY <2>2 DEF Undecided
    <3>2. Resolve(u, seen[u].gate, v, "RUNNING") \/ WriteGate(u, seen[u].gate, v)
      BY <2>6
    <3> QED
      BY <2>1, <2>4, <3>1, <3>2, ResolveApproved
  <2> QED
    BY <1>8, <2>5, <2>6 DEF Approve
<1>9. ASSUME NEW u \in Users, Reject(u) PROVE ApprovalInv'
  <2>1. u \in Processes /\ at[u] \in OnStep /\ seen[u].votes \ {u} \subseteq approvers'[seen[u].on]
    BY <1>1, <1>2, <1>9 DEF Reject, CopyApproved, Processes
  <2> QED
    BY <1>9, <2>1, ResolveApproved DEF Reject
<1> QED
  BY <1>4, <1>5, <1>6, <1>7, <1>8, <1>9 DEF Sweep

\* A new run keeps to the approvals.
LEMMA InitApproved == Init => ApprovalInv
<1> SUFFICES ASSUME Init PROVE ApprovalInv
  OBVIOUS
<1>1. CopiesApproved
  BY PassedFirst DEF Init, CopiesApproved, CopyApproved, Driving, OnAction, Nothing
<1>2. RowsApproved
  BY PassedFirst DEF Init, RowsApproved
<1>3. GateHolds
  BY DEF Init, GateHolds
<1> QED
  BY <1>1, <1>2, <1>3 DEF ApprovalInv

\* Every step keeps to the approvals.
LEMMA NextApproved ==
    ASSUME TypeOK, TypeOK', ApprovalInv, [Next]_vars
    PROVE  ApprovalInv'
<1>1. CASE UNCHANGED vars
  BY <1>1 DEF vars, ApprovalInv, RowsApproved, CopiesApproved, CopyApproved, GateHolds,
         PassedUpTo, Passed, QuorumMet
<1>2. CASE \E d \in Drivers : OlderSticks(d)
  BY <1>2 DEF OlderSticks, runVars, gateVars, procVars, pastVars, ApprovalInv, RowsApproved, CopiesApproved, CopyApproved, GateHolds,
         PassedUpTo, Passed, QuorumMet
<1>3. CASE \E d \in Drivers : Claim(d) \/ Advance(d) \/ Abandon(d) \/ List(d) \/ Sweep(d)
  BY <1>3, DriverApproved, GateWriterApproved DEF Next, Processes
<1>4. CASE \E u \in Users : Decide(u) \/ Approve(u) \/ Reject(u)
  BY <1>4, GateWriterApproved DEF Next, Processes
<1> QED
  BY <1>1, <1>2, <1>3, <1>4 DEF Next

\* No action behind a gate is executed unless the quorum of different users
\* approved or the gate timed out under auto_approve, for every runbook, quorum
\* and set of approvers, any number of overlapping drivers, and whatever
\* decisions, timeouts and crashes interleave (ApproveGate, openGate).
THEOREM GatesHold == Spec => []GateHolds
<1>1. ApprovalInv => GateHolds
  BY DEF ApprovalInv
<1> QED
  BY <1>1, InitApproved, NextApproved, TypeCorrect, PTL DEF Spec

-----------------------------------------------------------------------------
(* The log, for one driver.                                                *)

SingleDriver == \A d, e \in Drivers : d = e

Through == {"OK", "APPROVED"}

\* Every step before step n is through.
Reached(n) == \A s \in Steps : s < n => log[s] \in Through

\* The step rows: a gate that is through has a row, a gate is never executed nor
\* OK, an action never approved, and every execution is on record.
StepsLogged ==
    /\ \A s \in Steps \ Gates : log[s] # "APPROVED"
    /\ \A s \in Gates : execs[s] = 0 /\ log[s] # "OK" /\ (log[s] \in Through => gate[s] # "none")
    /\ AttemptsRecorded

\* The run row is past steps that are through only, COMPLETED past all of them.
RunLogged ==
    /\ Reached(step)
    /\ status = "COMPLETED" => step = Len(Runbook) + 1

\* The copies: what the driver has read about its step still holds, because
\* nobody else writes step rows.
CopyLogged(p) ==
    LET c == seen[p] IN
    /\ Reached(c.step)
    /\ at[p] \in Driving => p \in Drivers /\ c.status \in Runnable
    /\ at[p] = "complete" => c.step = Len(Runbook) + 1
    /\ at[p] \in {"gate", "resume"} => c.on \in Gates
    /\ at[p] = "resume" => gate[c.on] # "none"
    /\ at[p] = "skip" => log[c.on] = "OK"
    /\ at[p] \in {"prepare", "execute", "done", "failed"} => log[c.on] # "OK"
    /\ at[p] = "prepare" => execs[c.on] < c.attempt
    /\ at[p] = "execute" => execs[c.on] < attempt[c.on] /\ c.attempt = attempt[c.on]
    /\ at[p] \in {"done", "failed"} => execs[c.on] <= c.attempt

CopiesLogged == \A p \in Processes : CopyLogged(p)

LogInv == StepsLogged /\ RunLogged /\ CopiesLogged

\* What a working driver knows of its step, from both invariants.
LEMMA OnFacts ==
    ASSUME TypeOK, ApprovalInv, LogInv, NEW p \in Processes
    PROVE  /\ CopyLogged(p)
           /\ at[p] \in OnStep => seen[p].on \in Steps
           /\ at[p] \in Driving => seen[p].on = seen[p].step
           /\ at[p] \in OnAction => seen[p].on \in Steps \ Gates
           /\ at[p] = "approve" => seen[p].gate \in Undecided
           /\ seen[p] \in Copies /\ seen[p].attempt \in Nat
BY DEF TypeOK, ProcessesOK, Copies, ApprovalInv, CopiesApproved, CopyApproved, LogInv, CopiesLogged

\* A gate that has a row keeps one.
LEMMA GateStays ==
    ASSUME TypeOK, TypeOK', ApprovalInv, LogInv, Next
    PROVE  \A s \in Steps : gate[s] # "none" => gate'[s] # "none"
<1>1. ASSUME NEW d \in Drivers, Park(d) PROVE \A s \in Steps : gate[s] # "none" => gate'[s] # "none"
  BY <1>1 DEF Park, TypeOK, RowsOK
<1>2. ASSUME NEW p, NEW g, NEW v, NEW st, g # "none", Resolve(p, g, v, st) \/ WriteGate(p, g, v)
      PROVE  \A s \in Steps : gate[s] # "none" => gate'[s] # "none"
  BY <1>2 DEF Resolve, WriteGate, TypeOK, RowsOK
<1>3. ASSUME NEW d \in Drivers, ApplyTimeout(d) PROVE \A s \in Steps : gate[s] # "none" => gate'[s] # "none"
  <2>1. TimeoutGate # "none"
    BY DEF TimeoutGate
  <2>2. Resolve(d, TimeoutGate, seen[d].votes, TimeoutStatus) \/ WriteGate(d, "EXPIRED", seen[d].votes)
    BY <1>3 DEF ApplyTimeout
  <2>3. CASE Resolve(d, TimeoutGate, seen[d].votes, TimeoutStatus)
    BY <1>2, <2>1, <2>3
  <2>4. CASE WriteGate(d, "EXPIRED", seen[d].votes)
    BY <2>4 DEF WriteGate, TypeOK, RowsOK
  <2> QED
    BY <2>2, <2>3, <2>4
<1>4. ASSUME NEW u \in Users, Approve(u) PROVE \A s \in Steps : gate[s] # "none" => gate'[s] # "none"
  <2>1. seen[u].gate # "none"
    BY <1>4, OnFacts DEF Approve, Undecided, Processes
  <2> QED
    BY <1>4, <2>1 DEF Approve, Resolve, WriteGate, TypeOK, RowsOK
<1>5. ASSUME NEW u \in Users, Reject(u) PROVE \A s \in Steps : gate[s] # "none" => gate'[s] # "none"
  BY <1>5 DEF Reject, Resolve, TypeOK, RowsOK
<1> QED
  BY <1>1, <1>3, <1>4, <1>5
  DEF Next, OlderSticks, Claim, Advance, Abandon, List, Sweep, Decide, Start, Look, Complete, Prepare, Execute,
      PersistDone, Skip, PersistFailed, Reopen, Resume, Reread

\* A step that is through stays through: the driver records another result only
\* on the action it works on, which is not, or on a gate without a row.
LEMMA ThroughStays ==
    ASSUME TypeOK, TypeOK', ApprovalInv, LogInv, Next
    PROVE  \A s \in Steps : log[s] \in Through => log'[s] \in Through
<1>1. ASSUME NEW d \in Drivers, Prepare(d) \/ PersistFailed(d), NEW s \in Steps, log[s] \in Through
      PROVE  log'[s] \in Through
  <2>1. seen[d].on \in Steps \ Gates /\ log[seen[d].on] # "OK"
    BY <1>1, OnFacts DEF Prepare, PersistFailed, OnAction, CopyLogged, Processes
  <2>2. log[seen[d].on] \notin Through
    BY <2>1 DEF LogInv, StepsLogged, Through
  <2> QED
    BY <1>1, <2>1, <2>2 DEF Prepare, PersistFailed, Record, TypeOK, RowsOK
<1>2. ASSUME NEW d \in Drivers, Park(d), NEW s \in Steps, log[s] \in Through
      PROVE  log'[s] \in Through
  <2>1. seen[d].on \in Gates /\ gate[seen[d].on] = "none"
    BY <1>2, OnFacts DEF Park, CopyLogged, Processes
  <2>2. log[seen[d].on] \notin Through
    BY <2>1 DEF LogInv, StepsLogged
  <2> QED
    BY <1>2, <2>1, <2>2 DEF Park, TypeOK, RowsOK
<1>3. ASSUME NEW d \in Drivers, PersistDone(d) \/ Resume(d), NEW s \in Steps, log[s] \in Through
      PROVE  log'[s] \in Through
  BY <1>3 DEF PersistDone, Resume, Record, Through, TypeOK, RowsOK
<1>4. ASSUME NEW d \in Drivers, ApplyTimeout(d) PROVE log' = log
  BY <1>4 DEF ApplyTimeout, Resolve, WriteGate
<1>5. ASSUME NEW u \in Users, Approve(u) \/ Reject(u) PROVE log' = log
  BY <1>5 DEF Approve, Reject, Resolve, WriteGate
<1> QED
  BY <1>1, <1>2, <1>3, <1>4, <1>5
  DEF Next, OlderSticks, Claim, Advance, Abandon, List, Sweep, Decide, Start, Look, Complete, Execute, Skip,
      Reopen, Reread

\* So the steps before n stay through.
LEMMA ReachedStays ==
    ASSUME TypeOK, TypeOK', ApprovalInv, LogInv, Next
    PROVE  /\ Reached(1)'
           /\ \A n : Reached(n) => \A s \in Steps : s < n => log'[s] \in Through
<1>1. \A s \in Steps : ~(s < 1)
  BY LengthType DEF Steps
<1> QED
  BY <1>1, ThroughStays DEF Reached

\* A copy of another process than the one that moves stays right: when it is
\* the driver's, the step rows have not changed.
LEMMA LogCopyKept ==
    ASSUME SingleDriver, TypeOK, TypeOK', ApprovalInv, LogInv, Next,
           NEW p \in Processes, NEW q \in Processes \ {p},
           at'[q] = at[q], seen'[q] = seen[q],
           p \notin Drivers => UNCHANGED <<log, attempt, execs>>
    PROVE  CopyLogged(q)'
<1>1. /\ CopyLogged(q)
      /\ at[q] \in OnStep => seen[q].on \in Steps
  BY OnFacts
<1>2. Reached(seen[q].step)'
  BY <1>1, ReachedStays DEF CopyLogged, Reached
<1>3. CASE at[q] \in Driving
  <2>1. UNCHANGED <<log, attempt, execs>>
    BY <1>1, <1>3 DEF CopyLogged, SingleDriver
  <2>2. at[q] = "resume" => gate'[seen[q].on] # "none"
    BY <1>1, GateStays DEF CopyLogged, OnStep, Places
  <2> QED
    BY <1>1, <1>2, <2>1, <2>2 DEF CopyLogged
<1>4. CASE at[q] \notin Driving
  BY <1>2, <1>4 DEF CopyLogged, Driving
<1> QED
  BY <1>3, <1>4

\* When one process moves and its copy is right, all copies are right.
LEMMA LogCopiesKept ==
    ASSUME SingleDriver, TypeOK, TypeOK', ApprovalInv, LogInv, Next,
           NEW p \in Processes, CopyLogged(p)',
           \A q \in Processes \ {p} : at'[q] = at[q] /\ seen'[q] = seen[q],
           p \notin Drivers => UNCHANGED <<log, attempt, execs>>
    PROVE  CopiesLogged'
<1>1. ASSUME NEW q \in Processes PROVE CopyLogged(q)'
  <2>1. CASE q = p
    BY <2>1
  <2>2. CASE q # p
    BY <2>2, LogCopyKept
  <2> QED
    BY <2>1, <2>2
<1> QED
  BY <1>1 DEF CopiesLogged

\* A process that is done has a right copy.
LEMMA LogFinished ==
    ASSUME SingleDriver, TypeOK, TypeOK', ApprovalInv, LogInv, Next,
           NEW p \in Processes, Finish(p),
           p \notin Drivers => UNCHANGED <<log, attempt, execs>>
    PROVE  CopiesLogged'
<1>1. /\ at'[p] = "idle" /\ seen'[p] = Nothing
      /\ \A q \in Processes \ {p} : at'[q] = at[q] /\ seen'[q] = seen[q]
  BY DEF Finish, Goto, Read, TypeOK, ProcessesOK
<1>2. Reached(seen[p].step)'
  BY <1>1, ReachedStays DEF Nothing, Reached
<1>3. CopyLogged(p)'
  BY <1>1, <1>2 DEF CopyLogged, Driving
<1> QED
  BY <1>1, <1>3, LogCopiesKept

\* What a driver's write of the run needs.
LEMMA WriteRunLogged ==
    ASSUME SingleDriver, TypeOK, TypeOK', ApprovalInv, LogInv, Next,
           NEW d \in Drivers, NEW st, NEW n, WriteRun(d, st, n), StepsLogged',
           \A s \in Steps : s < n => log'[s] \in Through,
           st = "COMPLETED" => n = Len(Runbook) + 1
    PROVE  LogInv'
<1>1. CopiesLogged'
  BY LogFinished DEF WriteRun, Processes
<1>2. RunLogged'
  BY DEF WriteRun, RunLogged, Reached
<1> QED
  BY <1>1, <1>2 DEF LogInv

\* What a step needs that does not write the run row.
LEMMA ReadLogged ==
    ASSUME SingleDriver, TypeOK, TypeOK', ApprovalInv, LogInv, Next,
           NEW p \in Processes, UNCHANGED <<status, step>>, StepsLogged', CopiesLogged'
    PROVE  LogInv'
<1>1. RunLogged'
  BY ReachedStays DEF LogInv, RunLogged, Reached
<1> QED
  BY <1>1 DEF LogInv

\* The step rows after the driver has recorded a result for an action, with an
\* attempt that covers the executions.
LEMMA RecordLogged ==
    ASSUME TypeOK, TypeOK', ApprovalInv, LogInv, NEW d \in Processes,
           seen[d].on \in Steps \ Gates, NEW x, x # "APPROVED", Record(d, x),
           execs[seen[d].on] <= seen[d].attempt, UNCHANGED <<execs, gate>>
    PROVE  StepsLogged'
<1>1. \A s \in Steps : s # seen[d].on => log'[s] = log[s] /\ attempt'[s] = attempt[s]
  BY DEF Record, TypeOK, RowsOK
<1>2. log'[seen[d].on] = x /\ attempt'[seen[d].on] = seen[d].attempt
  BY DEF Record, TypeOK, RowsOK
<1> QED
  BY <1>1, <1>2 DEF LogInv, StepsLogged, AttemptsRecorded, Gates

\* The step rows after the driver has recorded a gate.
LEMMA GateLogged ==
    ASSUME TypeOK, TypeOK', ApprovalInv, LogInv, NEW s \in Gates, NEW x, x # "OK",
           log' = [log EXCEPT ![s] = x], attempt' = [attempt EXCEPT ![s] = 1],
           UNCHANGED execs, gate'[s] # "none", \A t \in Steps \ {s} : gate'[t] = gate[t]
    PROVE  StepsLogged'
<1>1. s \in Steps
  BY DEF Gates
<1>2. \A t \in Steps \ {s} : log'[t] = log[t] /\ attempt'[t] = attempt[t]
  BY DEF TypeOK, RowsOK
<1>3. log'[s] = x /\ attempt'[s] = 1 /\ execs'[s] = 0
  BY <1>1 DEF TypeOK, RowsOK, LogInv, StepsLogged
<1> QED
  BY <1>1, <1>2, <1>3 DEF LogInv, StepsLogged, AttemptsRecorded, Gates

\* The driver's steps keep the log in order.
LEMMA DriverLogged ==
    ASSUME SingleDriver, TypeOK, TypeOK', ApprovalInv, LogInv, Next, NEW d \in Drivers,
           Claim(d) \/ Advance(d) \/ Abandon(d)
    PROVE  LogInv'
<1> DEFINE s == seen[d].on
<1>1. /\ d \in Processes /\ CopyLogged(d) /\ StepsLogged /\ RunLogged
      /\ at[d] \in OnStep => s \in Steps
      /\ at[d] \in Driving => s = seen[d].step
      /\ at[d] \in OnAction => s \in Steps \ Gates
      /\ s \in 1..(Len(Runbook) + 1) /\ seen[d].attempt \in Nat
      /\ at[d] \in Driving => seen[d].status # "COMPLETED"
  BY OnFacts DEF Processes, Copies, LogInv, CopyLogged, Runnable
<1>2. at \in [Processes -> Places] /\ seen \in [Processes -> Copies]
  BY DEF TypeOK, ProcessesOK
<1>3. UNCHANGED <<log, attempt, gate, execs>> => StepsLogged'
  BY <1>1 DEF StepsLogged, AttemptsRecorded
<1>4. \A t \in Steps : t < seen[d].step => log'[t] \in Through
  BY <1>1, ReachedStays DEF CopyLogged
<1>5. ASSUME at[d] \in Driving, s \in Steps, log'[s] \in Through
      PROVE  \A t \in Steps : t < s + 1 => log'[t] \in Through
  BY <1>1, <1>4, <1>5, LengthType DEF Steps
<1>6. CASE Claim(d)
  <2>1. /\ at'[d] \in {"start", "look"} /\ seen'[d] = RunCopy(step)
        /\ \A q \in Processes \ {d} : at'[q] = at[q] /\ seen'[q] = seen[q]
    BY <1>1, <1>2, <1>6 DEF Claim, Goto, Read
  <2>2. seen'[d].step = step /\ seen'[d].status = status
    BY <2>1, CopyType DEF TypeOK, RowsOK, RunCopy, Nothing
  <2>3. Reached(seen[d].step)'
    BY <1>1, <2>2, ReachedStays DEF RunLogged, Reached
  <2>4. CopyLogged(d)'
    BY <1>6, <2>1, <2>2, <2>3 DEF CopyLogged, Claim
  <2>5. CopiesLogged'
    BY <1>1, <2>1, <2>4, LogCopiesKept
  <2> QED
    BY <1>1, <1>3, <1>6, <2>5, ReadLogged DEF Claim
<1>7. CASE Start(d)
  BY <1>3, <1>4, <1>7, WriteRunLogged DEF Start
<1>8. CASE Look(d)
  <2>1. /\ at'[d] = Route(s)
        /\ seen'[d] = [seen[d] EXCEPT !.attempt = IF s \in Steps THEN attempt[s] + 1 ELSE 0]
        /\ \A q \in Processes \ {d} : at'[q] = at[q] /\ seen'[q] = seen[q]
    BY <1>1, <1>2, <1>8 DEF Look, Goto, Read
  <2>2. /\ seen'[d].step = seen[d].step /\ seen'[d].on = s /\ seen'[d].status = seen[d].status
        /\ s \in Steps => seen'[d].attempt = attempt[s] + 1
    BY <1>2, <2>1 DEF Copies
  <2>3. Reached(seen[d].step)'
    BY <1>4, <2>2 DEF Reached
  <2>4. ASSUME s \in Steps PROVE execs[s] < attempt[s] + 1
    <3>1. execs[s] \in Nat /\ attempt[s] \in Nat
      BY <2>4 DEF TypeOK, RowsOK, PastOK
    <3>2. execs[s] <= attempt[s]
      BY <1>1, <2>4 DEF StepsLogged, AttemptsRecorded
    <3> QED
      BY <3>1, <3>2
  <2>5. at[d] = "look" /\ seen[d].status \in Runnable /\ s = seen[d].step
    BY <1>1, <1>8 DEF Look, CopyLogged, Driving
  <2>6. s \notin Steps => s = Len(Runbook) + 1
    BY <1>1, LengthType DEF Steps
  <2>7. UNCHANGED <<log, attempt, gate, execs>>
    BY <1>8 DEF Look
  <2>8. CopyLogged(d)'
    BY <1>1, <2>1, <2>2, <2>3, <2>4, <2>5, <2>6, <2>7, RouteType DEF CopyLogged, TypeOK
  <2>9. CopiesLogged'
    BY <1>1, <2>1, <2>8, LogCopiesKept
  <2> QED
    BY <1>1, <1>3, <1>8, <2>9, ReadLogged DEF Look
<1>9. CASE Complete(d)
  BY <1>1, <1>3, <1>4, <1>9, WriteRunLogged DEF Complete, CopyLogged
<1>10. CASE Prepare(d)
  <2>1. /\ at'[d] = "execute" /\ seen' = seen /\ UNCHANGED <<execs, gate>>
        /\ \A q \in Processes \ {d} : at'[q] = at[q] /\ seen'[q] = seen[q]
    BY <1>1, <1>2, <1>10 DEF Prepare, Goto
  <2>2. s \in Steps \ Gates /\ execs[s] < seen[d].attempt /\ seen[d].status \in Runnable
    BY <1>1, <1>10 DEF Prepare, OnAction, CopyLogged, Driving
  <2>3. log'[s] = "RUNNING" /\ attempt'[s] = seen[d].attempt
    BY <1>10, <2>2 DEF Prepare, Record, TypeOK, RowsOK
  <2>4. Reached(seen[d].step)'
    BY <1>4, <2>1 DEF Reached
  <2>5. CopyLogged(d)'
    BY <1>1, <2>1, <2>2, <2>3, <2>4 DEF CopyLogged
  <2>6. CopiesLogged'
    BY <1>1, <2>1, <2>5, LogCopiesKept
  <2>7. execs[s] <= seen[d].attempt
    BY <1>1, <2>2 DEF TypeOK, PastOK
  <2>8. StepsLogged'
    BY <1>1, <1>10, <2>1, <2>2, <2>7, RecordLogged DEF Prepare
  <2> QED
    BY <1>1, <1>10, <2>6, <2>8, ReadLogged DEF Prepare
<1>11. CASE Execute(d)
  <2>1. /\ at'[d] \in {"done", "failed"} /\ seen' = seen /\ UNCHANGED <<log, attempt, gate>>
        /\ \A q \in Processes \ {d} : at'[q] = at[q] /\ seen'[q] = seen[q]
    BY <1>1, <1>2, <1>11 DEF Execute, Goto
  <2>2. /\ s \in Steps \ Gates /\ log[s] # "OK" /\ seen[d].status \in Runnable
        /\ execs[s] < attempt[s] /\ seen[d].attempt = attempt[s]
    BY <1>1, <1>11 DEF Execute, OnAction, CopyLogged, Driving
  <2>3. /\ execs'[s] = execs[s] + 1 /\ \A t \in Steps \ {s} : execs'[t] = execs[t]
        /\ execs[s] \in Nat /\ attempt[s] \in Nat
    BY <1>11, <2>2 DEF Execute, TypeOK, RowsOK, PastOK
  <2>4. execs'[s] <= attempt[s]
    BY <2>2, <2>3
  <2>5. Reached(seen[d].step)'
    BY <1>4, <2>1 DEF Reached
  <2>6. CopyLogged(d)'
    BY <1>1, <2>1, <2>2, <2>4, <2>5 DEF CopyLogged
  <2>7. CopiesLogged'
    BY <1>1, <2>1, <2>6, LogCopiesKept
  <2>8. StepsLogged'
    BY <1>1, <2>1, <2>2, <2>3, <2>4 DEF StepsLogged, AttemptsRecorded, Gates
  <2> QED
    BY <1>1, <1>11, <2>7, <2>8, ReadLogged DEF Execute
<1>12. CASE PersistDone(d)
  <2>1. s \in Steps \ Gates /\ at[d] \in Driving /\ execs[s] <= seen[d].attempt
    BY <1>1, <1>12 DEF PersistDone, OnAction, CopyLogged, Driving
  <2>2. StepsLogged'
    BY <1>1, <1>12, <2>1, RecordLogged DEF PersistDone
  <2>3. log'[s] \in Through
    BY <1>12, <2>1 DEF PersistDone, Record, Through, TypeOK, RowsOK
  <2> QED
    BY <1>1, <1>5, <1>12, <2>1, <2>2, <2>3, WriteRunLogged DEF PersistDone, AdvancePast
<1>13. CASE Skip(d)
  <2>1. s \in Steps \ Gates /\ at[d] \in Driving /\ log[s] \in Through
    BY <1>1, <1>13 DEF Skip, OnAction, CopyLogged, Driving, Through
  <2>2. StepsLogged' /\ log'[s] \in Through
    BY <1>3, <1>13, <2>1 DEF Skip
  <2> QED
    BY <1>1, <1>5, <1>13, <2>1, <2>2, WriteRunLogged DEF Skip, AdvancePast
<1>14. CASE PersistFailed(d)
  <2>1. s \in Steps \ Gates /\ at[d] \in Driving /\ execs[s] <= seen[d].attempt
    BY <1>1, <1>14 DEF PersistFailed, OnAction, CopyLogged, Driving
  <2>2. StepsLogged'
    BY <1>1, <1>14, <2>1, RecordLogged DEF PersistFailed
  <2> QED
    BY <1>1, <1>4, <1>14, <2>1, <2>2, WriteRunLogged DEF PersistFailed
<1>15. CASE Park(d)
  <2>1. s \in Gates /\ s \in Steps /\ s = seen[d].step
    BY <1>1, <1>15 DEF Park, CopyLogged, Driving, OnStep, Places
  <2>2. gate'[s] # "none" /\ \A t \in Steps \ {s} : gate'[t] = gate[t]
    BY <1>15, <2>1 DEF Park, TypeOK, RowsOK
  <2>3. StepsLogged'
    BY <1>15, <2>1, <2>2, GateLogged DEF Park
  <2> QED
    BY <1>4, <1>15, <2>1, <2>3, WriteRunLogged DEF Park
<1>16. CASE Reopen(d)
  <2>1. UNCHANGED <<log, attempt, gate, execs, status, step>>
    BY <1>16 DEF Reopen
  <2>2. ASSUME Finish(d) PROVE CopiesLogged'
    BY <1>1, <2>2, LogFinished
  <2>3. ASSUME gate[s] = "APPROVED", Goto(d, "resume"), UNCHANGED seen PROVE CopiesLogged'
    <3>1. at'[d] = "resume" /\ \A q \in Processes \ {d} : at'[q] = at[q] /\ seen'[q] = seen[q]
      BY <1>1, <1>2, <2>3 DEF Goto
    <3>2. Reached(seen[d].step)'
      BY <1>4, <2>3 DEF Reached
    <3>3. s \in Gates /\ seen[d].status \in Runnable
      BY <1>1, <1>16 DEF Reopen, CopyLogged, Driving
    <3>4. CopyLogged(d)'
      BY <1>1, <2>1, <2>3, <3>1, <3>2, <3>3 DEF CopyLogged
    <3> QED
      BY <1>1, <3>1, <3>4, LogCopiesKept
  <2>4. CopiesLogged'
    BY <1>16, <2>2, <2>3 DEF Reopen
  <2> QED
    BY <1>1, <1>3, <2>1, <2>4, ReadLogged
<1>17. CASE Resume(d)
  <2>1. s \in Gates /\ s \in Steps /\ at[d] \in Driving /\ gate[s] # "none"
    BY <1>1, <1>17 DEF Resume, CopyLogged, Driving, OnStep, Places
  <2>2. gate'[s] # "none" /\ \A t \in Steps \ {s} : gate'[t] = gate[t]
    BY <1>17, <2>1 DEF Resume
  <2>3. StepsLogged'
    BY <1>17, <2>1, <2>2, GateLogged DEF Resume
  <2>4. log'[s] \in Through
    BY <1>17, <2>1 DEF Resume, Through, TypeOK, RowsOK
  <2> QED
    BY <1>5, <1>17, <2>1, <2>3, <2>4, WriteRunLogged DEF Resume
<1>18. CASE Abandon(d)
  <2>1. CopiesLogged'
    BY <1>1, <1>18, LogFinished DEF Abandon
  <2> QED
    BY <1>1, <1>3, <1>18, <2>1, ReadLogged DEF Abandon
<1> QED
  BY <1>6, <1>7, <1>8, <1>9, <1>10, <1>11, <1>12, <1>13, <1>14, <1>15, <1>16, <1>17, <1>18
  DEF Advance

\* A writer of gates leaves the step rows alone, and a run row it writes back
\* from its copy is past steps that are through.
LEMMA GateWriteLogged ==
    ASSUME SingleDriver, TypeOK, TypeOK', ApprovalInv, LogInv, Next,
           NEW p \in Processes, NEW g, NEW v, NEW st, st # "COMPLETED",
           Resolve(p, g, v, st) \/ WriteGate(p, g, v)
    PROVE  LogInv'
<1>1. Finish(p) /\ UNCHANGED <<log, attempt, execs>>
  BY DEF Resolve, WriteGate
<1>2. CopiesLogged'
  BY <1>1, LogFinished
<1>3. StepsLogged'
  BY <1>1, GateStays DEF LogInv, StepsLogged, AttemptsRecorded, Gates
<1>4. CASE Resolve(p, g, v, st)
  <2>1. CopyLogged(p)
    BY OnFacts
  <2>2. RunLogged'
    BY <1>4, <2>1, ReachedStays DEF Resolve, CopyLogged, RunLogged, Reached
  <2> QED
    BY <1>2, <1>3, <2>2 DEF LogInv
<1>5. CASE WriteGate(p, g, v)
  BY <1>2, <1>3, <1>5, ReadLogged DEF WriteGate
<1> QED
  BY <1>4, <1>5

\* A reader of gates writes nothing, and its copy is of the run as it is.
LEMMA GateReadLogged ==
    ASSUME SingleDriver, TypeOK, TypeOK', ApprovalInv, LogInv, Next,
           NEW p \in Processes, NEW x \in {"listed", "timeout", "approve", "reject"}, NEW c,
           Goto(p, x), Read(p, c), c.step = step,
           UNCHANGED <<runVars, gateVars, pastVars>>
    PROVE  LogInv'
<1>1. at'[p] = x /\ seen'[p] = c /\ \A q \in Processes \ {p} : at'[q] = at[q] /\ seen'[q] = seen[q]
  BY DEF Goto, Read, TypeOK, ProcessesOK
<1>2. Reached(seen[p].step)'
  BY <1>1, ReachedStays DEF LogInv, RunLogged, Reached
<1>3. CopyLogged(p)'
  BY <1>1, <1>2 DEF CopyLogged, Driving
<1>4. CopiesLogged'
  BY <1>1, <1>3, LogCopiesKept
<1>5. StepsLogged'
  BY DEF LogInv, StepsLogged, AttemptsRecorded
<1> QED
  BY <1>4, <1>5, ReadLogged

\* Approvers and sweeper keep the log in order.
LEMMA GateWriterLogged ==
    ASSUME SingleDriver, TypeOK, TypeOK', ApprovalInv, LogInv, Next,
           \/ \E d \in Drivers : List(d) \/ Sweep(d)
           \/ \E u \in Users : Decide(u) \/ Approve(u) \/ Reject(u)
    PROVE  LogInv'
<1>1. ASSUME NEW t \in 1..(Len(Runbook) + 1) PROVE GateCopy(t).step = step
  BY CopyType DEF TypeOK
<1>2. ASSUME NEW d \in Drivers, List(d) PROVE LogInv'
  <2>1. PICK t \in Gates : Read(d, GateCopy(t)) /\ Goto(d, "listed")
    BY <1>2 DEF List
  <2>2. t \in 1..(Len(Runbook) + 1)
    BY NextStepType DEF Gates
  <2> QED
    BY <1>1, <1>2, <2>1, <2>2, GateReadLogged DEF List, Processes
<1>3. ASSUME NEW d \in Drivers, Reread(d) PROVE LogInv'
  <2> DEFINE c == [seen[d] EXCEPT !.status = status, !.step = step]
  <2>1. d \in Processes /\ seen[d] \in Copies
    BY OnFacts DEF Processes
  <2>2. c.step = step
    BY <2>1 DEF Copies
  <2> QED
    BY <1>3, <2>1, <2>2, GateReadLogged DEF Reread
<1>4. ASSUME NEW d \in Drivers, ApplyTimeout(d) PROVE LogInv'
  <2>1. TimeoutStatus # "COMPLETED"
    BY DEF TimeoutStatus
  <2>2. \/ Resolve(d, TimeoutGate, seen[d].votes, TimeoutStatus)
        \/ WriteGate(d, "EXPIRED", seen[d].votes)
    BY <1>4 DEF ApplyTimeout
  <2> QED
    BY <2>1, <2>2, GateWriteLogged DEF Processes
<1>5. ASSUME NEW u \in Users, Decide(u) PROVE LogInv'
  <2>1. PICK x \in {"approve", "reject"} : Goto(u, x) /\ Read(u, GateCopy(step))
    BY <1>5 DEF Decide
  <2>2. step \in 1..(Len(Runbook) + 1)
    BY DEF TypeOK, RowsOK
  <2> QED
    BY <1>1, <1>5, <2>1, <2>2, GateReadLogged DEF Decide, Processes
<1>6. ASSUME NEW u \in Users, Approve(u) PROVE LogInv'
  <2>1. \E g, v : Resolve(u, g, v, "RUNNING") \/ WriteGate(u, g, v)
    BY <1>6 DEF Approve
  <2> QED
    BY <2>1, GateWriteLogged DEF Processes
<1>7. ASSUME NEW u \in Users, Reject(u) PROVE LogInv'
  BY <1>7, GateWriteLogged DEF Reject, Processes
<1> QED
  BY <1>2, <1>3, <1>4, <1>5, <1>6, <1>7 DEF Sweep

\* The log of a new run is in order.
LEMMA InitLogged == Init => LogInv
<1> SUFFICES ASSUME Init PROVE LogInv
  OBVIOUS
<1>1. \A s \in Steps : ~(s < 1)
  BY LengthType DEF Steps
<1>2. CopiesLogged
  BY <1>1 DEF Init, CopiesLogged, CopyLogged, Reached, Driving, Nothing
<1>3. StepsLogged
  BY DEF Init, StepsLogged, AttemptsRecorded, Gates, Through
<1>4. RunLogged
  BY <1>1 DEF Init, RunLogged, Reached
<1> QED
  BY <1>2, <1>3, <1>4 DEF LogInv

\* Every step keeps the log in order.
LEMMA NextLogged ==
    ASSUME SingleDriver, TypeOK, TypeOK', ApprovalInv, LogInv, [Next]_vars
    PROVE  LogInv'
<1>1. CASE UNCHANGED vars
  BY <1>1 DEF vars, LogInv, StepsLogged, RunLogged, CopiesLogged, CopyLogged, Reached,
         AttemptsRecorded
<1>2. CASE \E d \in Drivers : OlderSticks(d)
  BY <1>2 DEF OlderSticks, runVars, gateVars, procVars, pastVars, LogInv, StepsLogged, RunLogged, CopiesLogged, CopyLogged, Reached,
         AttemptsRecorded
<1>3. CASE \E d \in Drivers : Claim(d) \/ Advance(d) \/ Abandon(d) \/ List(d) \/ Sweep(d)
  BY <1>3, DriverLogged, GateWriterLogged DEF Next
<1>4. CASE \E u \in Users : Decide(u) \/ Approve(u) \/ Reject(u)
  BY <1>4, GateWriterLogged DEF Next
<1> QED
  BY <1>1, <1>2, <1>3, <1>4 DEF Next

\* An action on record as OK stays on record and is not executed by any step.
LEMMA NextOk ==
    ASSUME TypeOK, ApprovalInv, LogInv, [Next]_vars
    PROVE  \A s \in Steps : log[s] = "OK" => log'[s] = "OK" /\ execs'[s] = execs[s]
<1>1. ASSUME NEW d \in Drivers, Execute(d), NEW s \in Steps, log[s] = "OK"
      PROVE  log'[s] = "OK" /\ execs'[s] = execs[s]
  <2>1. s # seen[d].on
    BY <1>1, OnFacts DEF Execute, CopyLogged, Processes
  <2> QED
    BY <1>1, <2>1 DEF Execute, TypeOK, PastOK
<1>2. ASSUME NEW d \in Drivers, Prepare(d) \/ PersistDone(d) \/ PersistFailed(d),
             NEW s \in Steps, log[s] = "OK"
      PROVE  log'[s] = "OK" /\ execs'[s] = execs[s]
  <2>1. s # seen[d].on
    BY <1>2, OnFacts DEF Prepare, PersistDone, PersistFailed, CopyLogged, Processes
  <2> QED
    BY <1>2, <2>1 DEF Prepare, PersistDone, PersistFailed, Record, TypeOK, RowsOK
<1>3. ASSUME NEW d \in Drivers, Park(d) \/ Resume(d), NEW s \in Steps, log[s] = "OK"
      PROVE  log'[s] = "OK" /\ execs'[s] = execs[s]
  <2>1. seen[d].on \in Gates
    BY <1>3, OnFacts DEF Park, Resume, CopyLogged, Processes
  <2>2. s # seen[d].on
    BY <1>3, <2>1 DEF LogInv, StepsLogged
  <2> QED
    BY <1>3, <2>2 DEF Park, Resume, TypeOK, RowsOK
<1>4. ASSUME NEW d \in Drivers, ApplyTimeout(d) PROVE UNCHANGED <<log, execs>>
  BY <1>4 DEF ApplyTimeout, Resolve, WriteGate
<1>5. ASSUME NEW u \in Users, Approve(u) \/ Reject(u) PROVE UNCHANGED <<log, execs>>
  BY <1>5 DEF Approve, Reject, Resolve, WriteGate
<1> QED
  BY <1>1, <1>2, <1>3, <1>4, <1>5
  DEF vars, Next, Claim, Advance, OlderSticks, Abandon, List, Sweep, Decide, Start, Look, Complete, Skip, Reopen,
      Reread

\* With one driver the log is in order always, besides the approvals.
LEMMA LogHolds == SingleDriver => (Spec => [](TypeOK /\ ApprovalInv /\ LogInv))
<1> SUFFICES ASSUME SingleDriver PROVE Spec => [](TypeOK /\ ApprovalInv /\ LogInv)
  OBVIOUS
<1>1. Init => TypeOK /\ ApprovalInv /\ LogInv
  BY InitType, InitApproved, InitLogged
<1>2. TypeOK /\ ApprovalInv /\ LogInv /\ [Next]_vars => (TypeOK /\ ApprovalInv /\ LogInv)'
  BY NextType, NextApproved, NextLogged
<1> QED
  BY <1>1, <1>2, PTL DEF Spec

\* With one driver every execution of an action has an attempt of its own on
\* record before it begins, whatever crashes and decisions come between the
\* transactions (runActionStep, PREPARE).
THEOREM AttemptsOnRecord == ASSUME SingleDriver PROVE Spec => []AttemptsRecorded
<1>1. LogInv => AttemptsRecorded
  BY DEF LogInv, StepsLogged
<1> QED
  BY <1>1, LogHolds, PTL

\* With one driver no step is ever skipped: the run is past a step only when its
\* row says OK or APPROVED, also after an approver or the sweeper has written
\* the run row back from an old copy, and COMPLETED means all steps
\* (advanceRunning, resumeAfterGate).
THEOREM NoStepSkipped == ASSUME SingleDriver PROVE Spec => []NoGap
<1>1. LogInv => NoGap
  BY DEF LogInv, RunLogged, NoGap, Reached, Through
<1> QED
  BY <1>1, LogHolds, PTL

\* With one driver an action on record as OK stays on record and is never
\* executed again, not even when the run row has been set back to an earlier
\* step (runActionStep).
THEOREM RecordedOnce == ASSUME SingleDriver PROVE Spec => OkNeverRefired
<1>1. TypeOK /\ ApprovalInv /\ LogInv /\ [Next]_vars
        => [\A s \in Steps : log[s] = "OK" => log'[s] = "OK" /\ execs'[s] = execs[s]]_vars
  BY NextOk
<1> QED
  BY <1>1, LogHolds, PTL DEF Spec, OkNeverRefired
-----------------------------------------------------------------------------
(* Gate row and run row, for one driver and as long as nothing changed was *)
(* overwritten.                                                            *)

\* Agree, with what it needs of an approved gate: the run is past it, or at it
\* and about to go on.
InStep ==
    \A g \in Gates :
        /\ gate[g] = "OPEN"      => status = "AWAITING_APPROVAL" /\ step = g
        /\ gate[g] = "ESCALATED" => status = "ESCALATED" /\ step = g
        /\ gate[g] = "REJECTED"  => status = "FAILED"
        /\ gate[g] = "EXPIRED"   => status = "ABORTED"
        /\ gate[g] = "APPROVED"  => step > g \/ (step = g /\ status = "RUNNING")
        /\ gate[g] = "none"      => step <= g

\* What a working driver has read of the run is the run row as it is.
Following(p) ==
    /\ at[p] \in Driving => seen[p].status = status /\ seen[p].step = step
    /\ at[p] = "resume" => gate[seen[p].on] = "APPROVED"

\* What a writer of gates has read: a parked run with an undecided gate, or a
\* gate that was OPEN.
ReadUndecided(p) ==
    LET c == seen[p] IN
    /\ at[p] \in {"approve", "reject"} =>
           c.status \in Parked /\ c.on = c.step /\ c.gate \in Undecided /\ c.on \in Gates
    /\ at[p] \in {"listed", "timeout"} => c.gate = "OPEN" /\ c.on \in Gates

OnlyGates == \A s \in Steps \ Gates : gate[s] = "none"
Consistent == InStep /\ \A p \in Processes : Following(p)

AgreeInv ==
    /\ OnlyGates
    /\ \A p \in Processes : ReadUndecided(p)
    /\ ~overwritten => Consistent

\* Rows that are in step agree.
LEMMA InStepAgrees == ASSUME TypeOK, InStep PROVE Agree
<1>1. \A g \in Gates : gate[g] \in GateStates
  BY DEF TypeOK, RowsOK, Gates
<1> QED
  BY <1>1 DEF InStep, Agree, GateStates

\* The driver takes a runnable run on, or past the step it is at.
LEMMA MoveInStep ==
    ASSUME TypeOK, InStep, status \in Runnable, UNCHANGED gate,
           \/ step' = step /\ (status' \in {"RUNNING", status} \/ step \notin Gates)
           \/ step' = step + 1 /\ (step \in Gates => gate[step] = "APPROVED")
    PROVE  InStep'
<1>1. step \in Int /\ \A g \in Gates : g \in Int
  BY LengthType DEF TypeOK, RowsOK, Gates, Steps
<1>2. \A g \in Gates : gate[g] \in {"none", "APPROVED"}
  BY DEF InStep, Runnable, TypeOK, RowsOK, GateStates, Gates
<1>3. CASE step' = step /\ (status' \in {"RUNNING", status} \/ step \notin Gates)
  BY <1>1, <1>2, <1>3 DEF InStep
<1>4. CASE step' = step + 1 /\ (step \in Gates => gate[step] = "APPROVED")
  BY <1>1, <1>2, <1>4 DEF InStep
<1> QED
  BY <1>3, <1>4

\* The driver opens the gate a runnable run is at.
LEMMA ParkInStep ==
    ASSUME TypeOK, InStep, status \in Runnable, step \in Gates, gate[step] = "none",
           gate' = [gate EXCEPT ![step] = "OPEN"], status' = "AWAITING_APPROVAL", step' = step
    PROVE  InStep'
<1>1. step \in Int /\ \A g \in Gates : g \in Int /\ g \in Steps
  BY LengthType DEF TypeOK, RowsOK, Gates, Steps
<1>2. gate'[step] = "OPEN" /\ \A g \in Gates \ {step} : gate'[g] = gate[g]
  BY <1>1 DEF TypeOK, RowsOK
<1>3. \A g \in Gates : gate[g] \in {"none", "APPROVED"}
  BY DEF InStep, Runnable, TypeOK, RowsOK, GateStates, Gates
<1> QED
  BY <1>1, <1>2, <1>3 DEF InStep

\* A writer of gates decides the gate a parked run is at.
LEMMA DecideInStep ==
    ASSUME TypeOK, InStep, step \in Gates, status \in Parked, gate[step] \in Undecided,
           NEW g, gate' = [gate EXCEPT ![step] = g], step' = step,
           \/ g = "APPROVED" /\ status' = "RUNNING"
           \/ g = "REJECTED" /\ status' = "FAILED"
           \/ g = "EXPIRED" /\ status' = "ABORTED"
           \/ g = "ESCALATED" /\ status' = "ESCALATED"
           \/ g = gate[step] /\ status' = status
    PROVE  InStep'
<1>1. step \in Int /\ \A t \in Gates : t \in Int /\ t \in Steps
  BY LengthType DEF TypeOK, RowsOK, Gates, Steps
<1>2. gate'[step] = g /\ \A t \in Gates \ {step} : gate'[t] = gate[t]
  BY <1>1 DEF TypeOK, RowsOK
<1>3. \A t \in Gates \ {step} : gate[t] \in {"none", "APPROVED"} /\ (gate[t] = "APPROVED" => step > t)
  BY DEF InStep, Parked, TypeOK, RowsOK, GateStates, Gates
<1>4. ASSUME NEW t \in Gates \ {step}
      PROVE  /\ gate'[t] = "APPROVED" => step' > t
             /\ gate'[t] = "none" => step' <= t
             /\ gate'[t] \in {"none", "APPROVED"}
  BY <1>2, <1>3 DEF InStep
<1>5. gate[step] = "OPEN" => status = "AWAITING_APPROVAL"
  BY DEF InStep
<1>6. gate[step] = "ESCALATED" => status = "ESCALATED"
  BY DEF InStep
<1> QED
  BY <1>2, <1>4, <1>5, <1>6 DEF InStep, Undecided

\* Nobody takes back that something was overwritten.
LEMMA OverwrittenStays == ASSUME Next, overwritten PROVE overwritten'
BY DEF Next, OlderSticks, Claim, Advance, Abandon, List, Sweep, Decide, Approve, Reject, Start, Look, Complete,
       Prepare, Execute, PersistDone, Skip, PersistFailed, Park, Reopen, Resume, Reread,
       ApplyTimeout, Resolve, WriteGate

\* When one process moves, the others know what they knew; a driver at work
\* knows the run row, unless it was parked and none is at work.
LEMMA OthersKept ==
    ASSUME SingleDriver, TypeOK, ApprovalInv, LogInv, AgreeInv,
           NEW p \in Processes, NEW q \in Processes \ {p},
           at'[q] = at[q], seen'[q] = seen[q]
    PROVE  /\ ReadUndecided(q)'
           /\ Following(q) /\ (p \in Drivers \/ UNCHANGED <<status, step, gate>> \/ status \notin Runnable)
                  => Following(q)'
<1>1. ReadUndecided(q)'
  BY DEF AgreeInv, ReadUndecided
<1>2. at[q] \in Driving => q \in Drivers /\ seen[q].status \in Runnable
  BY OnFacts DEF CopyLogged
<1>3. "resume" \in Driving
  BY DEF Driving
<1> QED
  BY <1>1, <1>2, <1>3 DEF Following, SingleDriver

\* What every step has to show.
LEMMA AgreeFrom ==
    ASSUME SingleDriver, TypeOK, ApprovalInv, LogInv, AgreeInv, Next,
           NEW p \in Processes,
           \A q \in Processes \ {p} : at'[q] = at[q] /\ seen'[q] = seen[q],
           OnlyGates', ReadUndecided(p)',
           ~overwritten' /\ Consistent =>
               /\ InStep' /\ Following(p)'
               /\ p \in Drivers \/ UNCHANGED <<status, step, gate>> \/ status \notin Runnable
    PROVE  AgreeInv'
<1>1. \A q \in Processes : ReadUndecided(q)'
  BY OthersKept
<1>2. ASSUME ~overwritten' PROVE Consistent'
  <2>1. Consistent
    BY <1>2, OverwrittenStays DEF AgreeInv
  <2>2. \A q \in Processes : Following(q)'
    BY <1>2, <2>1, OthersKept DEF Consistent
  <2> QED
    BY <1>2, <2>1, <2>2 DEF Consistent
<1> QED
  BY <1>1, <1>2 DEF AgreeInv

\* A process that is done knows nothing that could be wrong.
LEMMA DoneKnows ==
    ASSUME TypeOK, NEW p \in Processes, Finish(p)
    PROVE  /\ ReadUndecided(p)' /\ Following(p)'
           /\ \A q \in Processes \ {p} : at'[q] = at[q] /\ seen'[q] = seen[q]
<1>1. at'[p] = "idle"
  BY DEF Finish, Goto, Read, TypeOK, ProcessesOK
<1>2. ReadUndecided(p)' /\ Following(p)'
  BY <1>1 DEF ReadUndecided, Following, Driving
<1> QED
  BY <1>2 DEF Finish, Goto, Read, TypeOK, ProcessesOK

\* A driver writes the run row from its copy, which is the row.
LEMMA WriteRunAgrees ==
    ASSUME SingleDriver, TypeOK, ApprovalInv, LogInv, AgreeInv, Next,
           NEW d \in Drivers, NEW st, NEW n, WriteRun(d, st, n), UNCHANGED overwritten,
           OnlyGates', ~overwritten /\ Consistent => InStep'
    PROVE  AgreeInv'
BY DoneKnows, AgreeFrom DEF WriteRun, Processes

\* A driver goes on with a copy that is the run row, and writes neither the run
\* row nor a gate.
LEMMA GoOnAgrees ==
    ASSUME SingleDriver, TypeOK, ApprovalInv, LogInv, AgreeInv, Next,
           NEW d \in Drivers, NEW x \in Driving, at'[d] = x,
           \A q \in Processes \ {d} : at'[q] = at[q] /\ seen'[q] = seen[q],
           UNCHANGED <<status, step, gate, overwritten>>,
           Consistent => seen'[d].status = status /\ seen'[d].step = step,
           x = "resume" => gate[seen'[d].on] = "APPROVED"
    PROVE  AgreeInv'
<1>1. OnlyGates'
  BY DEF AgreeInv, OnlyGates
<1>2. ReadUndecided(d)'
  BY DEF ReadUndecided, Driving
<1>3. ~overwritten' /\ Consistent => InStep' /\ Following(d)'
  BY DEF Consistent, InStep, Following
<1> QED
  BY <1>1, <1>2, <1>3, AgreeFrom DEF Processes

\* The driver's steps keep run row and gate row in step.
LEMMA DriverAgrees ==
    ASSUME SingleDriver, TypeOK, TypeOK', ApprovalInv, LogInv, AgreeInv, Next, NEW d \in Drivers,
           Claim(d) \/ Advance(d) \/ Abandon(d)
    PROVE  AgreeInv'
<1> DEFINE s == seen[d].on
<1>1. /\ d \in Processes /\ CopyLogged(d)
      /\ at[d] \in OnStep => s \in Steps
      /\ at[d] \in Driving => s = seen[d].step /\ seen[d].status \in Runnable
      /\ at[d] \in OnAction => s \in Steps \ Gates
      /\ seen[d] \in Copies
  BY OnFacts DEF Processes, CopyLogged
<1>2. at \in [Processes -> Places] /\ seen \in [Processes -> Copies]
  BY DEF TypeOK, ProcessesOK
<1>3. OnlyGates /\ (UNCHANGED gate => OnlyGates')
  BY DEF AgreeInv, OnlyGates
<1>4. ASSUME Consistent, at[d] \in Driving
      PROVE  /\ InStep /\ status \in Runnable
             /\ seen[d].status = status /\ seen[d].step = step /\ s = step
             /\ at[d] = "resume" => gate[s] = "APPROVED"
  BY <1>1, <1>4 DEF Consistent, Following
<1>5. CASE Claim(d)
  <2>1. /\ at'[d] \in Driving \ {"resume"} /\ seen'[d] = RunCopy(step)
        /\ \A q \in Processes \ {d} : at'[q] = at[q] /\ seen'[q] = seen[q]
    BY <1>1, <1>2, <1>5 DEF Claim, Goto, Read, Driving
  <2>2. seen'[d].step = step /\ seen'[d].status = status
    BY <2>1 DEF RunCopy, Nothing
  <2> QED
    BY <1>5, <2>1, <2>2, GoOnAgrees DEF Claim
<1>6. CASE Start(d)
  <2>1. Consistent => InStep'
    BY <1>4, <1>6, MoveInStep DEF Start, WriteRun, Driving
  <2> QED
    BY <1>3, <1>6, <2>1, WriteRunAgrees DEF Start
<1>7. CASE Look(d)
  <2>1. /\ at'[d] = Route(s)
        /\ seen'[d] = [seen[d] EXCEPT !.attempt = IF s \in Steps THEN attempt[s] + 1 ELSE 0]
        /\ \A q \in Processes \ {d} : at'[q] = at[q] /\ seen'[q] = seen[q]
    BY <1>1, <1>2, <1>7 DEF Look, Goto, Read
  <2>2. seen'[d].step = seen[d].step /\ seen'[d].status = seen[d].status
    BY <1>1, <2>1 DEF Copies
  <2>3. Route(s) \in Driving \ {"resume"}
    BY <1>1, RouteType DEF Driving, Copies, TypeOK
  <2>4. Consistent => seen[d].status = status /\ seen[d].step = step
    BY <1>4, <1>7 DEF Look, Driving
  <2> QED
    BY <1>7, <2>1, <2>2, <2>3, <2>4, GoOnAgrees DEF Look
<1>8. CASE Complete(d)
  <2>1. seen[d].step \notin Gates
    BY <1>1, <1>8, LengthType DEF Complete, CopyLogged, Gates, Steps
  <2>2. Consistent => InStep'
    BY <1>4, <1>8, <2>1, MoveInStep DEF Complete, WriteRun, Driving
  <2> QED
    BY <1>3, <1>8, <2>2, WriteRunAgrees DEF Complete
<1>9. CASE Prepare(d) \/ Execute(d)
  <2>1. /\ at'[d] \in Driving \ {"resume"} /\ seen' = seen
        /\ \A q \in Processes \ {d} : at'[q] = at[q] /\ seen'[q] = seen[q]
    BY <1>1, <1>2, <1>9 DEF Prepare, Execute, Goto, Driving
  <2>2. Consistent => seen[d].status = status /\ seen[d].step = step
    BY <1>4, <1>9 DEF Prepare, Execute, Driving
  <2> QED
    BY <1>9, <2>1, <2>2, GoOnAgrees DEF Prepare, Execute
<1>10. CASE PersistDone(d) \/ Skip(d)
  <2>1. s \notin Gates
    BY <1>1, <1>10 DEF PersistDone, Skip, OnAction
  <2>2. Consistent => InStep'
    BY <1>4, <1>10, <2>1, MoveInStep DEF PersistDone, Skip, AdvancePast, WriteRun, Driving
  <2> QED
    BY <1>3, <1>10, <2>2, WriteRunAgrees DEF PersistDone, Skip, AdvancePast
<1>11. CASE PersistFailed(d)
  <2>1. s \notin Gates
    BY <1>1, <1>11 DEF PersistFailed, OnAction
  <2>2. Consistent => InStep'
    BY <1>4, <1>11, <2>1, MoveInStep DEF PersistFailed, WriteRun, Driving
  <2> QED
    BY <1>3, <1>11, <2>2, WriteRunAgrees DEF PersistFailed
<1>12. CASE Park(d)
  <2>1. s \in Gates
    BY <1>1, <1>12 DEF Park, CopyLogged
  <2>2. OnlyGates'
    BY <1>3, <1>12, <2>1 DEF Park, OnlyGates, TypeOK, RowsOK
  <2>3. Consistent => InStep'
    BY <1>4, <1>12, <2>1, ParkInStep DEF Park, WriteRun, Driving
  <2> QED
    BY <1>12, <2>2, <2>3, WriteRunAgrees DEF Park
<1>13. CASE Reopen(d)
  <2>1. ASSUME Finish(d) PROVE AgreeInv'
    <3>1. Consistent => InStep'
      BY <1>13 DEF Reopen, Consistent, InStep
    <3> QED
      BY <1>1, <1>3, <1>13, <2>1, <3>1, DoneKnows, AgreeFrom DEF Reopen
  <2>2. ASSUME gate[s] = "APPROVED", Goto(d, "resume"), UNCHANGED seen PROVE AgreeInv'
    <3>1. at'[d] = "resume" /\ \A q \in Processes \ {d} : at'[q] = at[q] /\ seen'[q] = seen[q]
      BY <1>1, <1>2, <2>2 DEF Goto
    <3>2. Consistent => seen[d].status = status /\ seen[d].step = step
      BY <1>4, <1>13 DEF Reopen, Driving
    <3>3. "resume" \in Driving
      BY DEF Driving
    <3> QED
      BY <1>13, <2>2, <3>1, <3>2, <3>3, GoOnAgrees DEF Reopen
  <2> QED
    BY <1>13, <2>1, <2>2 DEF Reopen
<1>14. CASE Resume(d)
  <2>1. Consistent => InStep'
    BY <1>4, <1>14, MoveInStep DEF Resume, WriteRun, Driving
  <2> QED
    BY <1>3, <1>14, <2>1, WriteRunAgrees DEF Resume
<1>15. CASE Abandon(d)
  <2>1. Consistent => InStep'
    BY <1>15 DEF Abandon, Consistent, InStep
  <2> QED
    BY <1>1, <1>3, <1>15, <2>1, DoneKnows, AgreeFrom DEF Abandon
<1> QED
  BY <1>5, <1>6, <1>7, <1>8, <1>9, <1>10, <1>11, <1>12, <1>13, <1>14, <1>15 DEF Advance

\* A writer of gates whose copy is not stale finds a parked run at its gate,
\* which is undecided.
LEMMA FreshCopy ==
    ASSUME TypeOK, AgreeInv, Consistent, NEW p \in Processes,
           at[p] \in {"approve", "reject", "timeout"}, ~Stale(p)
    PROVE  /\ seen[p].on = step /\ seen[p].step = step /\ step \in Gates
           /\ seen[p].status = status /\ seen[p].gate = gate[step]
           /\ status \in Parked /\ gate[step] \in Undecided
           /\ at[p] = "timeout" => gate[step] = "OPEN" /\ status = "AWAITING_APPROVAL"
<1> DEFINE c == seen[p]
<1>1. ReadUndecided(p) /\ InStep
  BY DEF AgreeInv, Consistent
<1>2. c.on \in Gates /\ c.on \in Steps /\ (at[p] # "timeout" => c.status \in Parked /\ c.on = c.step)
  BY <1>1 DEF ReadUndecided, Gates
<1>3. c.status = status /\ c.step = step /\ c.gate = gate[c.on]
  BY <1>2 DEF Stale, GateAt
<1>4. CASE at[p] = "timeout"
  <2>1. gate[c.on] = "OPEN"
    BY <1>1, <1>3, <1>4 DEF ReadUndecided
  <2>2. status = "AWAITING_APPROVAL" /\ step = c.on
    BY <1>1, <1>2, <2>1 DEF InStep
  <2> QED
    BY <1>2, <1>3, <2>1, <2>2 DEF Parked, Undecided
<1>5. CASE at[p] \in {"approve", "reject"}
  BY <1>1, <1>2, <1>3, <1>5 DEF ReadUndecided
<1> QED
  BY <1>4, <1>5

\* A writer of gates keeps the rows in step, or has overwritten something.
LEMMA GateWriteAgrees ==
    ASSUME SingleDriver, TypeOK, TypeOK', ApprovalInv, LogInv, AgreeInv, Next,
           NEW p \in Processes, at[p] \in {"approve", "reject", "timeout"},
           NEW g, NEW v,
           \/ Resolve(p, g, v, "RUNNING") /\ g = "APPROVED"
           \/ Resolve(p, g, v, "FAILED") /\ g = "REJECTED"
           \/ Resolve(p, g, v, "ABORTED") /\ g = "EXPIRED"
           \/ Resolve(p, g, v, "ESCALATED") /\ g = "ESCALATED"
           \/ /\ WriteGate(p, g, v)
              /\ g = seen[p].gate \/ (seen[p].status # "AWAITING_APPROVAL" /\ at[p] = "timeout")
    PROVE  AgreeInv'
<1>1. /\ Finish(p) /\ gate' = [gate EXCEPT ![seen[p].on] = g]
      /\ overwritten' = (overwritten \/ Stale(p))
  BY DEF Resolve, WriteGate
<1>2. seen[p].on \in Gates
  BY DEF AgreeInv, ReadUndecided
<1>3. OnlyGates'
  BY <1>1, <1>2 DEF AgreeInv, OnlyGates, TypeOK, RowsOK
<1>4. ASSUME ~overwritten', Consistent PROVE InStep' /\ status \notin Runnable
  <2>1. ~Stale(p)
    BY <1>1, <1>4
  <2>2. /\ seen[p].on = step /\ seen[p].step = step /\ step \in Gates
        /\ seen[p].gate = gate[step] /\ seen[p].status = status
        /\ status \in Parked /\ gate[step] \in Undecided
        /\ at[p] = "timeout" => status = "AWAITING_APPROVAL"
    BY <1>4, <2>1, FreshCopy
  <2>3. step' = step /\ gate' = [gate EXCEPT ![step] = g]
    BY <1>1, <2>2 DEF Resolve, WriteGate
  <2>4. \/ g = "APPROVED" /\ status' = "RUNNING"
        \/ g = "REJECTED" /\ status' = "FAILED"
        \/ g = "EXPIRED" /\ status' = "ABORTED"
        \/ g = "ESCALATED" /\ status' = "ESCALATED"
        \/ g = gate[step] /\ status' = status
    BY <2>2 DEF Resolve, WriteGate
  <2>5. InStep'
    BY <1>4, <2>2, <2>3, <2>4, DecideInStep DEF Consistent
  <2> QED
    BY <2>2, <2>5 DEF Parked, Runnable
<1> QED
  BY <1>1, <1>3, <1>4, DoneKnows, AgreeFrom

\* A reader of gates has read what it needs.
LEMMA GateReadAgrees ==
    ASSUME SingleDriver, TypeOK, ApprovalInv, LogInv, AgreeInv, Next,
           NEW p \in Processes, NEW x \in {"listed", "timeout", "approve", "reject"}, NEW c,
           Goto(p, x), Read(p, c), c.on \in Gates,
           \/ x \in {"approve", "reject"} /\ c.status \in Parked /\ c.on = c.step /\ c.gate \in Undecided
           \/ x \in {"listed", "timeout"} /\ c.gate = "OPEN",
           UNCHANGED <<status, step, gate, overwritten>>
    PROVE  AgreeInv'
<1>1. at'[p] = x /\ seen'[p] = c /\ \A q \in Processes \ {p} : at'[q] = at[q] /\ seen'[q] = seen[q]
  BY DEF Goto, Read, TypeOK, ProcessesOK
<1>2. ReadUndecided(p)' /\ Following(p)'
  BY <1>1 DEF ReadUndecided, Following, Driving
<1>3. OnlyGates' /\ (Consistent => InStep')
  BY DEF AgreeInv, OnlyGates, Consistent, InStep
<1> QED
  BY <1>1, <1>2, <1>3, AgreeFrom

\* Approvers and sweeper keep run row and gate row in step.
LEMMA GateWriterAgrees ==
    ASSUME SingleDriver, TypeOK, TypeOK', ApprovalInv, LogInv, AgreeInv, Next,
           \/ \E d \in Drivers : List(d) \/ Sweep(d)
           \/ \E u \in Users : Decide(u) \/ Approve(u) \/ Reject(u)
    PROVE  AgreeInv'
<1>1. ASSUME NEW t \in 1..(Len(Runbook) + 1)
      PROVE  /\ GateCopy(t).step = step /\ GateCopy(t).status = status
             /\ GateCopy(t).on = t /\ GateCopy(t).gate = GateAt(t)
  BY DEF GateCopy, RunCopy, Nothing
<1>2. \A t \in Steps : GateAt(t) = gate[t]
  BY DEF GateAt
<1>3. ASSUME NEW d \in Drivers, List(d) PROVE AgreeInv'
  <2>1. PICK t \in Gates : gate[t] = "OPEN" /\ Read(d, GateCopy(t)) /\ Goto(d, "listed")
    BY <1>3 DEF List
  <2>2. t \in Steps /\ t \in 1..(Len(Runbook) + 1)
    BY NextStepType DEF Gates
  <2> QED
    BY <1>1, <1>2, <1>3, <2>1, <2>2, GateReadAgrees DEF List, Processes
<1>4. ASSUME NEW d \in Drivers, Reread(d) PROVE AgreeInv'
  <2> DEFINE c == [seen[d] EXCEPT !.status = status, !.step = step]
  <2>1. d \in Processes /\ seen[d] \in Copies
    BY OnFacts DEF Processes
  <2>2. c.on = seen[d].on /\ c.gate = seen[d].gate
    BY <2>1 DEF Copies
  <2>3. seen[d].gate = "OPEN" /\ seen[d].on \in Gates
    BY <1>4, <2>1 DEF Reread, AgreeInv, ReadUndecided
  <2> QED
    BY <1>4, <2>1, <2>2, <2>3, GateReadAgrees DEF Reread
<1>5. ASSUME NEW d \in Drivers, ApplyTimeout(d) PROVE AgreeInv'
  <2>1. d \in Processes /\ at[d] = "timeout"
    BY <1>5 DEF ApplyTimeout, Processes
  <2>2. \/ TimeoutGate = "APPROVED" /\ TimeoutStatus = "RUNNING"
        \/ TimeoutGate = "EXPIRED" /\ TimeoutStatus = "ABORTED"
        \/ TimeoutGate = "ESCALATED" /\ TimeoutStatus = "ESCALATED"
    BY DEF TimeoutGate, TimeoutStatus
  <2>3. CASE Resolve(d, TimeoutGate, seen[d].votes, TimeoutStatus)
    BY <2>1, <2>2, <2>3, GateWriteAgrees
  <2>4. CASE seen[d].status # "AWAITING_APPROVAL" /\ WriteGate(d, "EXPIRED", seen[d].votes)
    BY <2>1, <2>4, GateWriteAgrees
  <2> QED
    BY <1>5, <2>3, <2>4 DEF ApplyTimeout
<1>6. ASSUME NEW u \in Users, Decide(u) PROVE AgreeInv'
  <2>1. PICK x \in {"approve", "reject"} : Goto(u, x) /\ Read(u, GateCopy(step))
    BY <1>6 DEF Decide
  <2>2. step \in Steps /\ step \in 1..(Len(Runbook) + 1) /\ GateAt(step) \in Undecided /\ status \in Parked
    BY <1>6, NextStepType DEF Decide, GateAt, Undecided
  <2>3. step \in Gates
    BY <1>2, <2>2 DEF AgreeInv, OnlyGates, Undecided
  <2> QED
    BY <1>1, <1>6, <2>1, <2>2, <2>3, GateReadAgrees DEF Decide, Processes
<1>7. ASSUME NEW u \in Users, Approve(u) PROVE AgreeInv'
  <2> DEFINE v == seen[u].votes \cup {u}
  <2>1. u \in Processes /\ at[u] = "approve"
    BY <1>7 DEF Approve, Processes
  <2>2. Resolve(u, "APPROVED", v, "RUNNING") \/ WriteGate(u, seen[u].gate, v)
    BY <1>7 DEF Approve
  <2>3. CASE Resolve(u, "APPROVED", v, "RUNNING")
    BY <2>1, <2>3, GateWriteAgrees
  <2>4. CASE WriteGate(u, seen[u].gate, v)
    BY <2>1, <2>4, GateWriteAgrees
  <2> QED
    BY <2>2, <2>3, <2>4
<1>8. ASSUME NEW u \in Users, Reject(u) PROVE AgreeInv'
  <2>1. u \in Processes /\ at[u] = "reject"
    BY <1>8 DEF Reject, Processes
  <2> QED
    BY <1>8, <2>1, GateWriteAgrees DEF Reject
<1> QED
  BY <1>3, <1>4, <1>5, <1>6, <1>7, <1>8 DEF Sweep

\* The rows of a new run are in step.
LEMMA InitAgrees == Init => AgreeInv
<1> SUFFICES ASSUME Init PROVE AgreeInv
  OBVIOUS
<1>1. OnlyGates /\ \A p \in Processes : ReadUndecided(p) /\ Following(p)
  BY DEF Init, OnlyGates, ReadUndecided, Following, Driving, Gates
<1>2. \A g \in Gates : 1 <= g
  BY LengthType DEF Gates, Steps
<1>3. InStep
  BY <1>2 DEF Init, InStep, Gates
<1> QED
  BY <1>1, <1>3 DEF AgreeInv, Consistent

\* Every step keeps them in step, or overwrites something.
LEMMA NextAgrees ==
    ASSUME SingleDriver, TypeOK, TypeOK', ApprovalInv, LogInv, AgreeInv, [Next]_vars
    PROVE  AgreeInv'
<1>1. CASE UNCHANGED vars
  BY <1>1 DEF vars, AgreeInv, OnlyGates, ReadUndecided, Consistent, InStep, Following
<1>2. CASE \E d \in Drivers : OlderSticks(d)
  BY <1>2 DEF OlderSticks, runVars, gateVars, procVars, pastVars, AgreeInv, OnlyGates, ReadUndecided, Consistent, InStep, Following
<1>3. CASE \E d \in Drivers : Claim(d) \/ Advance(d) \/ Abandon(d) \/ List(d) \/ Sweep(d)
  BY <1>3, DriverAgrees, GateWriterAgrees DEF Next
<1>4. CASE \E u \in Users : Decide(u) \/ Approve(u) \/ Reject(u)
  BY <1>4, GateWriterAgrees DEF Next
<1> QED
  BY <1>1, <1>2, <1>3, <1>4 DEF Next

\* With one driver the run row and the gate row say the same, whatever crashes,
\* failures, votes and timeouts interleave, until a writer of gates overwrites
\* a row that has changed since it read it (ApproveGate, ApplyTimeout): the
\* writes that lock nothing are the only way the two can diverge.
THEOREM OverwriteOnly == ASSUME SingleDriver PROVE Spec => []DivergeOnlyByOverwrite
<1> DEFINE Inv == TypeOK /\ ApprovalInv /\ LogInv /\ AgreeInv
<1>1. Init => Inv
  BY InitType, InitApproved, InitLogged, InitAgrees
<1>2. Inv /\ [Next]_vars => Inv'
  BY NextType, NextApproved, NextLogged, NextAgrees
<1>3. Inv => DivergeOnlyByOverwrite
  BY InStepAgrees DEF AgreeInv, Consistent, DivergeOnlyByOverwrite
<1> QED
  BY <1>1, <1>2, <1>3, PTL DEF Spec
=============================================================================
