----------------------------- MODULE Leadership -----------------------------
(***************************************************************************)
(* Leader election over one Redis key (backend/internal/leadership) and    *)
(* the singleton loop run under it (RunLeaderSingleton of                  *)
(* backend/internal/workflow/service/leader.go): the workflow scheduler,   *)
(* cron trigger and recovery, the automation run driver and schedule       *)
(* source, the DR failover driver.  One role; every replica is an          *)
(* instance with the goroutine of Run and the goroutine of the loop fn.    *)
(*                                                                         *)
(* A Redis command (SET NX PX, the two Lua scripts) is one step; what the  *)
(* process does with the reply is another.  Clocks are abstracted: a lease *)
(* may run out at any time; under a leader that is still renewing this     *)
(* counts as a fault.  A refreshed TTL changes no state.                   *)
(***************************************************************************)
EXTENDS Integers, FiniteSets

CONSTANTS
    Instances,    \* the replicas competing for the role
    MaxFaults     \* bound: crashes, failed commands, late renewals, shutdowns and closes

ASSUME LeadershipAssumption ==
    /\ "none" \notin Instances
    /\ MaxFaults \in Nat

VARIABLES
    lease,    \* the value of the key leadership:<role>, or none
    stage,    \* where each instance's Run is
    leader,   \* the instance's isLeader flag
    work,     \* the instance's fn: off, on, or draining (its context is cancelled)
    live,     \* the instance's context is not cancelled
    closed,   \* the instance's closed flag
    lapsed,   \* the instance's lease ran out since it acquired it
    budget    \* faults left

vars == <<lease, stage, leader, work, live, closed, lapsed, budget>>

\* seek: the acquire timer is armed;  won: SET NX succeeded, OnAcquire not yet
\* called;  lead: the renew timer is armed;  lost: OnLose waits for fn;
\* release, released: before and after the release script;  exit: Run has
\* returned and fn is being waited for;  off: no process.
Stages == {"seek", "won", "lead", "lost", "release", "released", "exit", "off"}

Set(f, i, x) == [f EXCEPT ![i] = x]
Fault == budget > 0 /\ budget' = budget - 1

\* cancelActive, first half: the context of a running fn is cancelled.
Cancel(i) == work' = IF work[i] = "on" THEN Set(work, i, "draining") ELSE work

TypeOK ==
    /\ lease \in Instances \cup {"none"}
    /\ stage \in [Instances -> Stages]
    /\ leader \in [Instances -> BOOLEAN]
    /\ work \in [Instances -> {"off", "on", "draining"}]
    /\ live \in [Instances -> BOOLEAN]
    /\ closed \in [Instances -> BOOLEAN]
    /\ lapsed \in [Instances -> BOOLEAN]
    /\ budget \in 0..MaxFaults

Init ==
    /\ lease = "none"
    /\ stage = [i \in Instances |-> "seek"]
    /\ leader = [i \in Instances |-> FALSE]
    /\ work = [i \in Instances |-> "off"]
    /\ live = [i \in Instances |-> TRUE]
    /\ closed = [i \in Instances |-> FALSE]
    /\ lapsed = [i \in Instances |-> FALSE]
    /\ budget = MaxFaults

-----------------------------------------------------------------------------
(* Acquiring and holding the lease.                                        *)

\* Mutant of TryAcquire: SET without NX.
TryAcquireAnyway(i) ==
    /\ stage[i] = "seek" /\ live[i] /\ ~closed[i]
    /\ lease' = i
    /\ lapsed' = Set(lapsed, i, FALSE)
    /\ stage' = Set(stage, i, "won") /\ UNCHANGED budget
    /\ UNCHANGED <<leader, work, live, closed>>

\* tryAcquire: SET NX PX; when its reply is lost, the key is set and the
\* instance does not know.
TryAcquire(i) ==
    /\ stage[i] = "seek" /\ live[i] /\ ~closed[i]
    /\ lease = "none" /\ lease' = i
    /\ lapsed' = Set(lapsed, i, FALSE)
    /\ \/ stage' = Set(stage, i, "won") /\ UNCHANGED budget
       \/ UNCHANGED stage /\ Fault
    /\ UNCHANGED <<leader, work, live, closed>>

\* The flag is set and OnAcquire starts fn, under a child of the context.
Lead(i) ==
    /\ stage[i] = "won"
    /\ leader' = Set(leader, i, TRUE)
    /\ work' = Set(work, i, IF live[i] THEN "on" ELSE "draining")
    /\ stage' = Set(stage, i, "lead")
    /\ UNCHANGED <<lease, live, closed, lapsed, budget>>

\* Mutant of Lose: the running loop is not cancelled.
LoseKeepsWorking(i) ==
    /\ stage[i] = "lead" /\ ~closed[i]
    /\ \/ (lease # i \/ ~live[i]) /\ UNCHANGED budget
       \/ Fault
    /\ leader' = Set(leader, i, FALSE)
    /\ stage' = Set(stage, i, "seek")
    /\ UNCHANGED <<lease, work, live, closed, lapsed>>

\* tryExtend says no, or fails (as it always does under a cancelled context):
\* the flag is cleared and OnLose cancels fn.
Lose(i) ==
    /\ stage[i] = "lead" /\ ~closed[i]
    /\ \/ (lease # i \/ ~live[i]) /\ UNCHANGED budget
       \/ Fault
    /\ leader' = Set(leader, i, FALSE)
    /\ Cancel(i)
    /\ stage' = Set(stage, i, "lost")
    /\ UNCHANGED <<lease, live, closed, lapsed>>

\* Mutant of SeekAgain: the acquire timer is not armed again.
SeekNever(i) ==
    /\ stage[i] = "lost" /\ work[i] = "off"
    /\ UNCHANGED vars

\* OnLose returns once fn has: back to acquiring.
SeekAgain(i) ==
    /\ stage[i] = "lost" /\ work[i] = "off"
    /\ stage' = Set(stage, i, "seek")
    /\ UNCHANGED <<lease, leader, work, live, closed, lapsed, budget>>

\* A cancelled fn returns.
Return(i) ==
    /\ work[i] = "draining"
    /\ work' = Set(work, i, "off")
    /\ UNCHANGED <<lease, stage, leader, live, closed, lapsed, budget>>

-----------------------------------------------------------------------------
(* Ending: shutdown, Close, crash; and the key's TTL.                      *)

\* Shutdown: the context is cancelled, and with it the context of fn.
Shutdown(i) ==
    /\ stage[i] # "off" /\ live[i] /\ Fault
    /\ live' = Set(live, i, FALSE)
    /\ Cancel(i)
    /\ UNCHANGED <<lease, stage, leader, closed, lapsed>>

\* Run notices the cancelled context and turns to releaseIfHeld.
NoticeShutdown(i) ==
    /\ stage[i] \in {"seek", "lead"} /\ ~live[i]
    /\ stage' = Set(stage, i, IF leader[i] THEN "release" ELSE "exit")
    /\ UNCHANGED <<lease, leader, work, live, closed, lapsed, budget>>

\* Mutants of AfterDelete: DEL without comparing the value; SET to the empty
\* value instead of DEL.
AfterBlindDelete(i) == "none"
AfterBlanking(i) == IF lease = i THEN "" ELSE lease

\* What the release script of instance i leaves of the key.
AfterDelete(i) == IF lease = i THEN "none" ELSE lease

\* releaseIfHeld: the script, which may fail; then the flag.
Release(i) ==
    /\ stage[i] = "release"
    /\ \/ lease' = AfterDelete(i) /\ UNCHANGED budget
       \/ UNCHANGED lease /\ Fault
    /\ stage' = Set(stage, i, "released")
    /\ UNCHANGED <<leader, work, live, closed, lapsed>>

Released(i) ==
    /\ stage[i] = "released"
    /\ leader' = Set(leader, i, FALSE)
    /\ stage' = Set(stage, i, "exit")
    /\ UNCHANGED <<lease, work, live, closed, lapsed, budget>>

\* Close, from another goroutine: the closed flag, and the release of a held
\* lease.  Run and fn are told nothing.
Close(i) ==
    /\ stage[i] # "off" /\ ~closed[i] /\ Fault
    /\ closed' = Set(closed, i, TRUE)
    /\ IF leader[i]
       THEN lease' = AfterDelete(i) /\ leader' = Set(leader, i, FALSE)
       ELSE UNCHANGED <<lease, leader>>
    /\ UNCHANGED <<stage, work, live, lapsed>>

\* Run notices the closed flag at its next timer and returns; so does
\* RunLeaderSingleton, which cancels fn.
NoticeClosed(i) ==
    /\ stage[i] \in {"seek", "lead"} /\ closed[i]
    /\ Cancel(i)
    /\ stage' = Set(stage, i, "exit")
    /\ UNCHANGED <<lease, leader, live, closed, lapsed, budget>>

\* RunLeaderSingleton returns once fn has.
Exit(i) ==
    /\ stage[i] = "exit" /\ work[i] = "off"
    /\ stage' = Set(stage, i, "off")
    /\ UNCHANGED <<lease, leader, work, live, closed, lapsed, budget>>

Crash(i) ==
    /\ stage[i] # "off" /\ Fault
    /\ stage' = Set(stage, i, "off")
    /\ leader' = Set(leader, i, FALSE)
    /\ work' = Set(work, i, "off")
    /\ UNCHANGED <<lease, live, closed, lapsed>>

\* The replica starts again, at worst under the same instance id.
Restart(i) ==
    /\ stage[i] = "off"
    /\ stage' = Set(stage, i, "seek")
    /\ leader' = Set(leader, i, FALSE)
    /\ live' = Set(live, i, TRUE)
    /\ closed' = Set(closed, i, FALSE)
    /\ UNCHANGED <<lease, work, lapsed, budget>>

\* The TTL runs out: under a leader that is still renewing only if it is late.
Renewing(i) == stage[i] \in {"won", "lead", "release"} /\ ~closed[i]

Expire ==
    /\ lease # "none"
    /\ IF Renewing(lease) THEN Fault ELSE UNCHANGED budget
    /\ lapsed' = Set(lapsed, lease, TRUE)
    /\ lease' = "none"
    /\ UNCHANGED <<stage, leader, work, live, closed>>

-----------------------------------------------------------------------------
Step(i) ==
    \/ TryAcquire(i) \/ Lead(i) \/ Lose(i) \/ SeekAgain(i)
    \/ NoticeShutdown(i) \/ Release(i) \/ Released(i) \/ NoticeClosed(i) \/ Exit(i)

Environment(i) == Return(i) \/ Shutdown(i) \/ Close(i) \/ Crash(i) \/ Restart(i)

Next == Expire \/ \E i \in Instances : Step(i) \/ Environment(i)

Spec == Init /\ [][Next]_vars

\* Run keeps looping, a cancelled fn returns, dead replicas are restarted, and
\* an unrenewed key expires.  Losing a lease that is held is never forced.
Fairness ==
    /\ WF_vars(Expire)
    /\ \A i \in Instances :
        /\ WF_vars(Step(i))
        /\ WF_vars(Return(i)) /\ WF_vars(Restart(i))

FairSpec == Spec /\ Fairness

-----------------------------------------------------------------------------
(* Properties.                                                             *)

\* One active loop: no two replicas run fn under a context that is not
\* cancelled, unless one of them was late and its lease ran out, or was closed.
OneActive ==
    \A i, j \in Instances :
        /\ work[i] = "on" /\ ~lapsed[i] /\ ~closed[i]
        /\ work[j] = "on" /\ ~lapsed[j] /\ ~closed[j]
        => i = j

\* The lease of a leader ends only by the leader's own hand or by its TTL:
\* no release, renewal or acquisition of another instance takes it away, not
\* even one by an instance that was paused past its own lease.
LeaseRespected ==
    \A i \in Instances :
        stage[i] \in {"won", "lead"} /\ ~closed[i] /\ ~lapsed[i] => lease = i

\* A worker leads: until Close, fn runs uncancelled only while isLeader says
\* so and the service's own context is live, so the flag other goroutines read
\* is never behind the loop.
WorkersLead ==
    \A i \in Instances : work[i] = "on" => live[i] /\ (leader[i] \/ closed[i])

\* There is always a working leader again, however replicas crash, shut down
\* or fail to reach Redis.
LedAgain == []<>(\E i \in Instances : work[i] = "on" /\ leader[i])
=============================================================================
