-------------------------- MODULE LeadershipProofs --------------------------
(***************************************************************************)
(* Proofs about Leadership, for every set of replicas and any number of    *)
(* faults.                                                                 *)
(***************************************************************************)
EXTENDS Leadership, TLAPS

USE DEF Set

\* A fault leaves a budget that is still one.
LEMMA FaultType ==
    ASSUME TypeOK, Fault
    PROVE  budget' \in 0..MaxFaults
BY LeadershipAssumption DEF TypeOK, Fault

\* Cancelling fn leaves it draining or as it was.
LEMMA CancelType ==
    ASSUME TypeOK, NEW i \in Instances, Cancel(i)
    PROVE  /\ work' \in [Instances -> {"off", "on", "draining"}]
           /\ work'[i] # "on"
           /\ \A j \in Instances \ {i} : work'[j] = work[j]
BY DEF TypeOK, Cancel

\* Every step keeps every variable in its type.
LEMMA TypeStep ==
    ASSUME TypeOK, [Next]_vars
    PROVE  TypeOK'
<1>1. CASE Expire
  <2>1. budget' \in 0..MaxFaults
    BY <1>1, FaultType DEF Expire, TypeOK
  <2> QED
    BY <1>1, <2>1 DEF Expire, TypeOK
<1>2. ASSUME NEW i \in Instances, Step(i)
      PROVE  TypeOK'
  <2>1. CASE TryAcquire(i) \/ Lose(i) \/ Release(i)
    <3>1. budget' \in 0..MaxFaults
      BY <2>1, FaultType DEF TryAcquire, Lose, Release, TypeOK
    <3>2. CASE TryAcquire(i)
      BY <3>1, <3>2 DEF TryAcquire, TypeOK, Stages
    <3>3. CASE Lose(i)
      BY <3>1, <3>3, CancelType DEF Lose, TypeOK, Stages
    <3>4. CASE Release(i)
      BY <3>1, <3>4 DEF Release, AfterDelete, TypeOK, Stages
    <3> QED
      BY <2>1, <3>2, <3>3, <3>4
  <2>2. CASE Lead(i) \/ SeekAgain(i) \/ NoticeShutdown(i) \/ Released(i) \/ Exit(i)
    BY <2>2 DEF Lead, SeekAgain, NoticeShutdown, Released, Exit, TypeOK, Stages
  <2>3. CASE NoticeClosed(i)
    BY <2>3, CancelType DEF NoticeClosed, TypeOK, Stages
  <2> QED
    BY <1>2, <2>1, <2>2, <2>3 DEF Step
<1>3. ASSUME NEW i \in Instances, Environment(i)
      PROVE  TypeOK'
  <2>1. CASE Return(i) \/ Restart(i)
    BY <2>1 DEF Return, Restart, TypeOK, Stages
  <2>2. CASE Shutdown(i) \/ Close(i) \/ Crash(i)
    <3>1. budget' \in 0..MaxFaults
      BY <2>2, FaultType DEF Shutdown, Close, Crash
    <3>2. CASE Shutdown(i)
      BY <3>1, <3>2, CancelType DEF Shutdown, TypeOK
    <3>3. CASE Close(i)
      BY <3>1, <3>3 DEF Close, AfterDelete, TypeOK
    <3>4. CASE Crash(i)
      BY <3>1, <3>4 DEF Crash, TypeOK, Stages
    <3> QED
      BY <2>2, <3>2, <3>3, <3>4
  <2> QED
    BY <1>3, <2>1, <2>2 DEF Environment
<1>4. CASE UNCHANGED vars
  BY <1>4 DEF vars, TypeOK
<1> QED
  BY <1>1, <1>2, <1>3, <1>4 DEF Next

\* Type correctness.
THEOREM TypeCorrect == Spec => []TypeOK
<1>1. Init => TypeOK
  BY LeadershipAssumption DEF Init, TypeOK, Stages
<1> QED
  BY <1>1, TypeStep, PTL DEF Spec

\* A release or a close of i takes the lease from nobody but i.
LEMMA DeleteOwn ==
    ASSUME NEW i \in Instances, NEW j \in Instances, i # j, lease = j
    PROVE  AfterDelete(i) = j
BY DEF AfterDelete

\* Every step respects the lease of the others.
LEMMA LeaseStep ==
    ASSUME TypeOK, LeaseRespected, [Next]_vars
    PROVE  LeaseRespected'
<1> SUFFICES ASSUME NEW j \in Instances,
                    stage'[j] \in {"won", "lead"}, ~ closed'[j], ~ lapsed'[j]
             PROVE  lease' = j
  BY DEF LeaseRespected
<1> USE LeadershipAssumption DEF TypeOK
<1>1. CASE Expire
  BY <1>1 DEF Expire, LeaseRespected
<1>2. ASSUME NEW i \in Instances, TryAcquire(i)
      PROVE  lease' = j
  BY <1>2 DEF TryAcquire, LeaseRespected
<1>3. ASSUME NEW i \in Instances, Lead(i)
      PROVE  lease' = j
  BY <1>3 DEF Lead, LeaseRespected
<1>4. ASSUME NEW i \in Instances,
             Lose(i) \/ SeekAgain(i) \/ NoticeShutdown(i) \/ Released(i) \/ NoticeClosed(i) \/ Exit(i)
      PROVE  lease' = j
  BY <1>4 DEF Lose, SeekAgain, NoticeShutdown, Released, NoticeClosed, Exit, LeaseRespected
<1>5. ASSUME NEW i \in Instances, Release(i)
      PROVE  lease' = j
  BY <1>5, DeleteOwn DEF Release, LeaseRespected
<1>6. ASSUME NEW i \in Instances, Close(i)
      PROVE  lease' = j
  BY <1>6, DeleteOwn DEF Close, LeaseRespected
<1>7. ASSUME NEW i \in Instances, Return(i) \/ Shutdown(i) \/ Crash(i) \/ Restart(i)
      PROVE  lease' = j
  BY <1>7 DEF Return, Shutdown, Crash, Restart, LeaseRespected
<1>8. CASE UNCHANGED vars
  BY <1>8 DEF vars, LeaseRespected
<1> QED
  BY <1>1, <1>2, <1>3, <1>4, <1>5, <1>6, <1>7, <1>8 DEF Next, Step, Environment

\* The lease of a leader ends only by its own hand or by its TTL, late renewals
\* and closes included.
THEOREM LeaseHeld == Spec => []LeaseRespected
<1>1. Init => LeaseRespected
  BY DEF Init, LeaseRespected
<1> QED
  BY <1>1, LeaseStep, TypeCorrect, PTL DEF Spec

\* Why one loop is active: an uncancelled fn runs only in stage lead, under a
\* live context and with the flag set, unless Close cleared it.
WorkInv ==
    \A i \in Instances : work[i] = "on" =>
        stage[i] = "lead" /\ live[i] /\ (leader[i] \/ closed[i])

LEMMA WorkStep ==
    ASSUME TypeOK, WorkInv, [Next]_vars
    PROVE  WorkInv'
<1> USE DEF TypeOK
<1>1. CASE Expire
  BY <1>1 DEF Expire, WorkInv
<1>2. ASSUME NEW i \in Instances, TryAcquire(i) \/ Lead(i)
      PROVE  WorkInv'
  BY <1>2 DEF TryAcquire, Lead, WorkInv
<1>3. ASSUME NEW i \in Instances, Lose(i) \/ NoticeClosed(i)
      PROVE  WorkInv'
  <2>1. Cancel(i)
    BY <1>3 DEF Lose, NoticeClosed
  <2> QED
    BY <1>3, <2>1, CancelType DEF Lose, NoticeClosed, WorkInv
<1>4. ASSUME NEW i \in Instances,
             SeekAgain(i) \/ NoticeShutdown(i) \/ Release(i) \/ Released(i) \/ Exit(i) \/ Return(i)
      PROVE  WorkInv'
  BY <1>4 DEF SeekAgain, NoticeShutdown, Release, Released, Exit, Return, WorkInv
<1>5. ASSUME NEW i \in Instances, Shutdown(i)
      PROVE  WorkInv'
  BY <1>5, CancelType DEF Shutdown, WorkInv
<1>6. ASSUME NEW i \in Instances, Close(i) \/ Crash(i) \/ Restart(i)
      PROVE  WorkInv'
  BY <1>6 DEF Close, Crash, Restart, WorkInv
<1>7. CASE UNCHANGED vars
  BY <1>7 DEF vars, WorkInv
<1> QED
  BY <1>1, <1>2, <1>3, <1>4, <1>5, <1>6, <1>7 DEF Next, Step, Environment

LEMMA WorkAlways == Spec => []WorkInv
<1>1. Init => WorkInv
  BY DEF Init, WorkInv
<1> QED
  BY <1>1, WorkStep, TypeCorrect, PTL DEF Spec

\* One active loop (RunLeaderSingleton), for every number of replicas and
\* faults, as long as the two did not outlive their leases and were not closed.
THEOREM ActiveLoopUnique == Spec => []OneActive
<1>1. WorkInv /\ LeaseRespected => OneActive
  BY DEF WorkInv, LeaseRespected, OneActive
<1> QED
  BY <1>1, WorkAlways, LeaseHeld, PTL

\* The flag isLeader is never behind the loop, except after Close.
THEOREM WorkingMeansLeading == Spec => []WorkersLead
<1>1. WorkInv => WorkersLead
  BY DEF WorkInv, WorkersLead
<1> QED
  BY <1>1, WorkAlways, PTL
=============================================================================
