------------------------- MODULE EventConsumerProofs -------------------------
(***************************************************************************)
(* Proofs about EventConsumer, for every finite group, every set of events *)
(* and partition, every attempt limit and number of faults, with and       *)
(* without the idempotency guard.                                          *)
(***************************************************************************)
EXTENDS EventConsumer, FiniteSetTheorems, TLAPS

USE DEF busVars, memberVars, redisVars, ghostVars

\* One more of something that is counted per event.
LEMMA IncType ==
    ASSUME NEW f \in [Events -> Nat], NEW e
    PROVE  Inc(f, e) \in [Events -> Nat]
<1>1. \A d \in Events : f[d] + 1 \in Nat
  OBVIOUS
<1>2. Inc(f, e) = [d \in Events |-> IF d = e THEN f[e] + 1 ELSE f[d]]
  BY DEF Inc
<1>3. \A d \in Events : (IF d = e THEN f[e] + 1 ELSE f[d]) \in Nat
  BY <1>1
<1> QED
  BY <1>2, <1>3

\* A fault leaves a budget that is still one.
LEMMA FaultType ==
    ASSUME StoresOK, Fault
    PROVE  budget' \in 0..MaxFaults
BY ConsumerAssumption DEF StoresOK, Fault

\* A failing call leaves a budget that is still one.
LEMMA CallFailsType ==
    ASSUME StoresOK, NEW m, CallFails(m)
    PROVE  budget' \in 0..MaxFaults
BY FaultType DEF StoresOK, CallFails

\* A commit of a marked offset leaves an offset of the partition.
LEMMA CommitType ==
    ASSUME BusOK, NEW m, NEW n \in 0..Len(log)
    PROVE  /\ AfterCommit(m, n) \in 0..Len(log)
           /\ AfterCommit(m, n) \in {n, committed}
BY DEF BusOK, AfterCommit, Upto

\* A handler works on a message the partition has.
LEMMA AtType ==
    ASSUME BusOK, MembersOK, NEW m \in Members, Handling(m)
    PROVE  pos[m] \in 1..Len(log) /\ At(m) \in Events
<1>1. pos[m] \in 1..Len(log)
  BY DEF BusOK, MembersOK
<1> QED
  BY <1>1 DEF BusOK, At

\* The steps of the broker, of crashes and of restarts keep the types.
LEMMA BrokerType ==
    ASSUME TypeOK, NEW m \in Members,
           Broker(m) \/ Crash(m) \/ Restart(m)
    PROVE  TypeOK'
<1> USE DEF TypeOK
<1>1. CASE Assign(m)
  <2>1. committed + 1 \in Nat \ {0} /\ committed \in Nat /\ committed <= Len(log)
    BY DEF BusOK
  <2> QED
    BY <1>1, <2>1 DEF Assign, BusOK, MembersOK, StoresOK, Sessions, Handling
<1>2. CASE Revoke(m)
  <2>1. budget' \in 0..MaxFaults
    BY <1>2, FaultType DEF Revoke
  <2> QED
    BY <1>2, <2>1 DEF Revoke, BusOK, MembersOK, StoresOK, Sessions, Handling
<1>3. CASE Kick(m)
  <2>1. budget' \in 0..MaxFaults
    BY <1>3, FaultType DEF Kick
  <2> QED
    BY <1>3, <2>1 DEF Kick, BusOK, MembersOK, StoresOK, Handling
<1>4. CASE Lapse(m)
  BY <1>4 DEF Lapse, BusOK, MembersOK, StoresOK, Sessions, Handling
<1>5. CASE Leave(m)
  <2>1. marked[m] \in 0..Len(log)
    BY DEF MembersOK, BusOK
  <2>2. committed' \in 0..Len(log)
    BY <1>5, <2>1, CommitType DEF Leave
  <2>3. BusOK'
    BY <1>5, <2>2 DEF Leave, BusOK
  <2>4. MembersOK'
    BY <1>5 DEF Leave, Goto, MembersOK, Sessions, Stages, Handling
  <2>5. StoresOK'
    BY <1>5 DEF Leave, StoresOK
  <2> QED
    BY <2>3, <2>4, <2>5
<1>6. CASE Crash(m)
  <2>1. budget' \in 0..MaxFaults
    BY <1>6, FaultType DEF Crash
  <2>2. excuses' \in [Events -> Nat]
    BY <1>6, IncType DEF Crash, StoresOK
  <2>3. BusOK'
    BY <1>6 DEF Crash, BusOK
  <2>4. MembersOK'
    BY <1>6 DEF Crash, Goto, MembersOK, Sessions, Stages, Handling
  <2>5. StoresOK'
    BY <1>6, <2>1, <2>2 DEF Crash, StoresOK
  <2> QED
    BY <2>3, <2>4, <2>5
<1>7. CASE Restart(m)
  BY <1>7 DEF Restart, Goto, BusOK, MembersOK, StoresOK, Stages, Handling
<1> QED
  BY <1>1, <1>2, <1>3, <1>4, <1>5, <1>6, <1>7 DEF Broker

\* The handler's steps keep the types.
LEMMA HandleType ==
    ASSUME TypeOK, NEW m \in Members, Handle(m)
    PROVE  TypeOK'
<1> USE DEF TypeOK
<1>1. BusOK'
  BY DEF Handle, Check, Acquire, LookupFails, Succeed, NoMatch, BodyFails, MarkProcessed,
         MarkFails, Release, ReleaseFails, BusOK
<1>2. Handling(m) /\ At(m) \in Events
  <2>1. Handling(m)
    BY DEF Handle, Check, Acquire, LookupFails, Succeed, NoMatch, BodyFails, MarkProcessed,
           MarkFails, Release, ReleaseFails, Handling, Stages
  <2> QED
    BY <2>1, AtType
<1>3. PICK s \in Stages \ {"idle", "left", "down"} :
        Goto(m, s) /\ UNCHANGED <<log, session, pos, tries, marked>>
  <2>1. "done" \in Stages \ {"idle", "left", "down"} /\ "failed" \in Stages \ {"idle", "left", "down"}
    BY DEF Stages
  <2>2. CASE Check(m)
    BY <2>2 DEF Check, Stages
  <2>3. CASE Acquire(m)
    BY <2>3 DEF Acquire, Stages
  <2>4. CASE LookupFails(m)
    BY <2>4 DEF LookupFails, Stages
  <2>5. CASE Succeed(m)
    BY <2>5 DEF Succeed, Stages
  <2>6. CASE NoMatch(m) \/ BodyFails(m)
    BY <2>6 DEF NoMatch, BodyFails, Stages
  <2>7. CASE MarkProcessed(m) \/ MarkFails(m)
    BY <2>7 DEF MarkProcessed, MarkFails, Stages
  <2>8. CASE Release(m) \/ ReleaseFails(m)
    BY <2>1, <2>8 DEF Release, ReleaseFails, AfterRelease
  <2> QED
    BY <2>2, <2>3, <2>4, <2>5, <2>6, <2>7, <2>8 DEF Handle
<1>4. MembersOK'
  BY <1>2, <1>3 DEF Goto, MembersOK, Handling
<1>5. StoresOK'
  <2>1. CASE Check(m) \/ NoMatch(m) \/ BodyFails(m)
    BY <2>1 DEF Check, NoMatch, BodyFails, StoresOK
  <2>2. CASE Acquire(m)
    BY <2>2, <1>2 DEF Acquire, StoresOK, MembersOK
  <2>3. CASE LookupFails(m)
    <3>1. budget' \in 0..MaxFaults
      BY <2>3, CallFailsType DEF LookupFails
    <3> QED
      BY <2>3, <1>2, <3>1 DEF LookupFails, StoresOK
  <2>4. CASE Succeed(m)
    <3>1. effects' \in [Events -> Nat]
      BY <2>4, IncType DEF Succeed, StoresOK
    <3> QED
      BY <2>4, <3>1 DEF Succeed, StoresOK
  <2>5. CASE MarkProcessed(m)
    <3>1. Cardinality(Between(At(m))) \in Nat
      <4>1. Between(At(m)) \subseteq Members
        BY DEF Between
      <4>2. IsFiniteSet(Between(At(m)))
        BY <4>1, FS_Subset, ConsumerAssumption
      <4> QED
        BY <4>2, FS_CardinalityType
    <3>2. excuses' = [e \in Events |-> IF e = At(m) THEN excuses[e] + Cardinality(Between(At(m)))
                                       ELSE excuses[e]]
      BY <2>5 DEF MarkProcessed, StoresOK
    <3>3. \A e \in Events : excuses[e] + Cardinality(Between(At(m))) \in Nat /\ excuses[e] \in Nat
      BY <3>1 DEF StoresOK
    <3>4. excuses' \in [Events -> Nat]
      BY <3>2, <3>3
    <3> QED
      BY <2>5, <1>2, <3>4 DEF MarkProcessed, StoresOK
  <2>6. CASE MarkFails(m)
    <3>1. budget' \in 0..MaxFaults
      BY <2>6, CallFailsType DEF MarkFails
    <3>2. excuses' \in [Events -> Nat]
      BY <2>6, IncType DEF MarkFails, StoresOK
    <3> QED
      BY <2>6, <3>1, <3>2 DEF MarkFails, StoresOK
  <2>7. CASE Release(m)
    BY <2>7 DEF Release, StoresOK
  <2>8. CASE ReleaseFails(m)
    <3>1. budget' \in 0..MaxFaults
      BY <2>8, CallFailsType DEF ReleaseFails
    <3> QED
      BY <2>8, <3>1 DEF ReleaseFails, StoresOK
  <2> QED
    BY <2>1, <2>2, <2>3, <2>4, <2>5, <2>6, <2>7, <2>8 DEF Handle
<1> QED
  BY <1>1, <1>4, <1>5

\* Retries, dead letters, blocks and commits keep the types.
LEMMA DisposeType ==
    ASSUME TypeOK, NEW m \in Members, Dispose(m)
    PROVE  TypeOK'
<1> USE DEF TypeOK
<1>1. CASE Retry(m)
  <2>1. tries[m] + 1 \in 1..MaxAttempts
    BY <1>1, ConsumerAssumption DEF Retry, MembersOK
  <2>2. MembersOK'
    BY <1>1, <2>1 DEF Retry, Goto, Entry, MembersOK, Stages, Handling
  <2> QED
    BY <1>1, <2>2 DEF Retry, BusOK, StoresOK
<1>2. CASE DeadLetter(m)
  <2>1. dead' \in [Events -> Nat]
    BY <1>2, IncType DEF DeadLetter, StoresOK
  <2>2. MembersOK'
    BY <1>2 DEF DeadLetter, Goto, MembersOK, Stages, Handling
  <2> QED
    BY <1>2, <2>1, <2>2 DEF DeadLetter, BusOK, StoresOK
<1>3. CASE DeadLetterFails(m) \/ GiveUp(m)
  <2>1. Block(m) /\ budget' \in 0..MaxFaults
    BY <1>3, FaultType DEF DeadLetterFails, GiveUp, StoresOK
  <2>2. MembersOK'
    BY <2>1 DEF Block, Goto, MembersOK, Sessions, Stages, Handling
  <2> QED
    BY <2>1, <2>2 DEF Block, BusOK, StoresOK
<1>4. CASE Commit(m)
  <2>1. pos[m] \in 1..Len(log) /\ pos[m] + 1 \in Nat \ {0}
    <3>1. Handling(m)
      BY <1>4 DEF Commit, Handling, Stages
    <3> QED
      BY <3>1, AtType
  <2>2. committed' \in 0..Len(log)
    <3>1. pos[m] \in 0..Len(log)
      BY <2>1
    <3> QED
      BY <1>4, <3>1, CommitType DEF Commit, BusOK
  <2>3. BusOK'
    BY <1>4, <2>2 DEF Commit, BusOK
  <2>4. MembersOK'
    BY <1>4, <2>1 DEF Commit, Goto, MembersOK, Stages, Handling
  <2>5. StoresOK'
    <3>1. budget' \in 0..MaxFaults
      BY <1>4, FaultType DEF Commit, StoresOK
    <3> QED
      BY <1>4, <3>1 DEF Commit, StoresOK
  <2> QED
    BY <2>3, <2>4, <2>5
<1> QED
  BY <1>1, <1>2, <1>3, <1>4 DEF Dispose

\* Every step keeps every variable in its type.
LEMMA TypeStep ==
    ASSUME TypeOK, [Next]_vars
    PROVE  TypeOK'
<1>1. ASSUME NEW e \in Events, Produce(e)
      PROVE  TypeOK'
  <2>1. log' \in Seq(Events) /\ Len(log') = Len(log) + 1 /\ Len(log) \in Nat
    BY <1>1 DEF Produce, TypeOK, BusOK
  <2>2. BusOK' /\ StoresOK'
    BY <1>1, <2>1 DEF Produce, TypeOK, BusOK, StoresOK, redisVars, ghostVars
  <2>3. UNCHANGED memberVars /\ MembersOK
    BY <1>1 DEF Produce, TypeOK
  <2>4. \A m \in Members : marked[m] <= Len(log') /\ (Handling(m) => pos[m] <= Len(log'))
    BY <2>1, <2>3 DEF MembersOK
  <2>5. MembersOK'
    BY <2>3, <2>4 DEF MembersOK, memberVars, Handling
  <2> QED
    BY <2>2, <2>5 DEF TypeOK
<1>2. ASSUME NEW e \in Events, LockExpires(e)
      PROVE  TypeOK'
  <2>1. budget' \in 0..MaxFaults
    BY <1>2, FaultType DEF LockExpires, TypeOK, StoresOK
  <2>2. excuses' \in [Events -> Nat]
    BY <1>2, IncType DEF LockExpires, TypeOK, StoresOK
  <2> QED
    BY <1>2, <2>1, <2>2 DEF LockExpires, TypeOK, BusOK, MembersOK, StoresOK, Handling
<1>3. ASSUME NEW m \in Members, Fetch(m)
      PROVE  TypeOK'
  <2>1. stage' \in [Members -> Stages] /\ tries' \in [Members -> 1..MaxAttempts]
    BY <1>3, ConsumerAssumption DEF Fetch, Goto, Entry, TypeOK, MembersOK, Stages
  <2>2. \A k \in Members : Handling(k)' => Handling(k) \/ (k = m /\ pos[m] <= Len(log))
    BY <1>3 DEF Fetch, Goto, TypeOK, MembersOK, Handling
  <2>3. MembersOK'
    BY <1>3, <2>1, <2>2 DEF Fetch, TypeOK, MembersOK
  <2> QED
    BY <1>3, <2>3 DEF Fetch, TypeOK, BusOK, StoresOK
<1>4. ASSUME UNCHANGED vars
      PROVE  TypeOK'
  BY <1>4 DEF vars, TypeOK, BusOK, MembersOK, StoresOK, Handling
<1> QED
  BY <1>1, <1>2, <1>3, <1>4, BrokerType, HandleType, DisposeType DEF Next

\* The consumer starts in its types.
LEMMA TypeInit == Init => TypeOK
BY ConsumerAssumption
   DEF Init, TypeOK, BusOK, MembersOK, StoresOK, Sessions, Stages, Handling

\* Type correctness: every variable keeps its type, and a handler only ever
\* works on a message the partition has.
THEOREM TypeCorrect == Spec => []TypeOK
BY TypeInit, TypeStep, PTL DEF Spec

-----------------------------------------------------------------------------
(* Mutual exclusion: a handler past IsProcessed owns the lock.  The lock   *)
(* names no owner, so this rests on three facts together: SETNX admits one *)
(* handler, only a handler that was admitted deletes the lock, and (for an *)
(* event that is not Slow) it does not expire while one is running.        *)

Exclusive == Events \ (Unguarded \cup Slow)

LockOwned ==
    \A m \in Members : \A e \in Exclusive :
        Holds(m, e) => e \in lock /\ \A k \in Members : Holds(k, e) => m = k

\* The steps of member m that leave the lock alone: m holds afterwards what it
\* held before, or nothing, and nobody else's place changes.
LEMMA LockKept ==
    ASSUME TypeOK, LockOwned, NEW m \in Members,
           UNCHANGED lock,
           \A k \in Members \ {m} : stage'[k] = stage[k] /\ pos'[k] = pos[k],
           \A k \in Members : Handling(k) => log'[pos[k]] = At(k),
           \A e \in Exclusive : Holds(m, e)' => Holds(m, e)
    PROVE  LockOwned'
<1>1. \A k \in Members \ {m}, e \in Exclusive : Holds(k, e)' => Holds(k, e)
  BY DEF Holds, Holding, Handling, Stages, At
<1>2. \A k \in Members, e \in Exclusive : Holds(k, e)' => Holds(k, e)
  BY <1>1
<1> QED
  BY <1>2 DEF LockOwned

\* Every step keeps the lock owned by its one holder.
LEMMA LockStep ==
    ASSUME TypeOK, LockOwned, [Next]_vars
    PROVE  LockOwned'
<1>1. ASSUME NEW e \in Events, Produce(e)
      PROVE  LockOwned'
  <2>1. \A k \in Members : Handling(k) => log'[pos[k]] = At(k)
    BY <1>1 DEF Produce, TypeOK, BusOK, MembersOK, At
  <2>2. \A k \in Members, d \in Events : Holds(k, d)' => Holds(k, d)
    BY <1>1, <2>1 DEF Produce, Holds, Holding, Handling, Stages, At
  <2> QED
    BY <1>1, <2>2 DEF Produce, LockOwned, Exclusive
<1>2. ASSUME NEW e \in Events, LockExpires(e)
      PROVE  LockOwned'
  <2>1. e \in Exclusive => \A m \in Members : ~ Holds(m, e)
    BY <1>2 DEF LockExpires, Exclusive
  <2>2. \A m \in Members, d \in Events : Holds(m, d)' = Holds(m, d)
    BY <1>2 DEF LockExpires, Holds, At
  <2> QED
    BY <1>2, <2>1, <2>2 DEF LockExpires, LockOwned, Exclusive
<1>3. ASSUME NEW m \in Members,
             Broker(m) \/ Crash(m) \/ Restart(m) \/ Fetch(m) \/ Dispose(m)
      PROVE  LockOwned'
  <2>1. UNCHANGED <<lock, log>>
    BY <1>3 DEF Broker, Assign, Revoke, Kick, Lapse, Leave, Crash, Restart, Fetch, Dispose,
                Retry, DeadLetter, DeadLetterFails, GiveUp, Block, Commit
  <2>2. \A k \in Members \ {m} : stage'[k] = stage[k] /\ pos'[k] = pos[k]
    BY <1>3 DEF Broker, Assign, Revoke, Kick, Lapse, Leave, Crash, Restart, Fetch, Dispose,
                Retry, DeadLetter, DeadLetterFails, GiveUp, Block, Commit, Goto, TypeOK, MembersOK
  <2>3. \A e \in Exclusive : Holds(m, e)' => Holds(m, e)
    <3>1. CASE Broker(m)
      BY <3>1, <2>1 DEF Broker, Assign, Revoke, Kick, Lapse, Leave, Goto, Holds, Holding, At,
                        TypeOK, MembersOK
    <3>2. CASE Crash(m) \/ Restart(m) \/ Fetch(m)
      BY <3>2, <2>1 DEF Crash, Restart, Fetch, Goto, Entry, Holds, Holding, At, Exclusive,
                        TypeOK, MembersOK
    <3>3. CASE Dispose(m)
      BY <3>3, <2>1 DEF Dispose, Retry, DeadLetter, DeadLetterFails, GiveUp, Block, Commit, Goto,
                        Entry, Holds, Holding, At, Exclusive, TypeOK, MembersOK
    <3> QED
      BY <1>3, <3>1, <3>2, <3>3
  <2> QED
    BY <2>1, <2>2, <2>3, LockKept DEF At
<1>4. ASSUME NEW m \in Members, Handle(m)
      PROVE  LockOwned'
  <2>1. /\ UNCHANGED <<log, pos>>
        /\ \A k \in Members \ {m} : stage'[k] = stage[k]
    BY <1>4 DEF Handle, Check, Acquire, LookupFails, Succeed, NoMatch, BodyFails, MarkProcessed,
                MarkFails, Release, ReleaseFails, Goto, TypeOK, MembersOK
  <2>2. \A k \in Members \ {m}, e \in Events : Holds(k, e)' = Holds(k, e)
    BY <2>1 DEF Holds, At
  <2>3. CASE UNCHANGED lock /\ (stage'[m] \in Holding => stage[m] \in Holding)
    <3>1. \A e \in Exclusive : Holds(m, e)' => Holds(m, e)
      BY <2>1, <2>3 DEF Holds, At
    <3> QED
      BY <2>1, <2>3, <3>1, LockKept DEF At
  <2>4. CASE Acquire(m) /\ At(m) \notin lock
    <3>1. At(m) \in Exclusive => \A k \in Members : ~ Holds(k, At(m))
      BY <2>4 DEF LockOwned
    <3>2. lock' = lock \cup {At(m)} /\ \A e \in Events : Holds(m, e)' => e = At(m)
      BY <2>4, <2>1 DEF Acquire, Holds, At
    <3>3. \A e \in Events : ~ Holds(m, e)
      BY <2>4 DEF Acquire, Holds, Holding
    <3> QED
      BY <2>2, <3>1, <3>2, <3>3 DEF LockOwned, Exclusive
  <2>5. CASE LookupFails(m)
    <3>1. \A e \in Events : ~ Holds(m, e)'
      BY <2>5 DEF LookupFails, Holds, Holding, Goto, TypeOK, MembersOK
    <3>2. lock \subseteq lock'
      BY <2>5 DEF LookupFails
    <3> QED
      BY <2>2, <3>1, <3>2 DEF LockOwned, Exclusive
  <2>6. CASE MarkProcessed(m) \/ Release(m)
    <3>1. stage[m] \in Holding /\ lock' = lock \ {At(m)} /\ stage'[m] \notin Holding
      BY <2>6 DEF MarkProcessed, Release, AfterRelease, Holding, Goto, TypeOK, MembersOK
    <3>2. \A e \in Events : ~ Holds(m, e)'
      BY <3>1 DEF Holds
    <3>3. \A k \in Members \ {m} : ~ Holds(k, At(m)) \/ At(m) \notin Exclusive
      BY <3>1 DEF LockOwned, Holds
    <3> QED
      BY <2>2, <3>1, <3>2, <3>3 DEF LockOwned, Exclusive
  <2>7. Check(m) \/ (Acquire(m) /\ At(m) \in lock) \/ Succeed(m) \/ NoMatch(m) \/ BodyFails(m)
          \/ MarkFails(m) \/ ReleaseFails(m)
        => UNCHANGED lock /\ (stage'[m] \in Holding => stage[m] \in Holding)
    BY DEF Check, Acquire, Succeed, NoMatch, BodyFails, MarkFails, ReleaseFails, AfterRelease, Holding,
           Goto, TypeOK, MembersOK
  <2> QED
    BY <1>4, <2>3, <2>4, <2>5, <2>6, <2>7 DEF Handle, Acquire
<1>5. ASSUME UNCHANGED vars
      PROVE  LockOwned'
  BY <1>5 DEF vars, LockOwned, Holds, At
<1> QED
  BY <1>1, <1>2, <1>3, <1>4, <1>5 DEF Next

\* Mutual exclusion of handlers: two handlers never run for one event at once,
\* whatever crashes, is rebalanced, or loses its reply (IsProcessed), unless a
\* handler of that event can outlive its lock's TTL.
THEOREM HandlersExclusive == Spec => []GuardExcludes
<1>1. Init => LockOwned
  BY DEF Init, LockOwned, Holds, Holding
<1>2. TypeOK /\ LockOwned /\ [Next]_vars => LockOwned'
  BY LockStep
<1>3. LockOwned => GuardExcludes
  BY DEF LockOwned, GuardExcludes, Exclusive
<1> QED
  BY <1>1, <1>2, <1>3, TypeCorrect, PTL DEF Spec

-----------------------------------------------------------------------------
(* At-least-once: whatever the committed offset has passed was disposed    *)
(* of.  The strengthening follows a message from the handler's outcome to  *)
(* the stage, to the session's position and mark, to the offset.           *)

Passed(n)  == Needed(log[n]) => Handled(log[n]) \/ n \in skipped
Covered(k) == \A n \in 1..k : Passed(n)

MemberOK(m) ==
    /\ Handling(m) => session[m] # "none"
    /\ session[m] # "none" =>
        /\ marked[m] < pos[m] /\ pos[m] <= Len(log) + 1
        /\ Covered(pos[m] - 1)
    /\ stage[m] = "done" => Passed(pos[m])
    /\ stage[m] = "mark" => effects[At(m)] > 0
    /\ stage[m] = "half" => dead[At(m)] > 0
    /\ stage[m] = "drop" => At(m) \in Unmatched

MarkersOK == \A e \in processed : effects[e] > 0

PassedInv == Covered(committed) /\ (\A m \in Members : MemberOK(m)) /\ MarkersOK

\* One more never takes an event back from "at least once".
LEMMA IncGrows ==
    ASSUME NEW f \in [Events -> Nat], NEW e, NEW d \in Events
    PROVE  f[d] > 0 \/ (d = e) => Inc(f, e)[d] > 0
BY DEF Inc

\* Counts, skips and the partition only grow.
LEMMA Grows ==
    ASSUME TypeOK, [Next]_vars
    PROVE  /\ Len(log') >= Len(log)
           /\ \A n \in 1..Len(log) : log'[n] = log[n]
           /\ \A e \in Events : effects[e] > 0 => effects'[e] > 0
           /\ \A e \in Events : dead[e] > 0 => dead'[e] > 0
           /\ skipped \subseteq skipped'
<1> USE DEF TypeOK
<1>1. ASSUME NEW e \in Events, Produce(e) \/ LockExpires(e)
      PROVE  /\ Len(log') >= Len(log) /\ \A n \in 1..Len(log) : log'[n] = log[n]
             /\ UNCHANGED <<effects, dead, skipped>>
  <2>1. CASE Produce(e)
    BY <2>1 DEF Produce, BusOK
  <2>2. CASE LockExpires(e)
    BY <2>2 DEF LockExpires, BusOK
  <2> QED
    BY <1>1, <2>1, <2>2
<1>2. ASSUME NEW m \in Members, Broker(m) \/ Crash(m) \/ Restart(m) \/ Fetch(m)
      PROVE  UNCHANGED <<log, effects, dead, skipped>>
  BY <1>2 DEF Broker, Assign, Revoke, Kick, Lapse, Leave, Crash, Restart, Fetch
<1>3. ASSUME NEW m \in Members, Handle(m)
      PROVE  /\ UNCHANGED <<log, dead>>
             /\ skipped \subseteq skipped'
             /\ effects' = effects \/ effects' = Inc(effects, At(m))
  BY <1>3 DEF Handle, Check, Acquire, LookupFails, Succeed, NoMatch, BodyFails, MarkProcessed,
              MarkFails, Release, ReleaseFails
<1>4. ASSUME NEW m \in Members, Dispose(m)
      PROVE  /\ UNCHANGED <<log, effects, skipped>>
             /\ dead' = dead \/ dead' = Inc(dead, At(m))
  BY <1>4 DEF Dispose, Retry, DeadLetter, DeadLetterFails, GiveUp, Block, Commit
<1>5. ASSUME UNCHANGED vars
      PROVE  UNCHANGED <<log, effects, dead, skipped>>
  BY <1>5 DEF vars
<1>6. Len(log) \in Nat
  BY DEF BusOK
<1>7. effects \in [Events -> Nat] /\ dead \in [Events -> Nat]
  BY DEF StoresOK
<1> QED
  BY <1>1, <1>2, <1>3, <1>4, <1>5, <1>6, <1>7, IncGrows DEF Next

\* What was disposed of stays disposed of.
LEMMA PassedStays ==
    ASSUME TypeOK, [Next]_vars, NEW n \in 1..Len(log), Passed(n)
    PROVE  Passed(n)'
<1>1. log'[n] = log[n] /\ log[n] \in Events
  BY Grows DEF TypeOK, BusOK
<1>2. Handled(log[n]) => Handled(log[n])'
  BY <1>1, Grows DEF Handled
<1> QED
  BY <1>1, <1>2, Grows DEF Passed, Needed, Handled

\* A step that leaves a member where it is leaves what is known of it.
LEMMA OtherMembers ==
    ASSUME TypeOK, [Next]_vars, NEW m \in Members, MemberOK(m),
           session'[m] = session[m], stage'[m] = stage[m], pos'[m] = pos[m], marked'[m] = marked[m]
    PROVE  MemberOK(m)'
<1>1. pos[m] \in Nat \ {0} /\ Len(log) \in Nat /\ Len(log') \in Nat /\ Len(log') >= Len(log)
  BY TypeStep, Grows DEF TypeOK, MembersOK, BusOK
<1>2. session[m] # "none" => Covered(pos[m] - 1)'
  <2> SUFFICES ASSUME session[m] # "none", NEW n \in 1..(pos[m] - 1)
               PROVE  Passed(n)'
    BY DEF Covered
  <2>1. n \in 1..Len(log) /\ Passed(n)
    BY <1>1 DEF MemberOK, Covered
  <2> QED
    BY <2>1, PassedStays
<1>3. Handling(m) => pos[m] \in 1..Len(log) /\ At(m) \in Events /\ At(m)' = At(m)
  BY AtType, Grows DEF TypeOK, At
<1>4. stage[m] \in {"done", "mark", "half", "drop"} => Handling(m)
  BY DEF Handling, Stages
<1>5. stage[m] = "done" => Passed(pos[m])'
  <2> SUFFICES ASSUME stage[m] = "done"
               PROVE  Passed(pos[m])'
    OBVIOUS
  <2>1. pos[m] \in 1..Len(log) /\ Passed(pos[m])
    BY <1>3, <1>4 DEF MemberOK
  <2>2. \A n \in 1..Len(log) : Passed(n) => Passed(n)'
    BY PassedStays
  <2> QED
    BY <2>1, <2>2 DEF Passed
<1>6. /\ stage[m] = "mark" => effects'[At(m)'] > 0
      /\ stage[m] = "half" => dead'[At(m)'] > 0
      /\ stage[m] = "drop" => At(m)' \in Unmatched
  BY <1>3, <1>4, Grows DEF MemberOK
<1>7. session[m] # "none" => marked'[m] < pos'[m] /\ pos'[m] <= Len(log') + 1
  BY <1>1 DEF MemberOK
<1>8. Handling(m)' => session'[m] # "none"
  BY DEF MemberOK, Handling
<1> QED
  BY <1>2, <1>5, <1>6, <1>7, <1>8 DEF MemberOK

\* The steps of the broker, of crashes and of restarts.
LEMMA BrokerPass ==
    ASSUME TypeOK, PassedInv, [Next]_vars, NEW m \in Members,
           Broker(m) \/ Crash(m) \/ Restart(m)
    PROVE  MemberOK(m)' /\ Covered(committed)'
<1>1. UNCHANGED <<log, effects, dead, skipped, pos>> \/ Assign(m)
  BY DEF Broker, Revoke, Kick, Lapse, Leave, Crash, Restart
<1>2. /\ committed \in Nat /\ committed <= Len(log) /\ Len(log) \in Nat
      /\ pos[m] \in Nat /\ marked[m] \in Nat
  BY DEF TypeOK, BusOK, MembersOK
<1>3. \A n : UNCHANGED <<log, effects, dead, skipped>> => Passed(n)' = Passed(n)
  BY DEF Passed, Needed, Handled
<1>4. CASE Assign(m)
  <2>1. /\ session'[m] = "live" /\ stage'[m] = "idle" /\ marked'[m] = committed
        /\ pos'[m] = committed + 1 /\ committed' = committed
        /\ UNCHANGED <<log, effects, dead, skipped>>
    BY <1>4 DEF Assign, TypeOK, MembersOK
  <2>2. \A n \in 1..committed : Passed(n)'
    BY <1>3, <2>1 DEF PassedInv, Covered
  <2>3. Covered(committed)' /\ Covered(pos[m] - 1)'
    BY <1>2, <2>1, <2>2 DEF Covered
  <2> QED
    BY <1>2, <2>1, <2>3 DEF MemberOK, Handling
<1>5. CASE Revoke(m) \/ Kick(m) \/ Lapse(m)
  <2>1. /\ session[m] # "none" => session'[m] # "none" 
        /\ session[m] = "none" => session'[m] = "none" 
        /\ UNCHANGED <<log, stage, pos, marked, committed, effects, dead, skipped>>
    BY <1>5 DEF Revoke, Kick, Lapse, TypeOK, MembersOK
  <2>2. \A k : Covered(k) => \A n \in 1..k : Passed(n)'
    BY <1>3, <2>1 DEF Covered
  <2>3. Covered(committed)' /\ (session[m] # "none" => Covered(pos[m] - 1)')
    BY <2>1, <2>2 DEF PassedInv, MemberOK, Covered
  <2>4. stage[m] = "done" => Passed(pos[m])'
    BY <2>1 DEF PassedInv, MemberOK, Passed, Needed, Handled
  <2> QED
    BY <2>1, <2>3, <2>4 DEF PassedInv, MemberOK, Handling, At
<1>6. CASE Leave(m) \/ Crash(m) \/ Restart(m)
  <2>1. /\ session'[m] = "none" \/ (session'[m] = session[m] /\ Restart(m))
        /\ stage'[m] \in {"idle", "down"} 
        /\ UNCHANGED <<log, pos, marked, effects, dead, skipped>>
    BY <1>6 DEF Leave, Crash, Restart, Goto, TypeOK, MembersOK
  <2>2. \A k : Covered(k) => \A n \in 1..k : Passed(n)'
    BY <1>3, <2>1 DEF Covered
  <2>3. Covered(committed')
    <3>1. CASE Leave(m)
      <4>1. session[m] # "none"
        BY <3>1 DEF Leave
      <4>2. \A n \in 1..marked[m] : Passed(n)
        BY <4>1, <1>2 DEF PassedInv, MemberOK, Covered
      <4>3. committed' \in {marked[m], committed}
        BY <3>1 DEF Leave, AfterCommit, Upto
      <4> QED
        BY <4>2, <4>3 DEF PassedInv, Covered
    <3>2. CASE Crash(m) \/ Restart(m)
      BY <3>2 DEF Crash, Restart, PassedInv
    <3> QED
      BY <1>6, <3>1, <3>2
  <2>4. Covered(committed)'
    BY <2>2, <2>3 DEF Covered
  <2>5. session'[m] # "none" => MemberOK(m) /\ session[m] # "none"
    BY <2>1 DEF PassedInv
  <2>6. session'[m] # "none" => Covered(pos[m] - 1)'
    BY <2>1, <2>2, <2>5 DEF MemberOK, Covered
  <2> QED
    BY <2>1, <2>4, <2>5, <2>6 DEF MemberOK, Handling
<1> QED
  BY <1>4, <1>5, <1>6 DEF Broker

\* Fetching a message and running its handler move no offset, no position and
\* no mark; what is left to show is what the new stage promises.
LEMMA HandlePass ==
    ASSUME TypeOK, PassedInv, [Next]_vars, NEW m \in Members,
           Fetch(m) \/ Handle(m)
    PROVE  MemberOK(m)' /\ Covered(committed)'
<1>1. UNCHANGED <<log, committed, session, pos, marked>> /\ session[m] # "none"
  BY DEF Fetch, Handle, Check, Acquire, LookupFails, Succeed, NoMatch, BodyFails, MarkProcessed,
         MarkFails, Release, ReleaseFails, PassedInv, MemberOK, Handling, Stages
<1>2. /\ committed \in Nat /\ committed <= Len(log) /\ Len(log) \in Nat
      /\ pos[m] \in Nat \ {0} /\ marked[m] \in Nat
      /\ pos[m] <= Len(log) + 1
  BY <1>1 DEF TypeOK, BusOK, MembersOK, PassedInv, MemberOK
<1>3. \A n \in 1..Len(log) : Passed(n) => Passed(n)'
  BY PassedStays
<1>4. Covered(committed)' /\ Covered(pos[m] - 1)'
  BY <1>1, <1>2, <1>3 DEF PassedInv, MemberOK, Covered
<1>5. pos[m] \in 1..Len(log) /\ At(m) \in Events /\ At(m)' = At(m)
  <2>1. pos[m] \in 1..Len(log)
    <3>1. CASE Fetch(m)
      BY <3>1, <1>2 DEF Fetch
    <3>2. CASE Handle(m)
      <4>1. Handling(m)
        BY <3>2 DEF Handle, Check, Acquire, LookupFails, Succeed, NoMatch, BodyFails, MarkProcessed,
                    MarkFails, Release, ReleaseFails, Handling, Stages
      <4> QED
        BY <4>1, AtType DEF TypeOK
    <3> QED
      BY <3>1, <3>2
  <2> QED
    BY <1>1, <2>1 DEF TypeOK, BusOK, At
<1>6. effects \in [Events -> Nat]
  BY DEF TypeOK, StoresOK
<1>7. /\ stage'[m] = "done" => Passed(pos[m])'
      /\ stage'[m] = "mark" => effects'[At(m)] > 0
      /\ stage'[m] # "half"
      /\ stage'[m] = "drop" => At(m) \in Unmatched
  <2>1. stage \in [Members -> Stages]
    BY DEF TypeOK, MembersOK
  <2>2. CASE Fetch(m)
    BY <2>1, <2>2, <1>1, <1>5 DEF Fetch, Goto, Entry, Passed, Needed, At
  <2>3. CASE Check(m)
    BY <2>1, <2>3, <1>1, <1>5 DEF Check, Goto, PassedInv, MarkersOK, Passed, Handled, At
  <2>4. CASE Acquire(m)
    BY <2>1, <2>4, <1>1 DEF Acquire, Goto, Passed
  <2>5. CASE LookupFails(m) \/ BodyFails(m) \/ MarkFails(m)
    BY <2>1, <2>5 DEF LookupFails, BodyFails, MarkFails, Goto
  <2>6. CASE Succeed(m)
    <3>1. effects'[At(m)] > 0
      BY <2>6, <1>5, <1>6, IncGrows DEF Succeed
    <3>2. Handled(log[pos[m]])'
      BY <3>1, <1>1 DEF Handled, At
    <3> QED
      BY <2>1, <2>6, <3>1, <3>2 DEF Succeed, Goto, Passed
  <2>7. CASE NoMatch(m)
    BY <2>1, <2>7, <1>1, <1>5 DEF NoMatch, Goto, Passed, Needed, At
  <2>8. CASE MarkProcessed(m)
    <3>1. effects[At(m)] > 0
      BY <2>8 DEF MarkProcessed, PassedInv, MemberOK
    <3> QED
      BY <2>1, <2>8, <1>1, <3>1 DEF MarkProcessed, Goto, Passed, Handled, At
  <2>9. CASE Release(m) \/ ReleaseFails(m)
    <3>1. stage'[m] \in {"done", "failed"} /\ (stage'[m] = "done" => stage[m] = "drop")
      BY <2>1, <2>9 DEF Release, ReleaseFails, AfterRelease, Goto
    <3>2. stage[m] = "drop" => At(m) \in Unmatched
      BY DEF PassedInv, MemberOK
    <3> QED
      BY <3>1, <3>2, <1>1, <1>5 DEF Passed, Needed, At
  <2> QED
    BY <2>2, <2>3, <2>4, <2>5, <2>6, <2>7, <2>8, <2>9 DEF Handle
<1>8. marked[m] < pos[m]
  BY <1>1 DEF PassedInv, MemberOK
<1> QED
  BY <1>1, <1>2, <1>4, <1>5, <1>7, <1>8 DEF MemberOK

\* Retries, dead letters, blocks and commits.
LEMMA DisposePass ==
    ASSUME TypeOK, PassedInv, [Next]_vars, NEW m \in Members, Dispose(m)
    PROVE  MemberOK(m)' /\ Covered(committed)'
<1>1. Handling(m)
  BY DEF Dispose, Retry, DeadLetter, DeadLetterFails, GiveUp, Commit, Handling, Stages
<1>2. /\ session[m] # "none" /\ session \in [Members -> Sessions]
      /\ stage \in [Members -> Stages]
  BY <1>1 DEF TypeOK, MembersOK, PassedInv, MemberOK
<1>3. /\ committed \in Nat /\ committed <= Len(log) /\ Len(log) \in Nat
      /\ pos[m] \in 1..Len(log) /\ At(m) \in Events
      /\ marked[m] \in Nat /\ marked[m] < pos[m] /\ log' = log
  BY <1>1, <1>2, AtType DEF TypeOK, BusOK, MembersOK, PassedInv, MemberOK, Dispose, Retry, DeadLetter,
     DeadLetterFails, GiveUp, Block, Commit
<1>4. \A n \in 1..Len(log) : Passed(n) => Passed(n)'
  BY PassedStays
<1>5. \A n \in 1..committed : Passed(n)'
  BY <1>3, <1>4 DEF PassedInv, Covered
<1>6. \A n \in 1..(pos[m] - 1) : Passed(n)'
  BY <1>2, <1>3, <1>4 DEF PassedInv, MemberOK, Covered
<1>7. CASE Commit(m)
  <2>1. \A n \in 1..pos[m] : Passed(n)'
    <3>1. Passed(pos[m])
      BY <1>7 DEF Commit, PassedInv, MemberOK
    <3>2. \A n \in {pos[m]} : Passed(n)'
      BY <1>3, <1>4, <3>1
    <3>3. \A n \in 1..pos[m] : n \in 1..(pos[m] - 1) \/ n \in {pos[m]}
      BY <1>3
    <3> QED
      BY <1>6, <3>2, <3>3
  <2>2. /\ session' = session /\ marked'[m] = pos[m] /\ pos'[m] = pos[m] + 1
        /\ stage'[m] = "idle"
        /\ committed' \in {committed, pos[m]}
    BY <1>2, <1>7 DEF Commit, Goto, AfterCommit, Upto, TypeOK, MembersOK
  <2>3. Covered(committed)'
    BY <1>5, <2>1, <2>2 DEF Covered
  <2>4. Covered(pos[m] - 1)'
    BY <1>3, <2>1, <2>2 DEF Covered
  <2> QED
    BY <1>2, <1>3, <2>2, <2>3, <2>4 DEF MemberOK, Handling
<1>8. CASE Retry(m) \/ DeadLetter(m) \/ DeadLetterFails(m) \/ GiveUp(m)
  <2>1. /\ UNCHANGED <<committed, pos, marked>>
        /\ session'[m] # "none"
        /\ stage'[m] \in {"check", "work", "half", "done", "left"}
        /\ stage'[m] = "done" => stage[m] = "half"
        /\ stage'[m] = "half" => dead' = Inc(dead, At(m))
    BY <1>2, <1>8 DEF Retry, DeadLetter, DeadLetterFails, GiveUp, Block, Goto, Entry
  <2>2. stage'[m] = "half" => dead'[At(m)'] > 0
    BY <2>1, <1>3, IncGrows DEF At, TypeOK, StoresOK
  <2>3. stage'[m] = "done" => Passed(pos[m])'
    <3>1. stage[m] = "half" => Passed(pos[m])
      BY DEF PassedInv, MemberOK, Passed, Handled, At
    <3>2. \A n \in {pos[m]} : Passed(n) => Passed(n)'
      BY <1>3, <1>4
    <3> QED
      BY <2>1, <3>1, <3>2 DEF Passed
  <2>4. Covered(committed)' /\ Covered(pos[m] - 1)'
    BY <1>5, <1>6, <2>1 DEF Covered
  <2> QED
    BY <1>3, <2>1, <2>2, <2>3, <2>4 DEF MemberOK
<1> QED
  BY <1>7, <1>8 DEF Dispose

\* A durable marker is set by the handler that ran to completion.
LEMMA MarkersStep ==
    ASSUME TypeOK, PassedInv, [Next]_vars
    PROVE  MarkersOK'
<1>1. \A e \in Events : effects[e] > 0 => effects'[e] > 0
  BY Grows
<1>2. processed \subseteq Events
  BY DEF TypeOK, StoresOK
<1>3. CASE processed' = processed
  BY <1>1, <1>2, <1>3 DEF PassedInv, MarkersOK
<1>4. ASSUME NEW m \in Members, MarkProcessed(m)
      PROVE  MarkersOK'
  <2>1. effects[At(m)] > 0 /\ processed' = processed \cup {At(m)} /\ effects' = effects
    BY <1>4 DEF MarkProcessed, PassedInv, MemberOK
  <2> QED
    BY <2>1 DEF PassedInv, MarkersOK
<1>5. (\E m \in Members : MarkProcessed(m)) \/ processed' = processed
  BY DEF Next, vars, Produce, LockExpires, Broker, Assign, Revoke, Kick, Lapse, Leave, Crash, Restart,
         Fetch, Handle, Check, Acquire, LookupFails, Succeed, NoMatch, BodyFails, MarkFails, Release,
         ReleaseFails, Dispose, Retry, DeadLetter, DeadLetterFails, GiveUp, Block, Commit
<1> QED
  BY <1>3, <1>4, <1>5

\* Every step keeps the invariant: the member that moves by the lemmas above,
\* the others because they stand still.
LEMMA PassedStep ==
    ASSUME TypeOK, PassedInv, [Next]_vars
    PROVE  PassedInv'
<1>1. MarkersOK'
  BY MarkersStep
<1>2. ASSUME UNCHANGED <<committed, memberVars>>
      PROVE  Covered(committed)' /\ \A m \in Members : MemberOK(m)'
  <2>1. \A n \in 1..Len(log) : Passed(n) => Passed(n)'
    BY PassedStays
  <2>2. committed \in Nat /\ committed <= Len(log)
    BY DEF TypeOK, BusOK
  <2>3. Covered(committed)'
    BY <1>2, <2>1, <2>2 DEF PassedInv, Covered
  <2> QED
    BY <1>2, <2>3, OtherMembers DEF PassedInv
<1>3. ASSUME NEW e \in Events, Produce(e) \/ LockExpires(e)
      PROVE  UNCHANGED <<committed, memberVars>>
  BY <1>3 DEF Produce, LockExpires
<1>4. ASSUME NEW m \in Members,
             Broker(m) \/ Crash(m) \/ Restart(m) \/ Fetch(m) \/ Handle(m) \/ Dispose(m)
      PROVE  Covered(committed)' /\ \A k \in Members : MemberOK(k)'
  <2>1. MemberOK(m)' /\ Covered(committed)'
    BY <1>4, BrokerPass, HandlePass, DisposePass
  <2>2. \A k \in Members \ {m} :
          session'[k] = session[k] /\ stage'[k] = stage[k] /\ pos'[k] = pos[k] /\ marked'[k] = marked[k]
    <3> USE DEF TypeOK, MembersOK, Goto
    <3>1. CASE Broker(m) \/ Crash(m) \/ Restart(m) \/ Fetch(m)
      BY <3>1 DEF Broker, Assign, Revoke, Kick, Lapse, Leave, Crash, Restart, Fetch
    <3>2. CASE Handle(m)
      BY <3>2 DEF Handle, Check, Acquire, LookupFails, Succeed, NoMatch, BodyFails, MarkProcessed,
                  MarkFails, Release, ReleaseFails
    <3>3. CASE Dispose(m)
      BY <3>3 DEF Dispose, Retry, DeadLetter, DeadLetterFails, GiveUp, Block, Commit
    <3> QED
      BY <1>4, <3>1, <3>2, <3>3
  <2>3. \A k \in Members \ {m} : MemberOK(k)'
    BY <2>2, OtherMembers DEF PassedInv
  <2> QED
    BY <2>1, <2>3
<1>5. UNCHANGED vars => UNCHANGED <<committed, memberVars>>
  BY DEF vars
<1> QED
  BY <1>1, <1>2, <1>3, <1>4, <1>5 DEF Next, PassedInv

LEMMA PassedInit == Init => PassedInv
BY DEF Init, PassedInv, Covered, MemberOK, MarkersOK, Handling

LEMMA PassedAlways == Spec => [](TypeOK /\ PassedInv)
<1>1. TypeOK /\ PassedInv /\ [Next]_vars => PassedInv'
  BY PassedStep
<1> QED
  BY <1>1, PassedInit, TypeCorrect, PTL DEF Spec

-----------------------------------------------------------------------------
(* Who is answered "processed": only an event whose handler has a guard.   *)

GuardedOnly ==
    /\ \A n \in skipped : n \in 1..Len(log) /\ log[n] \notin Unguarded
    /\ \A m \in Members : stage[m] \in {"check", "acquire"} => At(m) \notin Unguarded

\* The message of a handler is in the partition.
LEMMA HandlingInLog ==
    ASSUME TypeOK
    PROVE  \A m \in Members : Handling(m) => pos[m] \in 1..Len(log)
<1>1. Len(log) \in Nat
  BY DEF TypeOK, BusOK
<1>2. \A m \in Members : pos[m] \in Nat \ {0} /\ (Handling(m) => pos[m] <= Len(log))
  BY DEF TypeOK, MembersOK
<1> QED
  BY <1>1, <1>2

LEMMA GuardedInit == Init => GuardedOnly
BY DEF Init, GuardedOnly

LEMMA GuardedStep ==
    ASSUME TypeOK, GuardedOnly, [Next]_vars
    PROVE  GuardedOnly'
<1>1. ASSUME NEW e \in Events, Produce(e)
      PROVE  GuardedOnly'
  <2>1. \A n \in 1..Len(log) : log'[n] = log[n] /\ n \in 1..Len(log')
    BY <1>1 DEF Produce, TypeOK, BusOK
  <2>2. \A m \in Members : Handling(m) => pos[m] \in 1..Len(log)
    BY HandlingInLog
  <2>3. \A m \in Members : stage[m] \in {"check", "acquire"} => At(m)' = At(m)
    BY <1>1, <2>1, <2>2 DEF Produce, At, Handling, Stages, memberVars
  <2> QED
    BY <1>1, <2>1, <2>3 DEF Produce, GuardedOnly, memberVars, ghostVars
<1>2. ASSUME NEW m \in Members, Acquire(m)
      PROVE  GuardedOnly'
  <2>1. At(m) \notin Unguarded /\ Handling(m)
    BY <1>2 DEF Acquire, GuardedOnly, Handling, Stages
  <2>2. \A n \in skipped' : n \in 1..Len(log) /\ log[n] \notin Unguarded
    <3>1. skipped' \subseteq skipped \cup {pos[m]}
      BY <1>2 DEF Acquire
    <3>2. pos[m] \in 1..Len(log) /\ log[pos[m]] \notin Unguarded
      BY <2>1, HandlingInLog DEF At
    <3> QED
      BY <3>1, <3>2 DEF GuardedOnly
  <2>3. \A k \in Members : stage'[k] \in {"check", "acquire"} => stage[k] = stage'[k]
    BY <1>2 DEF Acquire, Goto, TypeOK, MembersOK
  <2>4. log' = log /\ pos' = pos
    BY <1>2 DEF Acquire, busVars
  <2> QED
    BY <2>2, <2>3, <2>4 DEF GuardedOnly, At
<1>3. ASSUME NEW m \in Members, Fetch(m) \/ Retry(m) \/ Check(m)
      PROVE  GuardedOnly'
  <2>1. UNCHANGED <<log, pos, skipped>>
    BY <1>3 DEF Fetch, Retry, Check, busVars, ghostVars
  <2>2. stage'[m] \in {"check", "acquire"} => At(m) \notin Unguarded
    BY <1>3 DEF Fetch, Retry, Check, Goto, Entry, GuardedOnly, TypeOK, MembersOK
  <2>3. \A k \in Members \ {m} : stage'[k] = stage[k]
    BY <1>3 DEF Fetch, Retry, Check, Goto, TypeOK, MembersOK
  <2> QED
    BY <2>1, <2>2, <2>3 DEF GuardedOnly, At
<1>4. ASSUME UNCHANGED <<log, skipped>>,
             \A k \in Members : stage'[k] \in {"check", "acquire"} =>
                 stage[k] = stage'[k] /\ pos'[k] = pos[k]
      PROVE  GuardedOnly'
  BY <1>4 DEF GuardedOnly, At
<1>5. ASSUME NEW e \in Events, LockExpires(e)
      PROVE  GuardedOnly'
  BY <1>5, <1>4 DEF LockExpires, busVars, memberVars
<1>6. ASSUME NEW m \in Members, Broker(m) \/ Crash(m) \/ Restart(m)
      PROVE  GuardedOnly'
  BY <1>6, <1>4 DEF Broker, Assign, Revoke, Kick, Lapse, Leave, Crash, Restart, Goto, TypeOK, MembersOK,
                    busVars, memberVars, ghostVars
<1>7. ASSUME NEW m \in Members, Handle(m), ~ Check(m), ~ Acquire(m)
      PROVE  GuardedOnly'
  BY <1>7, <1>4 DEF Handle, LookupFails, Succeed, NoMatch, BodyFails, MarkProcessed, MarkFails,
                    Release, ReleaseFails, AfterRelease, Goto, TypeOK, MembersOK, busVars, ghostVars
<1>8. ASSUME NEW m \in Members, Dispose(m), ~ Retry(m)
      PROVE  GuardedOnly'
  BY <1>8, <1>4 DEF Dispose, DeadLetter, DeadLetterFails, GiveUp, Block, Commit, Goto, TypeOK, MembersOK,
                    busVars, ghostVars
<1>9. ASSUME UNCHANGED vars
      PROVE  GuardedOnly'
  BY <1>9, <1>4 DEF vars, busVars, memberVars, ghostVars
<1> QED
  BY <1>1, <1>2, <1>3, <1>5, <1>6, <1>7, <1>8, <1>9 DEF Next, Handle, Dispose

\* A message is passed over unhandled only because of a processing lock, and
\* one whose handler has no guard never is.
THEOREM LossNeedsLock == Spec => []LossOnlyByLock
<1>1. TypeOK /\ GuardedOnly /\ [Next]_vars => GuardedOnly'
  BY GuardedStep
<1>2. Spec => []GuardedOnly
  BY <1>1, GuardedInit, TypeCorrect, PTL DEF Spec
<1>3. PassedInv /\ GuardedOnly => LossOnlyByLock
  BY DEF PassedInv, Covered, Passed, GuardedOnly, LossOnlyByLock
<1> QED
  BY <1>2, <1>3, PassedAlways, PTL

\* Without guards the consumer delivers at least once (consumer.go): every
\* committed message was handled to completion or dead-lettered.
THEOREM UnguardedDelivers ==
    ASSUME Unguarded = Events
    PROVE  Spec => []AtLeastOnce
<1>1. TypeOK /\ LossOnlyByLock => AtLeastOnce
  BY DEF TypeOK, BusOK, LossOnlyByLock, AtLeastOnce
<1> QED
  BY <1>1, TypeCorrect, LossNeedsLock, PTL

-----------------------------------------------------------------------------
(***************************************************************************)
(* Every repeat has a cause.  A guarded event is charged for each time its *)
(* handler ran, for each handler that is running, and for those that may   *)
(* still get in: one while no handler holds its lock, and, once the marker *)
(* is set, each member that had looked for it before.  A step moves the    *)
(* charge or lowers it, or counts an excuse for what it adds.              *)
(***************************************************************************)
Running(e) == {m \in Members : stage[m] \in {"work", "undo", "drop"} /\ At(m) = e}

MayEnter(e) ==
    IF e \in processed THEN Cardinality(Between(e))
    ELSE IF e \in lock /\ \E m \in Members : Holds(m, e) THEN 0 ELSE 1

Charge(e) == effects[e] + Cardinality(Running(e)) + MayEnter(e)

HandlingsExplained == \A e \in Events \ Unguarded : Charge(e) <= 1 + excuses[e]

\* The size of a set of members, when one member joins or leaves it.
LEMMA OneMoves ==
    ASSUME NEW S \in SUBSET Members, NEW T \in SUBSET Members, NEW m \in Members,
           \A k \in Members : k # m => (k \in S <=> k \in T)
    PROVE  /\ Cardinality(S) \in Nat /\ Cardinality(T) \in Nat
           /\ (m \in S <=> m \in T) => Cardinality(T) = Cardinality(S)
           /\ m \in S /\ m \notin T => Cardinality(S) = Cardinality(T) + 1
           /\ m \notin S /\ m \in T => Cardinality(T) = Cardinality(S) + 1
<1>1. IsFiniteSet(S) /\ IsFiniteSet(T)
  BY FS_Subset, ConsumerAssumption
<1>2. Cardinality(S) \in Nat /\ Cardinality(T) \in Nat
  BY <1>1, FS_CardinalityType
<1>3. ASSUME m \in S <=> m \in T
      PROVE  Cardinality(T) = Cardinality(S)
  <2>1. S = T
    BY <1>3
  <2> QED
    BY <2>1
<1>4. ASSUME m \in S, m \notin T
      PROVE  Cardinality(S) = Cardinality(T) + 1
  <2>1. S = T \cup {m}
    BY <1>4
  <2> QED
    BY <1>1, <1>4, <2>1, FS_AddElement
<1>5. ASSUME m \notin S, m \in T
      PROVE  Cardinality(T) = Cardinality(S) + 1
  <2>1. T = S \cup {m}
    BY <1>5
  <2> QED
    BY <1>1, <1>5, <2>1, FS_AddElement
<1> QED
  BY <1>2, <1>3, <1>4, <1>5

\* What is counted is a number.
LEMMA CountsAreNat ==
    ASSUME NEW e
    PROVE  Cardinality(Running(e)) \in Nat /\ Cardinality(Between(e)) \in Nat /\ MayEnter(e) \in Nat
<1>1. Running(e) \subseteq Members /\ Between(e) \subseteq Members
  BY DEF Running, Between
<1>2. IsFiniteSet(Running(e)) /\ IsFiniteSet(Between(e))
  BY <1>1, FS_Subset, ConsumerAssumption
<1>3. Cardinality(Running(e)) \in Nat /\ Cardinality(Between(e)) \in Nat
  BY <1>2, FS_CardinalityType
<1> QED
  BY <1>3 DEF MayEnter

\* A handler step of m changes the charge of the event it is at, and no other.
LEMMA ElsewhereCharge ==
    ASSUME NEW e \in Events \ Unguarded, NEW m \in Members, UNCHANGED <<log, pos>>, e # At(m),
           \A k \in Members : k # m => stage'[k] = stage[k],
           effects'[e] = effects[e],
           e \in processed' <=> e \in processed, e \in lock' <=> e \in lock
    PROVE  Charge(e)' = Charge(e)
<1>1. \A k \in Members : At(k)' = At(k)
  BY DEF At
<1>2. Running(e)' = Running(e) /\ Between(e)' = Between(e)
  BY <1>1 DEF Running, Between
<1>3. (\E k \in Members : Holds(k, e))' <=> \E k \in Members : Holds(k, e)
  BY <1>1 DEF Holds
<1>4. MayEnter(e)' = MayEnter(e)
  BY <1>2, <1>3 DEF MayEnter
<1> QED
  BY <1>2, <1>4 DEF Charge

\* Where a step of m leaves the others of the event it is at.
LEMMA HereCounts ==
    ASSUME NEW e, NEW m \in Members, \A k \in Members : k # m => stage'[k] = stage[k] /\ At(k)' = At(k)
    PROVE  /\ (m \in Running(e) <=> m \in Running(e)') => Cardinality(Running(e)') = Cardinality(Running(e))
           /\ m \in Running(e) /\ m \notin Running(e)' => Cardinality(Running(e)) = Cardinality(Running(e)') + 1
           /\ m \notin Running(e) /\ m \in Running(e)' => Cardinality(Running(e)') = Cardinality(Running(e)) + 1
           /\ (m \in Between(e) <=> m \in Between(e)') => Cardinality(Between(e)') = Cardinality(Between(e))
           /\ m \in Between(e) /\ m \notin Between(e)' => Cardinality(Between(e)) = Cardinality(Between(e)') + 1
           /\ Cardinality(Running(e)') \in Nat /\ Cardinality(Between(e)') \in Nat
           /\ Cardinality(Running(e)) \in Nat /\ Cardinality(Between(e)) \in Nat
<1>1. /\ Running(e) \in SUBSET Members /\ Running(e)' \in SUBSET Members
      /\ Between(e) \in SUBSET Members /\ Between(e)' \in SUBSET Members
  BY DEF Running, Between
<1>2. \A k \in Members : k # m => (k \in Running(e) <=> k \in Running(e)') /\ (k \in Between(e) <=> k \in Between(e)')
  BY DEF Running, Between
<1> DEFINE R == Running(e)
           R1 == Running(e)'
           B == Between(e)
           B1 == Between(e)'
<1> HIDE DEF R, R1, B, B1
<1>3. /\ (m \in R <=> m \in R1) => Cardinality(R1) = Cardinality(R)
      /\ m \in R /\ m \notin R1 => Cardinality(R) = Cardinality(R1) + 1
      /\ m \notin R /\ m \in R1 => Cardinality(R1) = Cardinality(R) + 1
      /\ Cardinality(R) \in Nat /\ Cardinality(R1) \in Nat
  BY <1>1, <1>2, OneMoves DEF R, R1
<1>4. /\ (m \in B <=> m \in B1) => Cardinality(B1) = Cardinality(B)
      /\ m \in B /\ m \notin B1 => Cardinality(B) = Cardinality(B1) + 1
      /\ Cardinality(B) \in Nat /\ Cardinality(B1) \in Nat
  BY <1>1, <1>2, OneMoves DEF B, B1
<1> QED
  BY <1>3, <1>4 DEF R, R1, B, B1

\* A step of the handler keeps every charge explained.
LEMMA HandleCharge ==
    ASSUME TypeOK, TypeOK', HandlingsExplained, NEW m \in Members, Handle(m), NEW e \in Events \ Unguarded
    PROVE  (Charge(e) <= 1 + excuses[e])'
<1>0. stage \in [Members -> Stages] /\ effects \in [Events -> Nat] /\ excuses \in [Events -> Nat]
  BY DEF TypeOK, MembersOK, StoresOK
<1>1. /\ UNCHANGED <<log, pos>>
      /\ \A k \in Members : k # m => stage'[k] = stage[k]
      /\ \A k \in Members : At(k)' = At(k)
  BY <1>0 DEF Handle, Check, Acquire, LookupFails, Succeed, NoMatch, BodyFails, MarkProcessed,
         MarkFails, Release, ReleaseFails, Goto, At
<1>2. effects[e] \in Nat /\ effects'[e] \in Nat /\ excuses[e] \in Nat /\ excuses'[e] \in Nat
  BY DEF TypeOK, StoresOK
<1>3. MayEnter(e) \in Nat /\ Cardinality(Running(e)) \in Nat /\ Cardinality(Between(e)) \in Nat
  BY CountsAreNat
<1>4. Charge(e) <= 1 + excuses[e]
  BY DEF HandlingsExplained
<1>5. /\ (m \in Running(e) <=> m \in Running(e)') => Cardinality(Running(e)') = Cardinality(Running(e))
      /\ m \in Running(e) /\ m \notin Running(e)' => Cardinality(Running(e)) = Cardinality(Running(e)') + 1
      /\ m \notin Running(e) /\ m \in Running(e)' => Cardinality(Running(e)') = Cardinality(Running(e)) + 1
      /\ (m \in Between(e) <=> m \in Between(e)') => Cardinality(Between(e)') = Cardinality(Between(e))
      /\ m \in Between(e) /\ m \notin Between(e)' => Cardinality(Between(e)) = Cardinality(Between(e)') + 1
      /\ Cardinality(Running(e)') \in Nat /\ Cardinality(Between(e)') \in Nat
  BY <1>1, HereCounts
<1>6. CASE e # At(m)
  <2>1. /\ effects'[e] = effects[e] /\ excuses'[e] = excuses[e]
        /\ e \in processed' <=> e \in processed
        /\ e \in lock' <=> e \in lock
    BY <1>0, <1>6 DEF Handle, Check, Acquire, LookupFails, Succeed, NoMatch, BodyFails, MarkProcessed,
                MarkFails, Release, ReleaseFails, Inc
  <2>2. Charge(e)' = Charge(e)
    BY <1>1, <1>6, <2>1, ElsewhereCharge
  <2> QED
    BY <1>4, <2>1, <2>2
<1>7. ASSUME e = At(m), UNCHANGED <<processed, lock, effects, excuses>>,
             stage[m] \notin Holding \cup {"acquire"}, stage'[m] \notin Holding,
             stage'[m] = "acquire" => e \notin processed
      PROVE  Charge(e)' <= 1 + excuses'[e]
  <2>1. m \notin Running(e) /\ m \notin Running(e)' /\ m \notin Between(e)
    BY <1>7 DEF Running, Between, Holding
  <2>2. (\E k \in Members : Holds(k, e))' <=> \E k \in Members : Holds(k, e)
    BY <1>1, <1>7 DEF Holds
  <2>3. e \in processed => m \notin Between(e)'
    BY <1>7 DEF Between
  <2>4. MayEnter(e)' = MayEnter(e)
    BY <1>5, <1>7, <2>1, <2>2, <2>3 DEF MayEnter
  <2> QED
    BY <1>2, <1>3, <1>4, <1>5, <1>7, <2>1, <2>4 DEF Charge
<1>8. ASSUME e = At(m), UNCHANGED <<processed, excuses, effects>>, lock \subseteq lock',
             stage[m] \in {"check", "acquire"}, stage'[m] \notin Holding \cup {"acquire"}
      PROVE  Charge(e)' <= 1 + excuses'[e]
  <2>1. m \notin Running(e) /\ m \notin Running(e)' /\ m \notin Between(e)'
    BY <1>8 DEF Running, Between, Holding
  <2>2. (\E k \in Members : Holds(k, e))' <=> \E k \in Members : Holds(k, e)
    BY <1>1, <1>8 DEF Holds, Holding
  <2>3. Cardinality(Between(e)') <= Cardinality(Between(e))
    BY <1>3, <1>5, <2>1
  <2>4. MayEnter(e)' <= MayEnter(e) /\ MayEnter(e)' \in Nat
    BY <1>3, <1>5, <1>8, <2>2, <2>3 DEF MayEnter
  <2> QED
    BY <1>2, <1>3, <1>4, <1>5, <1>8, <2>1, <2>4 DEF Charge
<1>9. ASSUME e = At(m), Acquire(m), e \notin lock
      PROVE  Charge(e)' <= 1 + excuses'[e]
  <2>1. /\ stage[m] = "acquire" /\ stage'[m] = "work" /\ e \in lock'
        /\ UNCHANGED <<processed, excuses, effects>>
    BY <1>0, <1>9 DEF Acquire, Goto
  <2>2. m \in Between(e) /\ m \notin Between(e)' /\ m \notin Running(e) /\ m \in Running(e)' /\ Holds(m, e)'
    BY <1>1, <1>9, <2>1 DEF Running, Between, Holds, Holding
  <2>3. MayEnter(e)' + 1 = MayEnter(e) /\ MayEnter(e)' \in Nat
    BY <1>3, <1>5, <1>9, <2>1, <2>2 DEF MayEnter
  <2> QED
    BY <1>2, <1>3, <1>4, <1>5, <2>1, <2>2, <2>3 DEF Charge
<1>10. ASSUME e = At(m), Succeed(m)
       PROVE  Charge(e)' <= 1 + excuses'[e]
  <2>1. /\ stage[m] = "work" /\ stage'[m] = "mark" /\ effects'[e] = effects[e] + 1
        /\ UNCHANGED <<processed, lock, excuses>>
    BY <1>0, <1>10 DEF Succeed, Goto, Inc
  <2>2. m \in Running(e) /\ m \notin Running(e)' /\ m \notin Between(e) /\ m \notin Between(e)'
    BY <1>10, <2>1 DEF Running, Between
  <2>3. Holds(m, e) /\ Holds(m, e)'
    BY <1>1, <1>10, <2>1 DEF Holds, Holding
  <2>4. MayEnter(e)' = MayEnter(e)
    BY <1>5, <2>1, <2>2, <2>3 DEF MayEnter
  <2> QED
    BY <1>2, <1>3, <1>4, <1>5, <2>1, <2>2, <2>4 DEF Charge
<1>11. ASSUME e = At(m), NoMatch(m) \/ BodyFails(m)
       PROVE  Charge(e)' <= 1 + excuses'[e]
  <2>1. /\ stage[m] = "work" /\ stage'[m] \in {"drop", "undo"}
        /\ UNCHANGED <<processed, lock, excuses, effects>>
    BY <1>0, <1>11 DEF NoMatch, BodyFails, Goto
  <2>2. m \in Running(e) /\ m \in Running(e)' /\ m \notin Between(e) /\ m \notin Between(e)'
    BY <1>1, <1>11, <2>1 DEF Running, Between
  <2>3. Holds(m, e) /\ Holds(m, e)'
    BY <1>1, <1>11, <2>1 DEF Holds, Holding
  <2>4. MayEnter(e)' = MayEnter(e)
    BY <1>5, <2>1, <2>2, <2>3 DEF MayEnter
  <2> QED
    BY <1>2, <1>3, <1>4, <1>5, <2>1, <2>2, <2>4 DEF Charge
<1>12. ASSUME e = At(m), MarkProcessed(m)
       PROVE  Charge(e)' <= 1 + excuses'[e]
  <2>1. /\ stage[m] = "mark" /\ stage'[m] = "done" /\ e \in processed'
        /\ excuses'[e] = excuses[e] + Cardinality(Between(e)) /\ effects'[e] = effects[e]
    BY <1>0, <1>12 DEF MarkProcessed, Goto
  <2>2. m \notin Running(e) /\ m \notin Running(e)' /\ m \notin Between(e) /\ m \notin Between(e)'
    BY <2>1 DEF Running, Between
  <2>3. MayEnter(e)' = Cardinality(Between(e))
    BY <1>5, <2>1, <2>2 DEF MayEnter
  <2> QED
    BY <1>2, <1>3, <1>4, <1>5, <2>1, <2>2, <2>3 DEF Charge
<1>13. ASSUME e = At(m), processed' = processed, effects' = effects, stage[m] \in Holding,
              stage'[m] \notin Holding \cup {"acquire"}, stage[m] = "mark" => excuses'[e] = excuses[e] + 1,
              stage[m] # "mark" => excuses'[e] = excuses[e]
       PROVE  Charge(e)' <= 1 + excuses'[e]
  <2>1. m \notin Running(e)' /\ m \notin Between(e) /\ m \notin Between(e)'
    BY <1>13 DEF Running, Between, Holding
  <2>2. MayEnter(e)' <= MayEnter(e) + 1 /\ MayEnter(e)' \in Nat
    BY <1>3, <1>5, <1>13, <2>1 DEF MayEnter
  <2>3. CASE stage[m] = "mark"
    <3>1. m \notin Running(e)
      BY <2>3 DEF Running
    <3> QED
      BY <1>2, <1>3, <1>4, <1>5, <1>13, <2>1, <2>2, <2>3, <3>1 DEF Charge
  <2>4. CASE stage[m] # "mark"
    <3>1. m \in Running(e)
      BY <1>13, <2>4 DEF Running, Holding
    <3> QED
      BY <1>2, <1>3, <1>4, <1>5, <1>13, <2>1, <2>2, <2>4, <3>1 DEF Charge
  <2> QED
    BY <2>3, <2>4
<1>14. CASE e = At(m)
  <2>1. CASE Check(m)
    BY <1>0, <1>7, <1>14, <2>1 DEF Check, Goto, Holding
  <2>2. CASE Acquire(m) /\ e \notin lock
    BY <1>9, <1>14, <2>2
  <2>3. CASE Acquire(m) /\ e \in lock
    BY <1>0, <1>8, <1>14, <2>3 DEF Acquire, Goto, Holding
  <2>4. CASE LookupFails(m)
    BY <1>0, <1>8, <1>14, <2>4 DEF LookupFails, Goto, Holding
  <2>5. CASE Succeed(m) \/ NoMatch(m) \/ BodyFails(m) \/ MarkProcessed(m)
    BY <1>10, <1>11, <1>12, <1>14, <2>5
  <2>6. CASE MarkFails(m)
    BY <1>0, <1>13, <1>14, <2>6 DEF MarkFails, Goto, Inc, Holding
  <2>7. CASE Release(m) \/ ReleaseFails(m)
    BY <1>0, <1>13, <1>14, <2>7 DEF Release, ReleaseFails, AfterRelease, Goto, Holding
  <2> QED
    BY <2>1, <2>2, <2>3, <2>4, <2>5, <2>6, <2>7 DEF Handle
<1> QED
  BY <1>6, <1>14

\* Whether member m counts for event e.
Counts(m, e) == stage[m] \in Holding \cup {"acquire"} /\ At(m) = e

\* A step after which the same members count, each at the same stage.
LEMMA StillCharge ==
    ASSUME NEW e, UNCHANGED <<processed, effects>>, e \in lock' <=> e \in lock,
           \A k \in Members : Counts(k, e) <=> Counts(k, e)',
           \A k \in Members : Counts(k, e) => stage'[k] = stage[k]
    PROVE  Charge(e)' = Charge(e)
<1>1. Running(e)' = Running(e) /\ Between(e)' = Between(e)
  BY DEF Running, Between, Counts, Holding
<1>2. (\E k \in Members : Holds(k, e))' <=> \E k \in Members : Holds(k, e)
  BY DEF Holds, Counts, Holding
<1>3. MayEnter(e)' = MayEnter(e)
  BY <1>1, <1>2 DEF MayEnter
<1> QED
  BY <1>1, <1>3 DEF Charge

\* A crash takes a handler out; what it was owed may be claimed anew, and a
\* marker it had still to set is an excuse.
LEMMA CrashCharge ==
    ASSUME TypeOK, TypeOK', HandlingsExplained, NEW m \in Members, Crash(m), NEW e \in Events \ Unguarded
    PROVE  (Charge(e) <= 1 + excuses[e])'
<1>1. /\ stage'[m] = "down" /\ UNCHANGED <<log, pos, processed, lock, effects>>
      /\ \A k \in Members : k # m => stage'[k] = stage[k]
      /\ \A k \in Members : At(k)' = At(k)
  BY DEF Crash, Goto, TypeOK, MembersOK, At
<1>2. /\ effects[e] \in Nat /\ excuses[e] \in Nat /\ excuses'[e] \in Nat
      /\ excuses'[e] >= excuses[e]
      /\ stage[m] = "mark" /\ At(m) = e => excuses'[e] = excuses[e] + 1
  BY DEF Crash, Inc, TypeOK, StoresOK
<1>3. MayEnter(e) \in Nat /\ Cardinality(Running(e)) \in Nat /\ Cardinality(Between(e)) \in Nat
  BY CountsAreNat
<1>4. Charge(e) <= 1 + excuses[e]
  BY DEF HandlingsExplained
<1>5. /\ (m \in Running(e) <=> m \in Running(e)') => Cardinality(Running(e)') = Cardinality(Running(e))
      /\ m \in Running(e) /\ m \notin Running(e)' => Cardinality(Running(e)) = Cardinality(Running(e)') + 1
      /\ (m \in Between(e) <=> m \in Between(e)') => Cardinality(Between(e)') = Cardinality(Between(e))
      /\ m \in Between(e) /\ m \notin Between(e)' => Cardinality(Between(e)) = Cardinality(Between(e)') + 1
      /\ Cardinality(Running(e)') \in Nat /\ Cardinality(Between(e)') \in Nat
  BY <1>1, HereCounts
<1>6. m \notin Running(e)' /\ m \notin Between(e)'
  BY <1>1 DEF Running, Between
<1>7. CASE Holds(m, e)
  <2>1. m \notin Between(e) /\ (m \in Running(e) \/ excuses'[e] = excuses[e] + 1)
    BY <1>2, <1>7 DEF Holds, Holding, Running, Between
  <2>2. MayEnter(e)' <= MayEnter(e) + 1 /\ MayEnter(e)' \in Nat
    BY <1>1, <1>3, <1>5, <1>6, <2>1 DEF MayEnter
  <2> QED
    BY <1>1, <1>2, <1>3, <1>4, <1>5, <1>6, <2>1, <2>2 DEF Charge
<1>8. CASE ~Holds(m, e)
  <2>1. m \notin Running(e)
    BY <1>8 DEF Holds, Holding, Running
  <2>2. (\E k \in Members : Holds(k, e))' <=> \E k \in Members : Holds(k, e)
    <3>1. ~Holds(m, e)'
      BY <1>1 DEF Holds, Holding
    <3> QED
      BY <1>1, <1>8, <3>1 DEF Holds
  <2>3. Cardinality(Between(e)') <= Cardinality(Between(e))
    BY <1>3, <1>5, <1>6
  <2>4. MayEnter(e)' <= MayEnter(e) /\ MayEnter(e)' \in Nat
    BY <1>1, <1>3, <1>5, <2>2, <2>3 DEF MayEnter
  <2> QED
    BY <1>1, <1>2, <1>3, <1>4, <1>5, <1>6, <2>1, <2>4 DEF Charge
<1> QED
  BY <1>7, <1>8

\* Outside the handler no member enters or leaves the counted stages of a
\* guarded event, save by a crash.
LEMMA OutsideCharge ==
    ASSUME TypeOK, NEW m \in Members, Broker(m) \/ Restart(m) \/ Fetch(m) \/ Dispose(m),
           NEW e \in Events \ Unguarded
    PROVE  Charge(e)' = Charge(e) /\ excuses'[e] = excuses[e]
<1>1. /\ UNCHANGED <<log, lock, processed, effects, excuses>>
      /\ \A k \in Members : k # m => stage'[k] = stage[k] /\ pos'[k] = pos[k]
  BY DEF Broker, Assign, Revoke, Kick, Lapse, Leave, Restart, Fetch, Dispose, Retry, DeadLetter,
         DeadLetterFails, GiveUp, Block, Commit, Goto, TypeOK, MembersOK
<1>2. \/ stage'[m] = stage[m] /\ pos'[m] = pos[m]
      \/ ~Counts(m, e) /\ ~Counts(m, e)'
  <2>0. stage \in [Members -> Stages]
    BY DEF TypeOK, MembersOK
  <2>1. CASE Broker(m)
    BY <2>0, <2>1 DEF Broker, Assign, Revoke, Kick, Lapse, Leave, Goto, Counts, Holding
  <2>2. CASE Restart(m)
    BY <2>0, <2>2 DEF Restart, Goto, Counts, Holding
  <2>3. CASE Fetch(m)
    BY <2>0, <2>3 DEF Fetch, Entry, Goto, Counts, Holding, At
  <2>4. CASE Retry(m)
    BY <2>0, <2>4 DEF Retry, Entry, Goto, Counts, Holding, At
  <2>5. CASE DeadLetter(m) \/ DeadLetterFails(m) \/ GiveUp(m) \/ Commit(m)
    BY <2>0, <2>5 DEF DeadLetter, DeadLetterFails, GiveUp, Block, Commit, Goto, Counts, Holding
  <2> QED
    BY <2>1, <2>2, <2>3, <2>4, <2>5 DEF Dispose
<1>3. \A k \in Members : (Counts(k, e) <=> Counts(k, e)') /\ (Counts(k, e) => stage'[k] = stage[k])
  BY <1>1, <1>2 DEF Counts, At
<1>4. Charge(e)' = Charge(e)
  BY <1>1, <1>3, StillCharge
<1> QED
  BY <1>1, <1>4

\* Every step keeps the charge of every guarded event explained.
LEMMA ExplainedStep ==
    ASSUME TypeOK, HandlingsExplained, [Next]_vars
    PROVE  HandlingsExplained'
<1>1. TypeOK'
  BY TypeStep
<1> SUFFICES ASSUME NEW e \in Events \ Unguarded
             PROVE  (Charge(e) <= 1 + excuses[e])'
  BY DEF HandlingsExplained
<1>2. Charge(e) <= 1 + excuses[e]
  BY DEF HandlingsExplained
<1>3. ASSUME NEW d \in Events, Produce(d)
      PROVE  (Charge(e) <= 1 + excuses[e])'
  <2>1. UNCHANGED <<pos, stage, processed, lock, effects, excuses>>
    BY <1>3 DEF Produce
  <2>2. \A k \in Members : Handling(k) => At(k)' = At(k)
    BY <1>3, <2>1, AtType DEF Produce, At, TypeOK, BusOK
  <2>3. \A k \in Members : stage[k] \in Holding \cup {"acquire"} => Handling(k)
    BY DEF Holding, Handling, Stages
  <2>4. \A k \in Members : Counts(k, e) <=> Counts(k, e)'
    BY <2>1, <2>2, <2>3 DEF Counts
  <2>5. Charge(e)' = Charge(e)
    BY <2>1, <2>4, StillCharge
  <2> QED
    BY <1>2, <2>1, <2>5
<1>4. ASSUME NEW d \in Events, LockExpires(d)
      PROVE  (Charge(e) <= 1 + excuses[e])'
  <2>1. UNCHANGED <<log, pos, stage, processed, effects>> /\ lock' = lock \ {d} /\ d \in lock
    BY <1>4 DEF LockExpires
  <2>2. Running(e)' = Running(e) /\ Between(e)' = Between(e)
    BY <2>1 DEF Running, Between, At
  <2>3. (\E k \in Members : Holds(k, e))' <=> \E k \in Members : Holds(k, e)
    BY <2>1 DEF Holds, At
  <2>4. MayEnter(e) \in Nat /\ Cardinality(Running(e)) \in Nat
    BY CountsAreNat
  <2>5. effects[e] \in Nat /\ excuses[e] \in Nat
    BY DEF TypeOK, StoresOK
  <2>6. CASE e = d /\ \E k \in Members : Holds(k, d)
    <3>1. excuses'[e] = excuses[e] + 1
      BY <1>4, <2>6 DEF LockExpires, Inc, TypeOK, StoresOK
    <3>2. MayEnter(e)' <= MayEnter(e) + 1 /\ MayEnter(e)' \in Nat
      BY <2>1, <2>2, <2>4 DEF MayEnter
    <3> QED
      BY <1>2, <2>1, <2>2, <2>4, <2>5, <3>1, <3>2 DEF Charge
  <2>7. CASE ~(e = d /\ \E k \in Members : Holds(k, d))
    <3>1. excuses'[e] = excuses[e]
      BY <1>4, <2>7 DEF LockExpires, Inc, TypeOK, StoresOK
    <3>2. MayEnter(e)' = MayEnter(e)
      BY <2>1, <2>2, <2>3, <2>7 DEF MayEnter
    <3>3. Charge(e)' = Charge(e)
      BY <2>1, <2>2, <3>2 DEF Charge
    <3> QED
      BY <1>2, <3>1, <3>3
  <2> QED
    BY <2>6, <2>7
<1>5. ASSUME NEW m \in Members, Broker(m) \/ Restart(m) \/ Fetch(m) \/ Dispose(m)
      PROVE  (Charge(e) <= 1 + excuses[e])'
  <2>1. Charge(e)' = Charge(e) /\ excuses'[e] = excuses[e]
    BY <1>5, OutsideCharge
  <2> QED
    BY <1>2, <2>1
<1>6. ASSUME NEW m \in Members, Crash(m)
      PROVE  (Charge(e) <= 1 + excuses[e])'
  BY <1>1, <1>6, CrashCharge
<1>7. ASSUME NEW m \in Members, Handle(m)
      PROVE  (Charge(e) <= 1 + excuses[e])'
  BY <1>1, <1>7, HandleCharge
<1>8. CASE UNCHANGED vars
  <2>1. UNCHANGED <<log, pos, stage, processed, lock, effects, excuses>>
    BY <1>8 DEF vars
  <2>2. \A k \in Members : Counts(k, e) <=> Counts(k, e)'
    BY <2>1 DEF Counts, At
  <2>3. Charge(e)' = Charge(e)
    BY <2>1, <2>2, StillCharge
  <2> QED
    BY <1>2, <2>1, <2>3
<1> QED
  BY <1>3, <1>4, <1>5, <1>6, <1>7, <1>8 DEF Next

\* With the guard, an event is handled again only for one of the reasons
\* counted: a marker lost after the handler ran, a lock that expired under a
\* running handler, or a lookup that began before the marker was set.
THEOREM RepeatsBounded == Spec => []RepeatsExplained
<1>1. Init => HandlingsExplained
  <2> SUFFICES ASSUME Init, NEW e \in Events \ Unguarded
               PROVE  Charge(e) <= 1 + excuses[e]
    BY DEF HandlingsExplained
  <2>1. Running(e) = {} /\ MayEnter(e) = 1
    BY DEF Init, Running, MayEnter
  <2>2. Cardinality(Running(e)) = 0
    BY <2>1, FS_EmptySet
  <2> QED
    BY <2>1, <2>2 DEF Init, Charge
<1>2. TypeOK /\ HandlingsExplained /\ [Next]_vars => HandlingsExplained'
  BY ExplainedStep
<1>3. TypeOK /\ HandlingsExplained => RepeatsExplained
  <2> SUFFICES ASSUME TypeOK, HandlingsExplained, NEW e \in Events \ Unguarded
               PROVE  effects[e] <= 1 + excuses[e]
    BY DEF RepeatsExplained
  <2>1. Cardinality(Running(e)) \in Nat /\ MayEnter(e) \in Nat
    BY CountsAreNat
  <2>2. effects[e] \in Nat /\ excuses[e] \in Nat
    BY DEF TypeOK, StoresOK
  <2> QED
    BY <2>1, <2>2 DEF HandlingsExplained, Charge
<1> QED
  BY <1>1, <1>2, <1>3, TypeCorrect, PTL DEF Spec
=============================================================================
