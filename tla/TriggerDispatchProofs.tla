------------------------- MODULE TriggerDispatchProofs -------------------------
(***************************************************************************)
(* Proofs about the trigger dispatcher, for any events, automations,        *)
(* workers, retries and faults, with Redis and without.                     *)
(*                                                                          *)
(* An automation is behind a worker, or has a marker, only when it has its  *)
(* run or a reason not to: that is what makes an acknowledgement safe.      *)
(***************************************************************************)
EXTENDS TriggerDispatch, TLAPS

Explained(e, a) ==
  \/ <<e, a>> \in runs \cup refused \cup skipped
  \/ a \in toggled
  \/ a \notin Matches[e] \cap Selects[e]

\* The stages in which todo is what is left of the list.
Looping == {"next", "acquire", "sink", "mark", "settle", "undo"}

Unswitched == Automations \ toggled \subseteq enabled
MarkersExplained == \A e \in Events, a \in Automations : <<e, a>> \in processed => Explained(e, a)
WorkerExplained(w) ==
  /\ stage[w] \in {"mark", "settle"} => Explained(event[w], First(w))
  /\ stage[w] \in Looping => \A a \in Automations \ todo[w] : Explained(event[w], a)
AckedExplained == \A e \in acked : \A a \in Automations : Explained(e, a)

DispatchInv ==
  /\ TypeOK /\ Unswitched
  /\ MarkersExplained /\ AckedExplained
  /\ \A w \in Workers : WorkerExplained(w)

\* A set of automations that is not empty has a first one.
LEMMA FirstIsThere ==
  ASSUME NEW w \in Workers, TypeOK, todo[w] # {}
  PROVE  First(w) \in todo[w] /\ First(w) \in Automations
<1>1. todo[w] \in SUBSET Automations
  BY DEF TypeOK, Handlers
<1>2. \E a \in todo[w] : \A b \in todo[w] : a <= b
  BY <1>1, DispatchAssumption
<1> QED BY <1>1, <1>2 DEF First

\* The guard key of a worker that has an event and an automation before it.
LEMMA KeyIsAPair ==
  ASSUME NEW w \in Workers, TypeOK, Busy(w), todo[w] # {}
  PROVE  Key(w) \in Pairs
<1>1. event[w] \in Events
  BY DEF TypeOK, Handlers, Busy
<1>2. First(w) \in Automations
  BY FirstIsThere
<1> QED BY <1>1, <1>2 DEF Key, Pairs

-----------------------------------------------------------------------------
(* The type invariant.                                                      *)
LEMMA TypeSplits == TypeOK => Shapes /\ Handlers /\ Counters
  BY DEF TypeOK

LEMMA TypeJoins == Shapes' /\ Handlers' /\ Counters' => TypeOK'
  BY DEF TypeOK

LEMMA FaultCounts ==
  ASSUME faults \in 0 .. MaxFaults, Fault
  PROVE  faults' \in 0 .. MaxFaults
  BY DispatchAssumption DEF Fault

\* The three ways a handler moves.
LEMMA GotoHandles ==
  ASSUME Handlers, NEW w \in Workers, NEW s \in Stages \ {"idle"}, Busy(w),
         s \in Holding \cup {"acquire"} => todo[w] # {},
         Goto(w, s), UNCHANGED <<event, todo>>
  PROVE  Handlers'
  BY DEF Handlers, Goto, Busy, Stages

LEMMA RestHandles ==
  ASSUME Handlers, NEW w \in Workers, Rest(w)
  PROVE  Handlers'
  BY DispatchAssumption DEF Handlers, Rest, Goto, Busy, Stages, Holding

LEMMA PassOnHandles ==
  ASSUME Handlers, NEW w \in Workers, Busy(w), PassOn(w), UNCHANGED event
  PROVE  Handlers'
<1>1. /\ stage' = [stage EXCEPT ![w] = "next"]
      /\ todo' \in [Workers -> SUBSET Automations]
      /\ \A v \in Workers \ {w} : todo'[v] = todo[v]
  BY DEF PassOn, Goto, Handlers
<1> QED BY <1>1 DEF Handlers, Busy, Stages, Holding

LEMMA TriesCount ==
  ASSUME tries \in [Workers -> 1 .. MaxAttempts], NEW w \in Workers, Rest(w)
  PROVE  tries' \in [Workers -> 1 .. MaxAttempts]
  BY DispatchAssumption DEF Rest

LEMMA TakeTyped ==
  ASSUME TypeOK, NEW w \in Workers, NEW e \in Events, Take(w, e)
  PROVE  TypeOK'
<1>1. Shapes'
  BY DEF TypeOK, Shapes, Take, adminVars, busVars, redisVars
<1>2. Handlers'
  <2>1. Handlers /\ ~ Busy(w)
    BY TypeSplits DEF Take
  <2>2. stage' = [stage EXCEPT ![w] = "list"] /\ event' = [event EXCEPT ![w] = e] /\ todo' = todo
    BY DEF Take, Goto
  <2> QED BY <2>1, <2>2 DEF Handlers, Busy, Stages, Holding
<1>3. Counters'
  BY FaultCounts DEF TypeOK, Counters, Take, adminVars
<1> QED BY <1>1, <1>2, <1>3, TypeJoins

\* A step of a handler that leaves the bus and the switches alone.
LEMMA HandleTyped ==
  ASSUME TypeOK, NEW w \in Workers, Handle(w)
  PROVE  TypeOK'
<1> USE TypeSplits
<1> DEFINE Still == UNCHANGED <<guarded, adminVars>>
<1>k. Busy(w) /\ todo[w] # {} => Key(w) \in Pairs
  BY KeyIsAPair
<1>h. Handlers /\ Shapes /\ Counters
  OBVIOUS
<1>1. CASE List(w)
  <2>1. Shapes'
    BY <1>1, <1>h DEF Shapes, List, adminVars, busVars, redisVars
  <2>2. Handlers'
    <3>1. stage[w] = "list" /\ event' = event
      BY <1>1 DEF List
    <3>2. /\ stage' = [stage EXCEPT ![w] = "next"]
          /\ todo' = [todo EXCEPT ![w] = enabled \cap Matches[event[w]]]
      BY <1>1 DEF List, Goto
    <3>3. enabled \cap Matches[event[w]] \in SUBSET Automations
      BY <1>h DEF Shapes
    <3>4. todo' \in [Workers -> SUBSET Automations] /\ \A v \in Workers \ {w} : todo'[v] = todo[v]
      BY <3>2, <3>3, <1>h DEF Handlers
    <3> QED BY <3>1, <3>2, <3>4, <1>h DEF Handlers, Busy, Stages, Holding
  <2>3. Counters'
    BY <1>1, <1>h DEF Counters, List, adminVars
  <2> QED BY <2>1, <2>2, <2>3, TypeJoins
<1>2. CASE ListFails(w)
  <2>1. Shapes'
    BY <1>2, <1>h DEF Shapes, ListFails, adminVars, busVars, redisVars
  <2>2. Handlers'
    BY <1>2, <1>h, GotoHandles DEF ListFails, Stages, Busy, Holding
  <2>3. Counters'
    BY <1>2, <1>h, FaultCounts DEF Counters, ListFails, adminVars
  <2> QED BY <2>1, <2>2, <2>3, TypeJoins
<1>3. CASE Check(w)
  <2>1. Shapes'
    BY <1>3, <1>h DEF Shapes, Check, adminVars, busVars, redisVars
  <2>2. Handlers'
    <3>1. Busy(w) /\ todo[w] # {} /\ event' = event
      BY <1>3 DEF Check, Busy
    <3>2. CASE PassOn(w)
      BY <1>h, <3>1, <3>2, PassOnHandles
    <3>3. CASE Goto(w, "sink") /\ UNCHANGED todo
      BY <1>h, <3>1, <3>3, GotoHandles DEF Stages
    <3>4. CASE Goto(w, "acquire") /\ UNCHANGED todo
      BY <1>h, <3>1, <3>4, GotoHandles DEF Stages
    <3> QED BY <1>3, <3>2, <3>3, <3>4 DEF Check
  <2>3. Counters'
    BY <1>3, <1>h DEF Counters, Check, adminVars
  <2> QED BY <2>1, <2>2, <2>3, TypeJoins
<1>4. CASE Acquire(w)
  <2>0. stage[w] = "acquire" /\ Busy(w) /\ todo[w] # {} /\ event' = event
    BY <1>4, <1>h DEF Acquire, Busy, Handlers
  <2>1. Shapes'
    BY <1>4, <1>h, <1>k, <2>0 DEF Shapes, Acquire, adminVars, busVars
  <2>2. Handlers'
    <3>1. CASE PassOn(w)
      BY <1>h, <2>0, <3>1, PassOnHandles
    <3>2. CASE Goto(w, "sink") /\ UNCHANGED todo
      BY <1>h, <2>0, <3>2, GotoHandles DEF Stages
    <3> QED BY <1>4, <3>1, <3>2 DEF Acquire
  <2>3. Counters'
    BY <1>4, <1>h DEF Counters, Acquire, adminVars
  <2> QED BY <2>1, <2>2, <2>3, TypeJoins
<1>5. CASE LookupFails(w)
  <2>0. Busy(w) /\ todo[w] # {} /\ event' = event /\ todo' = todo
    BY <1>5 DEF LookupFails, Busy
  <2>1. Shapes'
    BY <1>5, <1>h, <1>k, <2>0 DEF Shapes, LookupFails, adminVars, busVars
  <2>2. Handlers'
    <3>1. Goto(w, "failed")
      BY <1>5 DEF LookupFails
    <3> QED BY <1>h, <2>0, <3>1, GotoHandles DEF Stages, Holding
  <2>3. Counters'
    BY <1>5, <1>h, FaultCounts DEF Counters, LookupFails, adminVars
  <2> QED BY <2>1, <2>2, <2>3, TypeJoins
<1>6. CASE Fire(w)
  <2>0. Busy(w) /\ todo[w] # {} /\ event' = event /\ todo' = todo
    BY <1>6, <1>h DEF Fire, Busy, Handlers, Holding
  <2>1. Shapes'
    BY <1>6, <1>h, <1>k, <2>0 DEF Shapes, Fire, adminVars, busVars, redisVars
  <2>2. Handlers'
    <3>1. Goto(w, "settle") \/ Goto(w, "mark")
      BY <1>6 DEF Fire
    <3>2. CASE Goto(w, "settle")
      BY <1>h, <2>0, <3>2, GotoHandles DEF Stages
    <3>3. CASE Goto(w, "mark")
      BY <1>h, <2>0, <3>3, GotoHandles DEF Stages
    <3> QED BY <3>1, <3>2, <3>3
  <2>3. Counters'
    BY <1>6, <1>h DEF Counters, Fire, adminVars
  <2> QED BY <2>1, <2>2, <2>3, TypeJoins
<1>7. CASE FireFails(w)
  <2>0. Busy(w) /\ todo[w] # {} /\ event' = event /\ todo' = todo
    BY <1>7, <1>h DEF FireFails, Busy, Handlers, Holding
  <2>1. Shapes'
    BY <1>7, <1>h, <1>k, <2>0 DEF Shapes, FireFails, adminVars, busVars, redisVars
  <2>2. Handlers'
    <3>1. Goto(w, "undo")
      BY <1>7 DEF FireFails
    <3> QED BY <1>h, <2>0, <3>1, GotoHandles DEF Stages
  <2>3. Counters'
    BY <1>7, <1>h, FaultCounts DEF Counters, FireFails, adminVars
  <2> QED BY <2>1, <2>2, <2>3, TypeJoins
<1>8. CASE MarkProcessed(w)
  <2>0. Busy(w) /\ todo[w] # {} /\ event' = event /\ PassOn(w)
    BY <1>8, <1>h DEF MarkProcessed, Busy, Handlers, Holding
  <2>1. Shapes'
    BY <1>8, <1>h, <1>k, <2>0 DEF Shapes, MarkProcessed, adminVars, busVars, redisVars
  <2>2. Handlers'
    BY <1>h, <2>0, PassOnHandles
  <2>3. Counters'
    BY <1>8, <1>h DEF Counters, MarkProcessed, adminVars
  <2> QED BY <2>1, <2>2, <2>3, TypeJoins
<1>9. CASE MarkFails(w)
  <2>0. Busy(w) /\ event' = event /\ (PassOn(w) \/ (Goto(w, "failed") /\ todo' = todo))
    BY <1>9 DEF MarkFails, Busy
  <2>1. Shapes'
    BY <1>9, <1>h DEF Shapes, MarkFails, adminVars, busVars, redisVars
  <2>2. Handlers'
    <3>1. CASE PassOn(w)
      BY <1>h, <2>0, <3>1, PassOnHandles
    <3>2. CASE Goto(w, "failed") /\ todo' = todo
      BY <1>h, <2>0, <3>2, GotoHandles DEF Stages, Holding
    <3> QED BY <2>0, <3>1, <3>2
  <2>3. Counters'
    BY <1>9, <1>h, FaultCounts DEF Counters, MarkFails, adminVars
  <2> QED BY <2>1, <2>2, <2>3, TypeJoins
<1>10. CASE Release(w)
  <2>0. Busy(w) /\ event' = event /\ Goto(w, "failed") /\ todo' = todo
    BY <1>10 DEF Release, Busy
  <2>1. Shapes'
    BY <1>10, <1>h DEF Shapes, Release, adminVars, busVars
  <2>2. Handlers'
    BY <1>h, <2>0, GotoHandles DEF Stages, Holding
  <2>3. Counters'
    BY <1>10, <1>h, FaultCounts DEF Counters, Release, adminVars
  <2> QED BY <2>1, <2>2, <2>3, TypeJoins
<1>11. CASE Ack(w)
  <2>1. Shapes'
    <3>1. event[w] \in Events
      BY <1>11, <1>h DEF Ack, Handlers, Busy
    <3> QED BY <1>11, <1>h, <3>1 DEF Shapes, Ack, adminVars, redisVars
  <2>2. Handlers'
    BY <1>11, <1>h, RestHandles DEF Ack
  <2>3. Counters'
    BY <1>11, <1>h, TriesCount DEF Counters, Ack, adminVars
  <2> QED BY <2>1, <2>2, <2>3, TypeJoins
<1>12. CASE Retry(w)
  <2>1. Shapes'
    BY <1>12, <1>h DEF Shapes, Retry, adminVars, busVars, redisVars
  <2>2. Handlers'
    <3>1. Busy(w) /\ Goto(w, "list") /\ UNCHANGED <<event, todo>>
      BY <1>12 DEF Retry, Busy
    <3> QED BY <1>h, <3>1, GotoHandles DEF Stages, Holding
  <2>3. Counters'
    <3>1. tries[w] + 1 \in 1 .. MaxAttempts
      BY <1>12, <1>h, DispatchAssumption DEF Retry, Counters
    <3> QED BY <1>12, <1>h, <3>1 DEF Counters, Retry, adminVars
  <2> QED BY <2>1, <2>2, <2>3, TypeJoins
<1>13. CASE DeadLetter(w)
  <2>1. Shapes'
    <3>1. event[w] \in Events
      BY <1>13, <1>h DEF DeadLetter, Handlers, Busy
    <3> QED BY <1>13, <1>h, <3>1 DEF Shapes, DeadLetter, adminVars, redisVars
  <2>2. Handlers'
    BY <1>13, <1>h, RestHandles DEF DeadLetter
  <2>3. Counters'
    BY <1>13, <1>h, TriesCount, FaultCounts DEF Counters, DeadLetter, adminVars
  <2> QED BY <2>1, <2>2, <2>3, TypeJoins
<1> QED BY <1>1, <1>2, <1>3, <1>4, <1>5, <1>6, <1>7, <1>8, <1>9, <1>10, <1>11, <1>12, <1>13
     DEF Handle, Dispatch

LEMMA TypeStep ==
  ASSUME TypeOK, [Next]_vars
  PROVE  TypeOK'
<1>h. Handlers /\ Shapes /\ Counters
  BY TypeSplits
<1>1. ASSUME NEW w \in Workers, Handle(w) PROVE TypeOK'
  BY <1>1, HandleTyped
<1>2. ASSUME NEW w \in Workers, NEW e \in Events, Take(w, e) PROVE TypeOK'
  BY <1>2, TakeTyped
<1>3. ASSUME NEW w \in Workers, Crash(w) PROVE TypeOK'
  <2>1. Shapes'
    BY <1>3, <1>h DEF Shapes, Crash, adminVars, busVars, redisVars
  <2>2. Handlers'
    BY <1>3, <1>h, RestHandles DEF Crash
  <2>3. Counters'
    BY <1>3, <1>h, TriesCount, FaultCounts DEF Counters, Crash, adminVars
  <2> QED BY <2>1, <2>2, <2>3, TypeJoins
<1>4. ASSUME NEW k \in Pairs, LockExpires(k) \/ MarkerExpires(k) PROVE TypeOK'
  <2>1. Shapes'
    BY <1>4, <1>h DEF Shapes, LockExpires, MarkerExpires, adminVars, busVars
  <2>2. Handlers'
    BY <1>4, <1>h DEF Handlers, LockExpires, MarkerExpires, workerVars, Busy
  <2>3. Counters'
    BY <1>4, <1>h, FaultCounts DEF Counters, LockExpires, MarkerExpires, workerVars, adminVars
  <2> QED BY <2>1, <2>2, <2>3, TypeJoins
<1>5. ASSUME NEW a \in Automations, Toggle(a) PROVE TypeOK'
  <2>1. Shapes'
    BY <1>5, <1>h DEF Shapes, Toggle, busVars, redisVars
  <2>2. Handlers'
    BY <1>5, <1>h DEF Handlers, Toggle, workerVars, Busy
  <2>3. Counters'
    BY <1>5, <1>h, DispatchAssumption DEF Counters, Toggle, workerVars
  <2> QED BY <2>1, <2>2, <2>3, TypeJoins
<1>6. CASE UNCHANGED vars
  <2>1. Shapes'
    BY <1>6, <1>h DEF Shapes, vars, adminVars, busVars, redisVars
  <2>2. Handlers'
    BY <1>6, <1>h DEF Handlers, vars, workerVars, Busy
  <2>3. Counters'
    BY <1>6, <1>h DEF Counters, vars, workerVars, adminVars
  <2> QED BY <2>1, <2>2, <2>3, TypeJoins
<1> QED BY <1>1, <1>2, <1>3, <1>4, <1>5, <1>6 DEF Next

LEMMA TypeInit == Init => TypeOK
  BY DispatchAssumption DEF Init, TypeOK, Shapes, Handlers, Counters, Stages, Busy, Holding

\* The type invariant (the state of trigger.go, event_source.go, idempotency.go
\* and of the rows of automation_runs).
THEOREM TypeCorrect == Spec => []TypeOK
<1> QED BY TypeInit, TypeStep, PTL DEF Spec

-----------------------------------------------------------------------------
\* A reason once there stays: rows and switches are never taken back.
Grows == /\ runs \subseteq runs' /\ refused \subseteq refused'
         /\ skipped \subseteq skipped' /\ toggled \subseteq toggled'

\* Explained after the step, of an event and an automation named before it.
ExplainedNext(e, a) ==
  \/ <<e, a>> \in runs' \cup refused' \cup skipped'
  \/ a \in toggled'
  \/ a \notin Matches[e] \cap Selects[e]

LEMMA ExplainedStays ==
  ASSUME NEW e, NEW a, Explained(e, a), Grows
  PROVE  ExplainedNext(e, a)
  BY DEF Explained, ExplainedNext, Grows

LEMMA HandleGrows ==
  ASSUME NEW w \in Workers, Handle(w)
  PROVE  Grows
  BY DEF Grows, Handle, Dispatch, List, ListFails, Check, Acquire, LookupFails, Fire, FireFails,
         MarkProcessed, MarkFails, Release, Ack, Retry, DeadLetter, adminVars, redisVars

\* A worker a step does not touch.
LEMMA OthersExplained ==
  ASSUME NEW v, WorkerExplained(v), Grows,
         stage'[v] = stage[v], event'[v] = event[v], todo'[v] = todo[v]
  PROVE  WorkerExplained(v)'
<1>1. First(v)' = First(v)
  BY DEF First
<1>2. stage'[v] \in {"mark", "settle"} => ExplainedNext(event[v], First(v))
  BY <1>1, ExplainedStays DEF WorkerExplained
<1>3. ASSUME stage'[v] \in Looping, NEW a \in Automations \ todo'[v]
      PROVE  ExplainedNext(event[v], a)
  <2>1. Explained(event[v], a)
    BY <1>3 DEF WorkerExplained
  <2> QED BY <2>1, ExplainedStays
<1> QED BY <1>1, <1>2, <1>3 DEF WorkerExplained, Explained, ExplainedNext

\* A worker that is done with its first automation.
LEMMA PassOnExplains ==
  ASSUME TypeOK, NEW w \in Workers, WorkerExplained(w), stage[w] \in Looping, PassOn(w),
         UNCHANGED event, Grows, ExplainedNext(event[w], First(w))
  PROVE  WorkerExplained(w)'
<1>1. stage'[w] = "next" /\ todo'[w] = todo[w] \ {First(w)} /\ event'[w] = event[w]
  BY DEF TypeOK, Handlers, PassOn, Goto
<1>2. ASSUME NEW a \in Automations \ todo'[w]
      PROVE  ExplainedNext(event[w], a)
  <2>1. CASE a = First(w)
    BY <2>1
  <2>2. CASE a # First(w)
    <3>1. Explained(event[w], a)
      BY <1>1, <1>2, <2>2 DEF WorkerExplained
    <3> QED BY <3>1, ExplainedStays
  <2> QED BY <2>1, <2>2
<1> QED BY <1>1, <1>2 DEF WorkerExplained, Explained, ExplainedNext

\* A worker that moves on within one automation.
LEMMA GotoExplains ==
  ASSUME TypeOK, NEW w \in Workers, NEW s \in Stages, WorkerExplained(w), Goto(w, s),
         UNCHANGED <<event, todo>>, Grows,
         stage[w] \in Looping \/ s \notin Looping,
         s \in {"mark", "settle"} => ExplainedNext(event[w], First(w))
  PROVE  WorkerExplained(w)'
<1>1. stage'[w] = s /\ todo'[w] = todo[w] /\ event'[w] = event[w]
  BY DEF TypeOK, Handlers, Goto
<1>2. First(w)' = First(w)
  BY <1>1 DEF First
<1>3. ASSUME s \in Looping, NEW a \in Automations \ todo[w]
      PROVE  ExplainedNext(event[w], a)
  <2>1. Explained(event[w], a)
    BY <1>3 DEF WorkerExplained
  <2> QED BY <2>1, ExplainedStays
<1> QED BY <1>1, <1>2, <1>3 DEF WorkerExplained, Explained, ExplainedNext, Looping

\* A worker that is at rest, or about to read the list.
LEMMA OutOfLoopExplained ==
  ASSUME NEW w, stage'[w] \notin Looping
  PROVE  WorkerExplained(w)'
  BY DEF WorkerExplained, Looping

LEMMA RestExplains ==
  ASSUME TypeOK, NEW w \in Workers, Rest(w)
  PROVE  WorkerExplained(w)'
<1>1. stage'[w] = "idle"
  BY DEF TypeOK, Handlers, Rest, Goto
<1> QED BY <1>1, OutOfLoopExplained DEF Looping

\* What the worker of a step knows of its own event after it.
LEMMA HandleExplainsWorker ==
  ASSUME DispatchInv, NEW w \in Workers, Handle(w)
  PROVE  WorkerExplained(w)'
<1>t. /\ TypeOK /\ WorkerExplained(w) /\ Grows
      /\ Unswitched /\ MarkersExplained
  BY HandleGrows DEF DispatchInv
<1>f. Busy(w) /\ todo[w] # {} => event[w] \in Events /\ First(w) \in Automations
  BY <1>t, FirstIsThere DEF TypeOK, Handlers, Busy
<1>e. event[w] \in Events => Matches[event[w]] \subseteq Automations
  BY DispatchAssumption
<1>1. CASE List(w)
  <2>1. /\ stage'[w] = "next" /\ event'[w] = event[w]
        /\ todo'[w] = enabled \cap Matches[event[w]]
        /\ toggled' = toggled
    BY <1>1, <1>t DEF List, Goto, TypeOK, Handlers, adminVars
  <2>2. \A a \in Automations \ todo'[w] : a \in toggled' \/ a \notin Matches[event'[w]]
    BY <2>1, <1>t DEF Unswitched
  <2> QED BY <2>1, <2>2 DEF WorkerExplained, Explained, ExplainedNext
<1>2. CASE ListFails(w)
  <2>1. stage'[w] = "failed"
    BY <1>2, <1>t DEF ListFails, Goto, TypeOK, Handlers
  <2> QED BY <2>1, OutOfLoopExplained DEF Looping
<1>3. CASE Check(w)
  <2>0. stage[w] = "next" /\ todo[w] # {} /\ event' = event /\ Busy(w) /\ stage[w] \in Looping
    BY <1>3 DEF Check, Busy, Looping
  <2>1. CASE Key(w) \in processed /\ PassOn(w)
    <3>1. Explained(event[w], First(w))
      BY <2>0, <2>1, <1>t, <1>f DEF MarkersExplained, Key
    <3>2. ExplainedNext(event[w], First(w))
      BY <3>1, <1>t, ExplainedStays
    <3> QED BY <2>0, <2>1, <3>2, <1>t, PassOnExplains
  <2>2. CASE \E s \in {"sink", "acquire"} : Goto(w, s) /\ UNCHANGED todo
    BY <2>0, <2>2, <1>t, GotoExplains DEF Stages
  <2> QED BY <1>3, <2>1, <2>2 DEF Check
<1>4. CASE Acquire(w)
  <2>0. stage[w] \in Looping /\ event' = event
    BY <1>4 DEF Acquire, Looping
  <2>1. CASE PassOn(w) /\ skipped' = skipped \cup {Key(w)}
    <3>1. ExplainedNext(event[w], First(w))
      BY <2>1 DEF ExplainedNext, Key
    <3> QED BY <2>0, <2>1, <3>1, <1>t, PassOnExplains
  <2>2. CASE Goto(w, "sink") /\ UNCHANGED <<todo, skipped>>
    BY <2>0, <2>2, <1>t, GotoExplains DEF Stages
  <2> QED BY <1>4, <2>1, <2>2 DEF Acquire
<1>5. CASE LookupFails(w)
  <2>1. stage'[w] = "failed"
    BY <1>5, <1>t DEF LookupFails, Goto, TypeOK, Handlers
  <2> QED BY <2>1, OutOfLoopExplained DEF Looping
<1>6. CASE Fire(w)
  <2>0. stage[w] = "sink" /\ stage[w] \in Looping /\ UNCHANGED <<event, todo, toggled>>
    BY <1>6 DEF Fire, Looping, adminVars
  <2>1. First(w) \in Automations
    BY <2>0, <1>f, <1>t DEF Busy, TypeOK, Handlers, Holding
  <2>2. ExplainedNext(event[w], First(w))
    <3>1. CASE Wanted(w)
      BY <1>6, <3>1 DEF Fire, ExplainedNext, Key
    <3>2. CASE ~ Wanted(w) /\ First(w) \notin enabled
      BY <2>0, <2>1, <3>2, <1>t DEF ExplainedNext, Unswitched
    <3>3. CASE ~ Wanted(w) /\ First(w) \in enabled
      BY <3>3 DEF Wanted, ExplainedNext
    <3> QED BY <3>1, <3>2, <3>3
  <2>3. Goto(w, "settle") \/ Goto(w, "mark")
    BY <1>6 DEF Fire
  <2> QED BY <2>0, <2>2, <2>3, <1>t, GotoExplains DEF Stages
<1>7. CASE FireFails(w)
  <2>1. stage[w] \in Looping /\ Goto(w, "undo") /\ UNCHANGED <<event, todo>>
    BY <1>7 DEF FireFails, Looping
  <2> QED BY <2>1, <1>t, GotoExplains DEF Stages
<1>8. CASE MarkProcessed(w) \/ (MarkFails(w) /\ PassOn(w))
  <2>1. CASE stage[w] \in {"mark", "settle"} /\ PassOn(w) /\ event' = event
    <3>1. stage[w] \in Looping /\ ExplainedNext(event[w], First(w))
      BY <2>1, <1>t, ExplainedStays DEF WorkerExplained, Looping
    <3> QED BY <2>1, <3>1, <1>t, PassOnExplains
  <2> QED BY <1>8, <2>1 DEF MarkProcessed, MarkFails
<1>9. CASE (MarkFails(w) /\ Goto(w, "failed")) \/ Release(w)
  <2>1. stage'[w] = "failed"
    BY <1>9, <1>t DEF MarkFails, Release, Goto, TypeOK, Handlers
  <2> QED BY <2>1, OutOfLoopExplained DEF Looping
<1>10. CASE Ack(w) \/ DeadLetter(w)
  BY <1>10, <1>t, RestExplains DEF Ack, DeadLetter
<1>11. CASE Retry(w)
  <2>1. stage'[w] = "list"
    BY <1>11, <1>t DEF Retry, Goto, TypeOK, Handlers
  <2> QED BY <2>1, OutOfLoopExplained DEF Looping
<1> QED BY <1>1, <1>2, <1>3, <1>4, <1>5, <1>6, <1>7, <1>8, <1>9, <1>10, <1>11
     DEF Handle, Dispatch, MarkFails

\* The other workers of a step of one handler.
LEMMA HandleKeepsOthers ==
  ASSUME TypeOK, NEW w \in Workers, NEW v \in Workers \ {w}, Handle(w)
  PROVE  stage'[v] = stage[v] /\ event'[v] = event[v] /\ todo'[v] = todo[v]
  BY DEF TypeOK, Handlers, Handle, Dispatch, List, ListFails, Check, Acquire, LookupFails, Fire,
         FireFails, MarkProcessed, MarkFails, Release, Ack, Retry, DeadLetter, Goto, Rest, PassOn

\* Markers are set for what is explained.
LEMMA HandleExplainsMarkers ==
  ASSUME DispatchInv, NEW w \in Workers, Handle(w)
  PROVE  MarkersExplained'
<1>t. Grows /\ MarkersExplained /\ WorkerExplained(w) /\ TypeOK
  BY HandleGrows DEF DispatchInv
<1>1. processed' \subseteq processed \/ (MarkProcessed(w) /\ processed' = processed \cup {Key(w)})
  BY DEF Handle, Dispatch, List, ListFails, Check, Acquire, LookupFails, Fire, FireFails,
         MarkProcessed, MarkFails, Release, Ack, Retry, DeadLetter, redisVars
<1>2. ASSUME NEW e \in Events, NEW a \in Automations, <<e, a>> \in processed'
      PROVE  ExplainedNext(e, a)
  <2>1. CASE <<e, a>> \in processed
    BY <2>1, <1>t, ExplainedStays DEF MarkersExplained
  <2>2. CASE MarkProcessed(w) /\ <<e, a>> = Key(w)
    <3>1. Explained(event[w], First(w)) /\ e = event[w] /\ a = First(w)
      BY <2>2, <1>t DEF MarkProcessed, WorkerExplained, Key
    <3> QED BY <3>1, <1>t, ExplainedStays
  <2> QED BY <1>1, <1>2, <2>1, <2>2
<1> QED BY <1>2 DEF MarkersExplained, Explained, ExplainedNext

\* An event is acknowledged when nothing of it is left to do.
LEMMA HandleExplainsAcked ==
  ASSUME DispatchInv, NEW w \in Workers, Handle(w)
  PROVE  AckedExplained'
<1>t. Grows /\ AckedExplained /\ WorkerExplained(w) /\ TypeOK
  BY HandleGrows DEF DispatchInv
<1>1. acked' = acked \/ (Ack(w) /\ acked' = acked \cup {event[w]})
  BY DEF Handle, Dispatch, List, ListFails, Check, Acquire, LookupFails, Fire, FireFails,
         MarkProcessed, MarkFails, Release, Ack, Retry, DeadLetter, busVars
<1>2. ASSUME NEW e \in acked', NEW a \in Automations
      PROVE  ExplainedNext(e, a)
  <2>1. CASE e \in acked
    BY <2>1, <1>t, ExplainedStays DEF AckedExplained
  <2>2. CASE Ack(w) /\ e = event[w]
    <3>1. Explained(event[w], a)
      BY <2>2, <1>t DEF Ack, WorkerExplained, Looping
    <3> QED BY <3>1, <2>2, <1>t, ExplainedStays
  <2> QED BY <1>1, <1>2, <2>1, <2>2
<1> QED BY <1>2 DEF AckedExplained, Explained, ExplainedNext

-----------------------------------------------------------------------------
LEMMA InvInit == Init => DispatchInv
<1>1. Init => Unswitched /\ MarkersExplained /\ AckedExplained
  BY DEF Init, Unswitched, MarkersExplained, AckedExplained
<1>2. Init => \A w \in Workers : WorkerExplained(w)
  BY DEF Init, WorkerExplained, Looping
<1> QED BY <1>1, <1>2, TypeInit DEF DispatchInv

LEMMA InvHandle ==
  ASSUME DispatchInv, NEW w \in Workers, Handle(w)
  PROVE  DispatchInv'
<1>t. TypeOK /\ Grows /\ Unswitched
  BY HandleGrows DEF DispatchInv
<1>1. TypeOK'
  BY <1>t, HandleTyped
<1>2. Unswitched'
  <2>1. enabled' = enabled /\ toggled' = toggled
    BY DEF Handle, Dispatch, List, ListFails, Check, Acquire, LookupFails, Fire, FireFails,
           MarkProcessed, MarkFails, Release, Ack, Retry, DeadLetter, adminVars
  <2> QED BY <2>1, <1>t DEF Unswitched
<1>3. ASSUME NEW v \in Workers PROVE WorkerExplained(v)'
  <2>1. CASE v = w
    BY <2>1, HandleExplainsWorker
  <2>2. CASE v # w
    <3>1. WorkerExplained(v)
      BY DEF DispatchInv
    <3> QED BY <2>2, <3>1, <1>t, HandleKeepsOthers, OthersExplained
  <2> QED BY <2>1, <2>2
<1> QED BY <1>1, <1>2, <1>3, HandleExplainsMarkers, HandleExplainsAcked DEF DispatchInv

\* A step of the bus, of Redis or of an administrator: nothing is marked or
\* acknowledged, and a worker it touches is out of its loop.
LEMMA InvOutside ==
  ASSUME DispatchInv, TypeOK', Unswitched', Grows, acked' = acked, processed' \subseteq processed,
         \A w \in Workers : \/ stage'[w] \notin Looping
                            \/ /\ stage'[w] = stage[w] /\ event'[w] = event[w]
                               /\ todo'[w] = todo[w]
  PROVE  DispatchInv'
<1>1. ASSUME NEW v \in Workers PROVE WorkerExplained(v)'
  <2>1. WorkerExplained(v)
    BY DEF DispatchInv
  <2>2. CASE stage'[v] \notin Looping
    BY <2>2, OutOfLoopExplained
  <2>3. CASE stage'[v] = stage[v] /\ event'[v] = event[v] /\ todo'[v] = todo[v]
    BY <2>1, <2>3, OthersExplained
  <2> QED BY <2>2, <2>3
<1>2. ASSUME NEW e \in Events, NEW a \in Automations, <<e, a>> \in processed'
      PROVE  ExplainedNext(e, a)
  BY <1>2, ExplainedStays DEF DispatchInv, MarkersExplained
<1>3. ASSUME NEW e \in acked', NEW a \in Automations
      PROVE  ExplainedNext(e, a)
  BY <1>3, ExplainedStays DEF DispatchInv, AckedExplained
<1>4. MarkersExplained'
  BY <1>2 DEF MarkersExplained, Explained, ExplainedNext
<1>5. AckedExplained'
  BY <1>3 DEF AckedExplained, Explained, ExplainedNext
<1> QED BY <1>1, <1>4, <1>5 DEF DispatchInv

LEMMA InvStep ==
  ASSUME DispatchInv, [Next]_vars
  PROVE  DispatchInv'
<1>t. TypeOK /\ TypeOK' /\ Unswitched
  BY TypeStep DEF DispatchInv
<1>1. ASSUME NEW w \in Workers, Handle(w) PROVE DispatchInv'
  BY <1>1, InvHandle
<1>2. ASSUME NEW w \in Workers, NEW e \in Events, Take(w, e) PROVE DispatchInv'
  <2>1. Unswitched' /\ Grows /\ acked' = acked /\ processed' \subseteq processed
    BY <1>2, <1>t DEF Take, Unswitched, Grows, adminVars, busVars, redisVars
  <2>2. \A v \in Workers : \/ stage'[v] \notin Looping
                           \/ stage'[v] = stage[v] /\ event'[v] = event[v] /\ todo'[v] = todo[v]
    BY <1>2, <1>t DEF Take, Goto, Looping, TypeOK, Handlers
  <2> QED BY <2>1, <2>2, <1>t, InvOutside
<1>3. ASSUME NEW w \in Workers, Crash(w) PROVE DispatchInv'
  <2>1. Unswitched' /\ Grows /\ acked' = acked /\ processed' \subseteq processed
    BY <1>3, <1>t DEF Crash, Unswitched, Grows, adminVars, busVars, redisVars
  <2>2. \A v \in Workers : \/ stage'[v] \notin Looping
                           \/ stage'[v] = stage[v] /\ event'[v] = event[v] /\ todo'[v] = todo[v]
    BY <1>3, <1>t DEF Crash, Rest, Goto, Looping, TypeOK, Handlers
  <2> QED BY <2>1, <2>2, <1>t, InvOutside
<1>4. CASE \/ \E k \in Pairs : LockExpires(k) \/ MarkerExpires(k)
           \/ \E a \in Automations : Toggle(a)
           \/ UNCHANGED vars
  <2>1. Grows /\ acked' = acked /\ processed' \subseteq processed
    BY <1>4 DEF LockExpires, MarkerExpires, Toggle, vars, Grows, adminVars, busVars, redisVars
  <2>2. Unswitched'
    <3>1. CASE \E a \in Automations : Toggle(a)
      BY <3>1, <1>t DEF Toggle, Unswitched
    <3>2. CASE enabled' = enabled /\ toggled' = toggled
      BY <3>2, <1>t DEF Unswitched
    <3> QED BY <1>4, <3>1, <3>2 DEF LockExpires, MarkerExpires, vars, adminVars
  <2>3. stage' = stage /\ event' = event /\ todo' = todo
    BY <1>4 DEF LockExpires, MarkerExpires, Toggle, vars, workerVars
  <2> QED BY <2>1, <2>2, <2>3, <1>t, InvOutside
<1> QED BY <1>1, <1>2, <1>3, <1>4 DEF Next

\* An event is acknowledged only when each automation it should have fired has
\* its run, was refused one, or was left to a lock (HandleEvent, Dispatch).
THEOREM FiredIsExplained == Spec => []FiredOrExplained
<1>1. DispatchInv => FiredOrExplained
  <2>1. ASSUME DispatchInv, NEW e \in acked, NEW a \in Owed(e)
        PROVE  Fired(e, a) \/ <<e, a>> \in refused \cup skipped
    <3>1. e \in Events /\ a \in Automations
      BY <2>1, DispatchAssumption DEF DispatchInv, TypeOK, Shapes, Owed
    <3> QED BY <2>1, <3>1 DEF DispatchInv, AckedExplained, Explained, Owed, Fired
  <2> QED BY <2>1 DEF FiredOrExplained
<1> QED BY InvInit, InvStep, <1>1, PTL DEF Spec
=============================================================================
