---------------------------- MODULE EventDelivery ----------------------------
(***************************************************************************)
(* What the transactional outbox (backend/internal/events/outbox) promises *)
(* its writers, whatever its relays do: events are staged by whole         *)
(* transactions, the bus sees staged events only, as often as it takes,    *)
(* and an event leaves the outbox only once the bus has it.  An event that *)
(* is parked stays visible, and every other one reaches the bus.           *)
(***************************************************************************)
EXTENDS Sequences, Integers

CONSTANT Events

VARIABLES
    place,  \* where each event is
    log     \* what the bus has accepted, in order

vars == <<place, log>>

Places == {"unstaged", "open", "parked", "gone"}

OnBus(e) == \E i \in 1..Len(log) : log[i] = e

Init == place = [e \in Events |-> "unstaged"] /\ log = <<>>

Move(es, from, to) ==
    /\ \A e \in es : place[e] = from
    /\ place' = [e \in Events |-> IF e \in es THEN to ELSE place[e]]
    /\ UNCHANGED log

\* A transaction stages its events, all or none.
Stage(es) == Move(es, "unstaged", "open")

\* The bus accepts a staged event, not necessarily for the first time.
Deliver(e) ==
    /\ place[e] # "unstaged"
    /\ log' = Append(log, e)
    /\ UNCHANGED place

\* An event is given up on, or taken up again.
Park(e)   == Move({e}, "open", "parked")
Revive(e) == Move({e}, "parked", "open")

\* Events the bus has are forgotten.
Retire(es) == (\A e \in es : OnBus(e)) /\ Move(es, "open", "gone")

Next ==
    \/ \E es \in SUBSET Events : Stage(es) \/ Retire(es)
    \/ \E e \in Events : Deliver(e) \/ Park(e) \/ Revive(e)

\* An event the bus does not have is delivered or parked.
Serve(e) == place[e] = "open" /\ ~OnBus(e) /\ (Deliver(e) \/ Park(e))

Safety == Init /\ [][Next]_vars

Spec == Safety /\ \A e \in Events : WF_vars(Serve(e))
=============================================================================
