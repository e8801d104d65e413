-------------------------- MODULE MCTriggerDispatch --------------------------
EXTENDS TriggerDispatch, TLC

(* One event two automations should fire on, and one on which the rules of  *)
(* the second select nothing.                                               *)
CONSTANTS twin, single
MCMatches == (twin :> {1, 2}) @@ (single :> {1, 2})
MCSelects == (twin :> {1, 2}) @@ (single :> {1})
==============================================================================
