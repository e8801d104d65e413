--------------------------- MODULE MCAutomationRun ---------------------------
(* Model checking of AutomationRun: the runbook of the runs.               *)
EXTENDS AutomationRun

MCRunbook == <<"gate", "action", "gate">>
=============================================================================
