-------------------------- MODULE MCAutomationRun --------------------------
(* Small instances of AutomationRun for TLC.  Events and handlers are
   interchangeable. *)
EXTENDS AutomationRun, TLC

Symmetry == Permutations(Events) \cup Permutations(Handlers)
=============================================================================
