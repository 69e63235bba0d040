-------------------------------- MODULE Decide --------------------------------
(***************************************************************************)
(* decide.c: the supervisor's one decision, a pure function of the facts   *)
(* nw-sup knows when it asks.  The exit status is reduced to the only      *)
(* thing the function reads from it: exit0 stands for                      *)
(* WIFEXITED(st) && WEXITSTATUS(st) == 0.                                  *)
(***************************************************************************)
EXTENDS Integers

\* enum nw_decision.
Decisions == {"FORK", "WAIT", "IDLE", "RESTART", "SPENT",
              "EXIT_SUP", "TERM_CHILD"}

\* stopping is set: end a live child, otherwise leave.
DecideStopping(has_child, child_exited) ==
  IF has_child /\ ~child_exited THEN "TERM_CHILD" ELSE "EXIT_SUP"

\* Mutant: a budget of n grants n + 1 restarts.
DecideExited_Generous(lock, complete_on_0, stop_requested, exit0, deaths, budget) ==
  IF stop_requested THEN "IDLE"
  ELSE IF complete_on_0 /\ exit0 THEN "EXIT_SUP"
  ELSE IF ~lock THEN "IDLE"
  ELSE IF deaths > budget THEN "SPENT" ELSE "RESTART"

\* Mutant: the budget is consulted before the STOP is.
DecideExited_BudgetFirst(lock, complete_on_0, stop_requested, exit0, deaths, budget) ==
  IF complete_on_0 /\ exit0 THEN "EXIT_SUP"
  ELSE IF ~lock THEN "IDLE"
  ELSE IF deaths >= budget THEN "SPENT" ELSE "RESTART"

\* The child has been reaped: STOP first, then a oneshot's clean end, then
\* the lock, and only then the budget.
DecideExited(lock, complete_on_0, stop_requested, exit0, deaths, budget) ==
  IF stop_requested THEN "IDLE"
  ELSE IF complete_on_0 /\ exit0 THEN "EXIT_SUP"
  ELSE IF ~lock THEN "IDLE"
  ELSE IF deaths >= budget THEN "SPENT" ELSE "RESTART"

\* No child: an unlocked house waits to be asked, a locked one starts.
DecideChildless(lock, start_requested) ==
  IF ~lock /\ ~start_requested THEN "IDLE" ELSE "FORK"

\* Mutant: a death is judged before the shutdown is looked at.
NwDecide_LateStopping(lock, complete_on_0, stopping, stop_requested, start_requested, has_child, child_exited, exit0, deaths, budget) ==
  IF has_child /\ child_exited
  THEN DecideExited(lock, complete_on_0, stop_requested, exit0, deaths, budget)
  ELSE IF stopping THEN DecideStopping(has_child, child_exited)
  ELSE IF ~has_child THEN DecideChildless(lock, start_requested)
  ELSE IF stop_requested THEN "TERM_CHILD" ELSE "WAIT"

NwDecide(lock, complete_on_0, stopping, stop_requested, start_requested, has_child, child_exited, exit0, deaths, budget) ==
  IF stopping THEN DecideStopping(has_child, child_exited)
  ELSE IF ~has_child THEN DecideChildless(lock, start_requested)
  ELSE IF child_exited THEN DecideExited(lock, complete_on_0, stop_requested,
                                         exit0, deaths, budget)
  ELSE IF stop_requested THEN "TERM_CHILD" ELSE "WAIT"
===============================================================================
