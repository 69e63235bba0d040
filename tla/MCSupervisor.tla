----------------------------- MODULE MCSupervisor -----------------------------
(***************************************************************************)
(* Small instances of Supervisor.  Each set of units fixes what its runs   *)
(* do not vary.                                                            *)
(***************************************************************************)
EXTENDS SupervisorProps

MCUnit(locks, kinds, budgets, graces, caughts, stubborns) ==
  [lock : locks, oneshot : kinds, budget : budgets, grace : graces,
   caught : caughts, stubborn : stubborns]

\* Every lock and kind, budgets 0 and 1; the stop signal is SIGTERM.
PlanUnits == MCUnit(BOOLEAN, BOOLEAN, {0, 1}, {0, 1}, {TRUE},
                    {FALSE})

\* A locked longrun that ignores its stop signal, with a grace period.
StubbornUnits == MCUnit({TRUE}, {FALSE}, {1}, {0, 2}, BOOLEAN, {TRUE})
===============================================================================
