--------------------------- MODULE LiveRosterMC ---------------------------
(* Instances of LiveRoster.  A behaviour gets one of several budgets, so    *)
(* that one run explores navigation, faults and commands in depth without   *)
(* multiplying them.                                                        *)
EXTENDS LiveRoster

Budget(visits, commands, changes, faults, lags) ==
  [visits |-> visits, commands |-> commands, changes |-> changes,
   faults |-> faults, lags |-> lags]

\* Two pages and their loads; one page, changes and faults; a command of the page
\* and a second visit, a fault, or a change that makes it a conflict; two
\* changes of which a lagging socket loses one or both.
PageBudgets == {Budget(2, 0, 1, 0, 0), Budget(1, 0, 2, 1, 0), Budget(2, 1, 0, 0, 0),
                Budget(1, 0, 1, 2, 0), Budget(1, 1, 0, 1, 0), Budget(1, 1, 1, 0, 0),
                Budget(1, 0, 2, 0, 1)}

\* One visit, two changes, and a socket that lags behind them.
LagBudgets == {Budget(1, 0, 2, 0, 1)}

============================================================================
