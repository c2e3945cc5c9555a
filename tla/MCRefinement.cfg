SPECIFICATION Spec
CONSTANTS
  t1 = t1
  t2 = t2
  Targets <- MCTargets
  Sites <- MCSites
  Ledgers <- MCLedgers
  Costs <- MCCosts
  BudgetSets <- MCBudgets
  CounterMax = 3
  MaxCalls = 7
  Clients <- MCClients
CHECK_DEADLOCK FALSE
INVARIANT LedgersHold
INVARIANT DriverSettles
PROPERTY ExhaustionStands
PROPERTY DriverEnds
