CONSTANTS
  Functions = {"f"}
  Labels = {"c", "d"}
  Sentinel = "sentinel"
  Elsewhere = "elsewhere"
  BlockOps = 2
  Budgets <- MCBudgets
  MaxRuns = 2
SPECIFICATION FairSpec
INVARIANT FramesAgree
INVARIANT HistoryShape
INVARIANT BlocksPayForEverything
INVARIANT BudgetsHold
INVARIANT EndIsExplained
INVARIANT NoStackLeak
PROPERTY RunEnds
