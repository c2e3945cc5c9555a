CONSTANTS
  Functions = {"f"}
  Labels = {"c", "d"}
  Sentinel = "sentinel"
  Elsewhere = "elsewhere"
  BlockOps = 2
  Budgets <- MCBudgets
  MaxRuns = 1
SPECIFICATION Spec
PROPERTY ResumesAtContinuation
