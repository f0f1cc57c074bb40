SPECIFICATION ShopSpec

CONSTANTS
  Users = {"adm", "ho", "mgr"}
  Nobody = Nobody
  Role <- MCRole
  StockCounts = {3}
  LineQuantities = {2}
  MaxProducts = 2
  MaxPosSales = 2
  MaxLines = 2
  ExpenseAmounts = {1, 2}
  MaxExpenses = 1

INVARIANTS
  StockExplained
  OversoldOnlyByRepeatedLines
PROPERTIES
  ExpensesFollowApproval
CHECK_DEADLOCK FALSE
