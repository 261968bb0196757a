SPECIFICATION Spec
CONSTANTS
  c1 = c1
  c2 = c2
  c3 = c3
  m1 = m1
  Calls <- MCCalls
  Messages <- MCMessages
  Policies <- MCPolicies
  Deadline = 1
  MaxNow = 2
  MaxFaults = 1
  MaxOpen = 2
  None = None
SYMMETRY MCSymmetry
INVARIANTS
  OncePerEpisode
  BudgetExact
  BreachLands
CHECK_DEADLOCK FALSE
