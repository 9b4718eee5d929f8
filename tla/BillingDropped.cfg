SPECIFICATION Spec
CONSTANTS
  p1 = p1
  p2 = p2
  Handlers = {h1, h2}
  Payments = {p1, p2}
  PlanNamed <- MCPlanNamed
  CreatedName = "standard"
  PaidPlans <- MCPaidPlans
  Starter = "starter"
  AdminPlans = {"free", "gold"}
  MaxRequests = 3
  MaxExpiries = 1
INVARIANT NoEventDropped
CHECK_DEADLOCK FALSE
