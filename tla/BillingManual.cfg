SPECIFICATION Spec
CONSTANTS
  Orders = {1}
  Jobs = {}
  Threads = {"worker", "page", "admin", "hook"}
  Runners = {}
  Amounts = {1}
  Opening = 0
  Bonus = 1
  Cost = 1
  MaxItems = 1
  MaxBusy = 2
  MaxFaults = 1
INVARIANTS OneActivation
CHECK_DEADLOCK FALSE
