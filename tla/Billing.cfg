SPECIFICATION FairSpec
CONSTANTS
  Orders = {1, 2}
  Jobs = {1, 2}
  Threads = {"worker", "page", "admin", "hook"}
  Runners = {1}
  Amounts = {1}
  Opening = 1
  Bonus = 1
  Cost = 1
  MaxItems = 2
  MaxBusy = 2
  MaxFaults = 1
INVARIANTS TypeOK  AccountKept JobsPaidFor
 
CHECK_DEADLOCK FALSE
