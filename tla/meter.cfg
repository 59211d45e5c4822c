SPECIFICATION FairSpec
CONSTANTS
  BootLimit = 10
  FirstDelay = 1
  RetryTime = 5
  LateRetry = 6
  StatusLimit = 2
  RoleLimit = 2
  HourLimit = 2
  OnLimit = 1
  PowerLimit = 2
  Keys = {TRUE}
  Roles = {"child"}
  MaxWait = 1
  MaxRequests = 2
  MaxFaults = 1
INVARIANTS TypeOK RetryArmed
PROPERTIES NeverBack BootCompletes Registers
