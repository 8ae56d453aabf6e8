SPECIFICATION Spec
CONSTANTS
  Clients = {r1, r2, r3}
  Phones = {r1, r2}
  Threshold = 3
  StaffWindow = 2
  MaxFailures = 2
  CustomerWindow = 1
  Limit = 2
  GuardWindow = 2
  CodeTtl = 1
  Cooldown = 1
  ActiveWindow = 2
  ActiveMax = 1
  Hour = 3
  HourlyMax = 2
  Day = 4
  DailyMax = 3
  MaxFailuresPerTick = 5
  MaxDelay = 1
  MaxLost = 1
  MaxCodesPerTick = 2
INVARIANTS
  TypeOK
  StaffOvershootBounded
  CustomerFailuresBounded
  TwiceTheLimit
  SendsBounded
PROPERTIES
  StaffLockoutEnds
  CustomerLockEnds
  WindowEnds
  SendingResumes
