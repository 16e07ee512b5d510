SPECIFICATION FairSpec
CONSTANTS
  W = 14
  often = often
  seldom = seldom
  once = once
  later = later
  Jobs = {often, seldom, once, later}
  Once = {once, later}
  Delay <- DelayOf
  FirstDelays = {0, 3}
  MaxLate = 2
  Punctual = TRUE
INVARIANTS TypeOK
PROPERTIES ImplementsTimers DueTasksRun
