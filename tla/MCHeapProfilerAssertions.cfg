CONSTANTS
  Threads = {t1, t2}
  Ptrs = {p1, p2, p3}
  Stacks = {s1, s2}
  Sizes = {1, 2}
  AllocationInterval = 3
  InuseInterval = 1
  Slack = 0
  MaxAllocs = 3
  NoThread = NoThread
  None = None
SPECIFICATION Spec
INVARIANT AssertionsHold
CHECK_DEADLOCK FALSE
