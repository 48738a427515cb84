SPECIFICATION QueueSpec
CONSTANTS
  t1 = t1
  t2 = t2
  t3 = t3
  t4 = t4
  Tests = {t1, t2, t3, t4}
  Priority <- MCPriority
  MaxEnqueues = 6
CONSTRAINT EnqueuesBounded
INVARIANT PriorityFifo
