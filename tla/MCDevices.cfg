\* Counters and indices that wrap, lists of two commands, two requests at once.
CONSTANTS
  CounterMod = 3
  QueueNum = 2
  IndexMod = 4
  Keys = {1, 2}
  Length = 2
  Submissions = 1
  EngineIds = {"npu", "lpu", "gpu", "tpu"}
  Vocabulary = 3
  Scores = {0, 1, 4}
  Words = {0, 1, 2, 500, 1000}
  Tickets = 2200
  Saturation = 2000000
  Sources = {1, 2}
  Priorities = {0, 1}
  PriorityOf <- SamePriority
SPECIFICATION Spec
INVARIANTS TypeOK ErrorExplained UsedFollowsAvail CompletionSignalled KeysSeen DrawsFromEligible
PROPERTIES BusyReportsError RingAccountsForList IrqHeldUntilCleared RequestsFinish
