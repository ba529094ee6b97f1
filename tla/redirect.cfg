CONSTANTS
  Plugins = 1
  Targets = 2
  MaxBytes = 3
  MaxServed = 2
  MaxReports = 1
  IdleTimeout = 12
  Late = 2
  Window = 2
  BufSize = 6
  RandomWait = 1
  Horizon = 20
SPECIFICATION FairRedirectSpec
INVARIANTS
  NothingInvented EofMeansWhole CountsAreFinal AnswersFit
  EndsWithinTwice UnderTwiceTheCap SleepIsShort
PROPERTIES
  NeverEndsEarly AnswerArrives BothLeftEnds FailureEnds
CHECK_DEADLOCK FALSE
