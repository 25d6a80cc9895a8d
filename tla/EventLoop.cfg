CONSTANTS
  None = None
  Sizes <- MCOneSize
  MaxIssued = 4
  SockCap = 2
  MaxInterrupts = 1
SPECIFICATION FairSpec
INVARIANTS TypeOK DrainedBeforePoll AnswersInOrder EventsConserved NeverRefused AckAfterResize
PROPERTIES LostIsForever PingAnswered CloseQuits
CHECK_DEADLOCK FALSE
