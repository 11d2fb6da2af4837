SPECIFICATION FairSpec
CONSTANTS
  Workers = {w1, w2}
  MaxEvents = 3
  NoEvent = NoEvent
INVARIANT ExecutorInv
PROPERTIES
  ImplementsScope
  HandlerVerdictIsFinal
  StopEndsTheCall
  ProgressIsTaken
CHECK_DEADLOCK FALSE
