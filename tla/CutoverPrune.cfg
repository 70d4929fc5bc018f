CONSTANTS
  j1 = j1 j2 = j2 old = old Base = Base None = None
  Job = {j1, j2}
  Older <- NoOlder
  Pins <- TwoPins
  BasePin <- OldPin
  Overriding = {j1}
  Keep = 1
  MaxAdrift = 1
SPECIFICATION CutoverSpec
INVARIANT FailsForCause
CONSTRAINT Bounded
CHECK_DEADLOCK FALSE
