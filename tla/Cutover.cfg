CONSTANTS
  j1 = j1 j2 = j2 old = old Base = Base None = None
  Job = {j1, j2}
  Older <- OneOlder
  Pins <- TwoPins
  BasePin <- OldPin
  Overriding = {j1}
  Keep = 1
  MaxAdrift = 1
SPECIFICATION CutoverSpec
INVARIANTS ApprovalIsSpentOnce CutoverIsWatched 
CONSTRAINT Bounded
CHECK_DEADLOCK FALSE
