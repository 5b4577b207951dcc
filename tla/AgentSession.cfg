CONSTANTS
  c1 = c1
  c2 = c2
  c3 = c3
  Controls = {c1, c2, c3}
  VerbOf <- EachVerb
  MaxEdits = 1
  MaxFailures = 1
SPECIFICATION FairSpec
INVARIANT OneAgent
INVARIANT AnsweredOnce
INVARIANT OnlyBlindEditsAreLost
PROPERTY ControlsAreAnswered
PROPERTY SessionEnds
CHECK_DEADLOCK FALSE
