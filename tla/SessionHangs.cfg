CONSTANTS
  c1 = c1
  c2 = c2
  c3 = c3
  Controls = {}
  VerbOf <- NoVerb
  MaxEdits = 0
  MaxFailures = 0
SPECIFICATION FairSpec
PROPERTY AskedToEndEnds
CHECK_DEADLOCK FALSE
