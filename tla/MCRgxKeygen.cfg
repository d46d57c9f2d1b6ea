CONSTANTS
  one = one
  two = two
  three = three
  four = four
  here = here
  there = there
  Nobody = Nobody
  Process = {one, two, three, four}
  Path = {here, there}
SPECIFICATION Spec
SYMMETRY Symmetric
INVARIANTS HandedOutStays PairMatches FailureLeavesNoSecret
CHECK_DEADLOCK FALSE
