CONSTANTS
  one = one
  two = two
  three = three
  f = f
  g = g
  Earlier = Earlier
  Nobody = Nobody
  Process = {one, two, three}
  File = {f, g}
  Names = 2
SPECIFICATION Spec
SYMMETRY Symmetric
INVARIANTS OneWriter SuccessIsComplete FailureLeavesNothing
PROPERTIES FinishedStays
CHECK_DEADLOCK FALSE
