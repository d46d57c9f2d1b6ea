CONSTANTS
  one = one
  two = two
  three = three
  Earlier = Earlier
  Absent = Absent
  Hole = Hole
  Process = {one, two}
  Parts = 2
SPECIFICATION Spec
PROPERTIES NotOverwritten
CHECK_DEADLOCK FALSE
