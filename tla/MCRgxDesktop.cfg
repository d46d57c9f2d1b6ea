CONSTANTS
  left = left
  right = right
  Path = {left, right}
  None = None
SPECIFICATION Spec
INVARIANTS RefusesOnlyLeftoverKeys OwnSecretOpens ResultNamesArchive
PROPERTIES BusyEnds
