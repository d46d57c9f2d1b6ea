CONSTANTS
  plain = plain
  private = private
  alone = alone
  shared = shared
  crowd = crowd
  i = i
  j = j
  Archive = {plain, private, alone, shared, crowd}
  Kind <- MCKind
  Identity = {i, j}
  Asked <- MCAsked
  Fallback <- MCFallback
  MaxRecipients = 2
  Garbage = Garbage
  KeyFile <- MCKeyFile
  Candidates = 2
  Nothing = Nothing
  MaxReplace = 1
  MaxDamage = 1
SPECIFICATION Spec
INVARIANTS OneArchive EnvelopeIntact OpensToTheEntitled FallbackIsLast
CHECK_DEADLOCK FALSE
