CONSTANTS
  one = one
  two = two
  ann = ann
  bob = bob
  Earlier = Earlier
  Absent = Absent
  Hole = Hole
  Garbage = Garbage
  Verifier = Verifier
  Process = {one, two}
  Signer = {ann, bob}
  Parts = 2
  MaxKeySwaps = 1
SPECIFICATION SignatureSpec
SYMMETRY Symmetric
INVARIANTS PublishedWhole NeverMixed SignsOneArchive VerifiedWasSigned NoSplicedSignature
CHECK_DEADLOCK FALSE
