SPECIFICATION Spec
CONSTANTS
  w1 = w1
  w2 = w2
  w3 = w3
  w4 = w4
  p1 = p1
  p2 = p2
  Writers = {w1, w2, w3, w4}
  Readers = {r1}
  Processes = {p1, p2}
  ProcessOf <- OwnProcesses
  Original = old
  Size <- Lengths
CHECK_DEADLOCK FALSE
INVARIANTS ReadersSeeWholeFiles
PROPERTY SuccessIsInPlace
