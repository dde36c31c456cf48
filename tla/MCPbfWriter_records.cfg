SPECIFICATION Spec
CONSTANTS
  Jobs <- MCJobs
  Precision = 10
  Limit = 39
  MaxGroup = 2
  NonTagCols = {"id", "length", "tags", "geometry"}
  MaxWriteFaults = 1
  MaxRows = 3
  Bits = 2
  Width = 9
  Garbage = Garbage
INVARIANTS Rereads NewRowsAreThere Smallest RejectedLeavesOutput
PROPERTY WriteEnds
CHECK_DEADLOCK FALSE
