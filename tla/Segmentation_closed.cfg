\* What is said to the last turn after its segment was called closed.
SPECIFICATION SegmentationSpec
CONSTANTS
  MaxChars = 3
  Weights = {1, 2}
  MaxMessages = 4
CHECK_DEADLOCK FALSE
INVARIANT ClosedSegmentsStay
