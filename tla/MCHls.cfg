SPECIFICATION LinkSpec
CONSTANTS
  SegNumber = 2
  SegRetain = 1
  Demand = TRUE
  MaxGen = 2
  MaxSegs = 4
  MaxTry = 1
  Probes = {4}
INVARIANT FolderIsWindow
INVARIANT NeverIdle
PROPERTY SegmentsInOrder
PROPERTY EndNoticed
PROPERTY NewSegmentsFetched
CHECK_DEADLOCK FALSE
