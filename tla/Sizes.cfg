SPECIFICATION QuerySpec
CONSTANTS
  Requests <- AllRequests
  Asks <- AllAsks
  Directory <- Directories
  Widths = {1, 2, 3, 4, 6, 12, 17, 31, 34, 36, 130, 154, 260, 410, 512, 1920}
  Heights = {1, 2, 17, 34}
  LayerCounts = {1, 3}
INVARIANTS TypeOK PlanesFit RowsFit Aligned SameAgain HeadersWritten StrideAssertions DescriptionsAgree DescribedInside ModifierTellsLayout AllocatorAccepts EveryIpCan LinearServed AfbcSound HeapSuits ForetoldAsGot
