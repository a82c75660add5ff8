CONSTANTS
  PageSize = 2
  InitialPages = 3
  HotWindow = 2
  MaxPages = 4
  GrowLimit = 4
  Values = {0, 1}
  Zero = 0
  Junk = Junk
  Memories <- MCSeeded
  Sampled = {0}
  GuestWidths = {1, 2}
  HostWidths = {1}
  Targets = {3, 5}
  Blocks <- MCBlocks
  Lengths = {3}
  MayFail = FALSE
SPECIFICATION Spec
INVARIANT StagedFromPages
