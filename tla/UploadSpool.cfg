SPECIFICATION UploadSpec
CONSTANTS
  MaxBody = 3
  MaxChain = 3
  SizeLimit = 2
  SniffSize = 1
  SpoolLimit = 3
  SkipLimit = 3
  PartLimit = 2
CHECK_DEADLOCK FALSE
INVARIANT SpoolsAreReleased
