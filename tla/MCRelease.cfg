SPECIFICATION ReleaseSpec
CONSTANTS
  Refused = Refused
  Missing = Missing
  BrokenNames = {}
  SplitNames = {}
  Builds <- MCBuilds
  BaseName <- MCBaseName
  Keys = {"release", "other"}
  Trusted = {"release"}
  GhCanFail = FALSE
  MaxAttempts = 4
CHECK_DEADLOCK FALSE
INVARIANTS
  OneBuild
  SuccessIsWhole
PROPERTIES
  PublishedVerifies
  AttemptsEnd
