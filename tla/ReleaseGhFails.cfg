SPECIFICATION ReleaseSpec
CONSTANTS
  Refused = Refused
  Missing = Missing
  BrokenNames = {}
  SplitNames = {}
  Builds <- MCBuilds
  BaseName <- MCBaseName
  Keys = {"release", "other"}
  Trusted = {"release"}
  GhCanFail = TRUE
  MaxAttempts = 2
CHECK_DEADLOCK FALSE
INVARIANT
  OneBuild
