SPECIFICATION FilesSpec
CONSTANTS
  Refused = Refused
  Missing = Missing
  NoKey = NoKey
  BrokenNames = {"bad"}
  SplitNames = {"odd"}
  Paths <- MCPaths
  ListPath = "out/list"
  SigPath = "out/sig"
  BaseName <- MCBaseName
  Rebuilt = {"a/lib"}
  Contents = {1, 2}
  Keys = {"release", "other"}
  Settings <- MCSettings
  ArgLists <- MCArgLists
  Parts = {1, 2, 3, 4}
  JobFiles <- MCJobFiles
  MaxRuns = 3
INVARIANTS
  SignedFilesPass
  OwnFilesNeverPass
  MergedWhole
  AllListed
