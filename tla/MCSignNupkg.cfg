SPECIFICATION NupkgSpec
CONSTANTS
  Refused = Refused
  Missing = Missing
  NoKey = NoKey
  BrokenNames = {"bad"}
  SplitNames = {}
  Packages <- MCPackages
  BaseName <- MCBaseName
  Builds <- MCBuilds
  Keys = {"release", "other"}
  Trusted = {"release"}
  ArgLists <- MCArgLists
  Commands = {"list-nupkg", "embed", "nupkg"}
  MaxRuns = 3
INVARIANTS
  SignedIsTrue
  StopsBetween
PROPERTIES
  SignedStays
