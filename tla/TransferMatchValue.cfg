CONSTANTS
  Reads <- MCReads
  Aps <- MCAps
  Matches <- MCMatches
  Masks <- MCMasks
  Units <- MCUnits
  Values = {1, 2}
  Junk = 0
  JtagCount = 1
  DefaultWait = 0
  Limits <- MCLimits
  SkipWrap = 16384
  RequestSpace = 2
  ResponseSpace = 2
  Commands <- MCCommands
  Following <- MCFollowing
SPECIFICATION Spec
INVARIANT MatchValueIsStored
