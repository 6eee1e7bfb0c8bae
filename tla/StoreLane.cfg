SPECIFICATION Spec
CONSTANTS
  Urls <- MCUrls
  Calls <- MCCalls
  SetCookies <- MCSetCookies
  Locations <- MCLocations
  Files <- MCFiles
  MaxHops = 2
  MaxTime = 3
  MaxSends = 2
  Streams <- MCStreams
  Sub = 4000
  Sub16 = 9
  Align = 64
  ExtraMax = 200
  Sources <- MCSources
  Infos <- MCInfos
  Clocks <- MCClocks
  TailWindow = 600
CHECK_DEADLOCK FALSE
INVARIANTS
  ScopeKept
  SessionSurvives
  InflatesBack
  
