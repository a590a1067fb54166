CONSTANTS
  p = p
  c = c
  d = d
  r = r
  k = k
  Top = Top
  Tasks = {p}
  Conversations = {r}
  Up <- OneUp
  Background = {}
  Abandonable = {}
  SelfLimiting = {}
  RestartLimit = 1
  Abilities = {"sleep", "idle"}
  MaxCrashes = 0
SPECIFICATION FairSpec
PROPERTIES
  DueSleepRuns
