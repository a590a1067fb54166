CONSTANTS
  p = p
  c = c
  d = d
  r = r
  k = k
  Top = Top
  Tasks = {p, c}
  Conversations = {r}
  Up <- PairUp
  Background = {}
  Abandonable = {}
  SelfLimiting = {}
  RestartLimit = 1
  Abilities = {"abort", "throw", "wait"}
  MaxCrashes = 1
SPECIFICATION FairSpec
PROPERTIES
  CancelledEnds
