CONSTANTS
  p = p
  c = c
  d = d
  r = r
  k = k
  Top = Top
  Tasks = {p, c}
  Conversations = {r}
  Up <- PairUp
  Background = {}
  Abandonable = {}
  SelfLimiting = {}
  RestartLimit = 1
  Abilities = {"abort", "close"}
  MaxCrashes = 0
SPECIFICATION Spec
INVARIANTS
  CloseLeavesNoneRunning
