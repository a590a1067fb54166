CONSTANTS
  p = p
  c = c
  d = d
  r = r
  k = k
  Top = Top
  Tasks = {p, c}
  Conversations = {r}
  Up <- PairUp
  Background = {}
  Abandonable = {c}
  SelfLimiting = {c}
  RestartLimit = 2
  Abilities = {"checkpoint", "throw", "spawn", "abort", "close"}
  MaxCrashes = 3
SPECIFICATION Spec
INVARIANTS
  TypeOK
  WorkIsComing
  RestartsBounded
PROPERTIES
  OutcomeFinal
