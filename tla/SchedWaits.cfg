CONSTANTS
  p = p
  c = c
  d = d
  r = r
  k = k
  Top = Top
  Tasks = {p, c, d}
  Conversations = {r}
  Up <- FamilyUp
  Background = {}
  Abandonable = {}
  SelfLimiting = {}
  RestartLimit = 1
  Abilities = {"wait"}
  MaxCrashes = 0
SPECIFICATION Spec
INVARIANTS
  WaitsAcyclic
  SchedInv
SYMMETRY Siblings
