CONSTANTS
  p = p
  c = c
  d = d
  r = r
  k = k
  Top = Top
  Tasks = {p, d}
  Conversations = {r, k}
  Up <- NestedUp
  Background = {p}
  Abandonable = {}
  SelfLimiting = {}
  RestartLimit = 1
  Abilities = {"checkpoint", "throw", "spawn", "abort", "submit", "idle"}
  MaxCrashes = 1
SPECIFICATION Spec
INVARIANTS
  ReconcileOwed
  IdleWaitersBusy
PROPERTIES
  AbortBottomUp
