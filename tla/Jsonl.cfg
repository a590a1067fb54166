CONSTANTS
  d = d
  h = h
  t = t
  Latest = {d}
  History = {h}
  Tasks = {t}
  Main = Main
  Torn = Torn
  Calls <- MCCalls
  MaxCommits = 4
  MaxFaults = 2
SPECIFICATION Spec
INVARIANTS
  NeverCorrupt
  NothingNeedless
PROPERTIES
  KeepsContract
