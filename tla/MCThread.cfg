CONSTANTS
  s1 = s1
  s2 = s2
  c1 = c1
  Slots = {s1, s2}
  Clients = {c1}
  MaxReuse = 1
  NoHandle = NoHandle
SPECIFICATION LiveSpec
INVARIANTS
  StructsAccounted
  RequestActsOnce
PROPERTIES
  StructIsFreed
