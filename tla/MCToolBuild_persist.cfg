\* Three calls and no fault: a tool in use loses its file.
SPECIFICATION Spec
CONSTANTS
  c1 = c1
  c2 = c2
  c3 = c3
  Calls = {c1, c2, c3}
  Authored = {own}
  Early = {shell}
  Late = {browse}
  Migrations = {m1}
  MaxFaults = 0
  Empty = Empty
  Builtin = Builtin
INVARIANT AuthoredPersist
\* The calls may all have been made.
CHECK_DEADLOCK FALSE
