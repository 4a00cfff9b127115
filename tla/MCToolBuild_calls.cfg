\* Three calls, a name of its own and a built-in of either kind.
SPECIFICATION Spec
CONSTANTS
  c1 = c1
  c2 = c2
  c3 = c3
  Calls = {c1, c2, c3}
  Authored = {own}
  Early = {shell}
  Late = {browse}
  Migrations = {m1}
  MaxFaults = 1
  Empty = Empty
  Builtin = Builtin
SYMMETRY Alike
INVARIANTS
  TypeOK
  OnlyTested
  WorkerCaughtUp
  MigratedOnce
\* The calls may all have been made.
CHECK_DEADLOCK FALSE
