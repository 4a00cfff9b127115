\* Two flows and two callbacks, with a key, a bind, the agent and a dashboard.
SPECIFICATION FairSpec
CONSTANTS
  u1 = u1
  u2 = u2
  p1 = p1
  p2 = p2
  Users = {u1, u2}
  Repos = {p1, p2}
  CanWrite <- MCCanWrite
  Flows = {f1, f2}
  KeyPosts = {k1}
  Callbacks = {c1, c2}
  Binds = {b1}
  Trusts = {a1}
  Views = {v1}
  MaxFaults = 1
  None = None
INVARIANTS
  RowsConsistent
  TokenUsable
  TrustHolds
PROPERTIES
  KeyShown
\* Every call may have been made.
CHECK_DEADLOCK FALSE
