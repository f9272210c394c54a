SPECIFICATION Recorded
CONSTANTS
  Users = {u, v}
  Passwords = {a, b, s}
  Short = {s}
  Nicknames = {n}
  Requests = {r1, r2, r3, r4}
  NoRequest = NoRequest
  NoHash = NoHash
  NoName = NoName
SYMMETRY Symmetry
INVARIANTS RegisteredWhole ChangesAreKept
PROPERTY ChangeNeedsCurrent
CHECK_DEADLOCK FALSE
