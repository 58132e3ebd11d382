CONSTANTS
  Shells = {s1}
  Webs = {w1, w2}
  Users = {a}
  NoUser = NoUser
  NoSession = NoSession
  SessionCaps = {0}
SPECIFICATION Spec
PROPERTY KickClosesAll
CHECK_DEADLOCK FALSE
