SPECIFICATION Spec
CONSTANTS
  Emails = {e1, e2}
  UserIDs = {u1, u2}
  Tokens = {t1, t2}
  Sessions = {s1, s2}
  Handlers = {h1, h2}
  TokenTTL = 1
  SessionTTL = 1
  TicksPerSecond = 2
  MaxTime = 1
  MaxCrashes = 1
  MayFail = {"request"}
  None = None
SYMMETRY Symmetry
INVARIANTS
  TypeOK
  SingleUse
  SessionsVerified
  SessionBelongsToInbox
  SessionFromLiveLink
  OneAccountPerAddress
  SignOutSticks
PROPERTIES
  PurgedAreDue
  ImplementsMagicLink
