SPECIFICATION FairSpec
CONSTANTS
  Emails = {e1}
  UserIDs = {u1}
  Tokens = {t1}
  Sessions = {s1, s2}
  Handlers = {h1, h2}
  TokenTTL = 2
  SessionTTL = 1
  TicksPerSecond = 1
  MaxTime = 2
  MaxCrashes = 1
  MayFail = {"purge"}
  None = None
PROPERTIES
  LiveLinkHonoured
  ExpiredRowsPurged
