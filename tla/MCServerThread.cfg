SPECIFICATION EmbeddedSpec
CONSTANTS
  Conns = {c1}
  Sessions = {s1}
  Nobody = Nobody
  Passwords = {pw, empty}
  Empty = empty
  NoPassword = NoPassword
  Plugins = {"trust", "cleartext", "md5", "scram"}
  MaxStartup = 16
  MaxMessage = 17
  Lengths <- MCLengths
  Garbled = Garbled
  Malformed = Malformed
  NoFrame = NoFrame
CHECK_DEADLOCK FALSE
INVARIANTS
  StartTellsTheTruth
  AdmitsWhoProves
  LengthsAreHonest
PROPERTY
  EveryWaitEnds
