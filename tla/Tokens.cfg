SPECIFICATION TokensSpec
CONSTANTS
  Plain <- MCPlain
  Errnos <- MCErrnos
  EINVAL = "EINVAL"
  None = "0"
  MaxCalls = 3
  Users = {u1, u2}
  LastGroup = 4
  WordBits = 2
  MaskWords = 2
  p1 = p1
  p2 = p2
  p3 = p3
  LUIDs <- MCLUIDs
  NAMES <- MCNAMES
  U16 = 4
  U32 = 2
  Threads = {t1, t2}
  c1 = c1
  c2 = c2
  Clients <- MCClients
  Rights <- MCRights
  Held <- MCHeld
  Self = self
  NoToken = none
  Word = 2
  MaxGuards = 2
  MaxSteps = 5
INVARIANTS BuiltAsAsked ErrorIffRefused RestoreIsExact SetOrUntouched NeverOverstays DecidedForRightSubject
SYMMETRY MCSymmetry
CHECK_DEADLOCK FALSE
