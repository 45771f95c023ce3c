SPECIFICATION FairSpec
CONSTANTS
  b1 = b1
  l1 = l1
  NoRequest = NoRequest
  Requests = {l1, b1}
  Large = {l1}
  Timed = {b1}
  Hellos = {l1}
  Pings = {}
  Byes = {b1}
  Fragments = 2
  BufferCap = 1
  IdSpace = 4
INVARIANTS
  AnswerIsMine
  PendingMatchesCallers
PROPERTIES
  CloseReleases
