SPECIFICATION FairSpec
CONSTANTS
  Caller = {c, d}
  Provider = {p, q}
  Addr = {port}
  AnyPort = AnyPort
  NoOne = NoOne
  MaxServers = 2
  MaxRequests = 1
INVARIANTS OnlyCurrentAccepts CreditedToItsProvider StartsAndStopsAlternate
PROPERTIES ListenersReleased CallsAnswered
