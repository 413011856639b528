\* The list, a login, and two more requests; one packet of another session.
SPECIFICATION FairSpec
CONSTANTS
  MaxRequests = 4
  MaxNews = 1
  NoHeader = NoHeader
INVARIANTS CipherInStep OnlyLateLoginStays
PROPERTIES QueueDrains LoopsEnd
CHECK_DEADLOCK FALSE
