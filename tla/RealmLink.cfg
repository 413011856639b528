\* Two worlds configured for one realm.
SPECIFICATION FairLinkSpec
CONSTANTS
  w1 = w1  w2 = w2  a1 = a1  a2 = a2  b1 = b1
  Realm = {r}
  World = {w1, w2}
  RealmOf <- MCRealmOf
  TokenOk = {w1, w2}
  Conn = {a1, a2, b1}
  Owner <- MCOwner
  NoConn = NoConn
INVARIANT ClaimHeldOnce
PROPERTIES DeadRealmGoesOffline ServingRealmComesOnline StopEndsThread
