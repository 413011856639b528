\* Both servers, stops at any point, a broken migration, and a database two calls
\* of which may fail.
SPECIFICATION FairSpec
CONSTANTS
  auth = auth  world = world  authdb = authdb  worlddb = worlddb
  ai = ai  a2 = a2  a10 = a10  wi = wi  w2 = w2  w10 = w10
  Server = {auth, world}
  Targets <- MCTargets
  Database = {authdb, worlddb}
  Auth = authdb
  File = {ai, a2, a10, wi, w2, w10}
  InitScripts = {ai, wi}
  TargetOf <- MCTargetOf
  Number <- MCNumber
  NameRank <- MCNameRank
  Statements = 2
  Broken = {w10}
  OnceOnly <- MCOnceOnly
  Rebuilding = {w2}
  NoFile = NoFile
  MaxFaults = 2
INVARIANTS RecordedIsApplied MigrationsInOrder CompleteAtFinish
PROPERTIES InitPrecedesMigrations StartupEnds
