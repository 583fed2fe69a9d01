\* One caller compiling two functions of one module.
CONSTANTS
  c1 = c1  c2 = c2  m1 = m1  m2 = m2  f1 = f1  f2 = f2  good = good  bad = bad
  Empty = Empty  NoFile = NoFile  Sep = Sep
  Codes <- SourceCodes
  ValidCodes <- Accepted
  Modules <- OneModule
  Callers <- OneCaller
  Functions <- TwoFunctions
  ConfigFiles <- NoConfig
  MkdirMayFail = FALSE
  PopenMayFail = FALSE
  MaxCalls = 2
SPECIFICATION Spec
INVARIANT CachedArtifactIntact
CHECK_DEADLOCK FALSE
