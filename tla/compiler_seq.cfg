\* One caller, every compile_options.json, every failure of the environment.
CONSTANTS
  c1 = c1  c2 = c2  m1 = m1  m2 = m2  f1 = f1  f2 = f2  good = good  bad = bad
  Empty = Empty  NoFile = NoFile  Sep = Sep
  Callers <- OneCaller
  Modules <- OneModule
  Functions <- TwoFunctions
  Codes <- SourceCodes
  ValidCodes <- Accepted
  ConfigFiles <- AnyConfig
  MkdirMayFail = TRUE
  PopenMayFail = TRUE
  MaxCalls = 4
SPECIFICATION Spec
INVARIANT TypeOK
INVARIANT FailClosedConfig
INVARIANT CacheEntriesHaveArtifacts
PROPERTY CacheRefinement
\* The caller stops calling after MaxCalls calls.
CHECK_DEADLOCK FALSE
