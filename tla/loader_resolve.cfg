\* Which function LoadAndRunFunction hands to the thread manager.
CONSTANTS
  c1 = c1  c2 = c2  t1 = t1  t2 = t2  m1 = m1  m2 = m2  f1 = f1  f2 = f2
  Null = Null
  Callers <- OneCaller
  Names <- TwoNames
  Modules <- TwoModules
  Symbols <- TwoSymbols
  Exports <- ExportTable
  MaxSpawn = 2
SPECIFICATION Spec
PROPERTY SubmittedWorkResolvedInNamedModule
