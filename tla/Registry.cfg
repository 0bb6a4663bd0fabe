SPECIFICATION FairSpec
CONSTANTS
  t1 = t1
  t2 = t2
  A = A
  B = B
  enum = enum
  plugin = plugin
  enumA = enumA
  pluginA = pluginA
  pluginB = pluginB
  NoThread = NoThread
  NoLib = NoLib
  Threads <- TwoThreads
  Types <- TwoTypes
  Managed = enum
  Libs <- TwoLibs
  Fns <- ThreeFns
  TypeOf <- MCTypeOf
  Adds <- MCAdds
  Body <- MCBody
  Globals <- MCGlobals
  MaxObjects = 3
  MaxThrows = 1
  MaxCalls = 2
  MaxLoads = 2
  AwaitsCode = TRUE
CHECK_DEADLOCK FALSE
INVARIANTS
  SingletonIsUsable
  FunctionsRunOnce
  UnloadIsComplete
PROPERTIES
  EveryCallReturns
