SPECIFICATION Spec
CONSTANTS
  ByteMod = 7
  Quote = 4
  EmptyMark = 6
  MaxBytes = 3
  IntBits = 3
  CellValues = {0, 3, 9}
  Names = {"a", "b"}
  Tables = {t1, t2}
  Results = {r1, r2}
  MaxRows = 2
  MaxCols = 2
  NULL = NULL
  Thrown = Thrown
  Bits = 8
  Digits = 2
  Doubles <- MCDoubles
  JsonUnits <- MCJsonUnits
  JsonHuge = 3000
  AesKeys = {"k1", "k2"}
  Large = 2
  DataSizes = {0, 1, 3}
  MaxMsgs = 3
  MaxLen = 33
  MaxZlib = 5
  Chars = {65, 97, 98, 32}
  MaxStr = 3
  ListInts <- MCListInts
  TickBits = 5
  TickSecond = 3
  LogModules = {"checkpj", "main"}
  LogLevels = {0, 3, 5}
  MaxLogCalls = 3
  ThreadObjs = {h1, h2}
  PoolObjs = {o1, o2, o3, o4}
  Places = {a1, a2}
  NoObj = NoObj
CHECK_DEADLOCK FALSE
INVARIANTS   ContentKept HelpersExact LifetimesNest
PROPERTIES LoopsEnd
