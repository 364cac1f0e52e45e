SPECIFICATION PartsSpec
CONSTANTS
  None = None
  Frames = 3
  Ticks = {i1, i2, i3, i4}
  Callers = {c1, c2, c3}
  Versions <- SomeVersions
  Jobs = 1
  Ids = {a, b}
  Ages = 3
  NoInterface = NoInterface
INVARIANTS
  TypesOK
  FramesConserved
  SendNeverBlocks
  TimersAreHeard
  TakenOnce
  AcceptedIsRun
  AnswersServe
  OldestFirst
PROPERTIES
  StopIsSeen
  ShutdownEnds
  
  FirstStays
