\* Symmetric in the threads and in the ScopedFDs. The program may stop at a failed check.
CONSTANTS
  Values = {v1, v2}
  None = None
  MaxRange = 3
  Raw = Raw
  InitialCapacity = 3
  MaxSize = 5
  KeepsIterators = FALSE
  Keys = {1, 2, 3}
  Default = v1
  Half = 4
  WideHalf = 32
  Samples <- MCSamples
  Undefined = Undefined
  PerMillisecond = 2
  PerSecond = 6
  PerHour = 7
  PerDay = 11
  EpochOffset = 10
  NoRead = NoRead
  NoSeparator = NoSeparator
  Empty = ""
  Words <- MCWords
  ProgramWord <- MCProgram
  MaxWords = 4
  Letters = {"a", "z"}
  DoubleExtensions <- MCDoubleExtensions
  DoubleSuffixes <- MCDoubleSuffixes
  MaxGap = 3
  MaxStart = 3
  MaxLength = 6
  FdThreads = {f1, f2}
  FdSlots = {d1, d2}
  MaxFds = 2
  MaxTrackedFds = 1
  Strays = 1
SYMMETRY MCSymmetry
SPECIFICATION Spec
CHECK_DEADLOCK FALSE
INVARIANT SlotsExact
PROPERTY ImplementsSequence
PROPERTY ImplementsMap
INVARIANTS ArithmeticIsExact PartsAreReadBack OwnedDescriptorsAreSafe
