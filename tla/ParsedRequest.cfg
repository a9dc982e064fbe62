SPECIFICATION Spec
CONSTANTS
  Names = {"a", "b"}
  Rests <- RestsOfEachForm
  Values <- OneValue
  NoValue = NoValue
  NHDRS = 2
  UserKeys <- OneKeyOfEach
  MaxLines = 3
  MaxUsed = 4
INVARIANTS
  TypeOK
  CapacityLeft
  MemorySafe
  ParsedKept
  PrintedIsMap
PROPERTIES
  ImplementsMap
CHECK_DEADLOCK FALSE
