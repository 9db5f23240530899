CONSTANTS
  a = a
  b = b
  c = c
  d = d
  Command = {a, b, c, d}
  Key <- MCKey
  Damaged = Damaged
  NoCommand = NoCommand
  MaxStops = 3
SPECIFICATION Spec
INVARIANTS
  TypeOK
  FileReadable
  MemoryMatchesFile
  OneRecordPerKey
PROPERTIES
  ObservedStays
  ResolvedStays
  ImplementsDurableLog
