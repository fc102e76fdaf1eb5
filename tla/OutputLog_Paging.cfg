SPECIFICATION LogSpec
CONSTANTS
  stdout = stdout  stderr = stderr  r1 = r1
  Streams <- BothStreams
  Readers <- OneReader
  MaxBytes = 4
  MaxRecords = 2
  MaxReadBytes = 3
  ChunkBytes = 2
  MaxTotal = 8
  MaxErrors = 2
CHECK_DEADLOCK FALSE
INVARIANTS
  LogIsExact
  PagesAreSound
  CursorsStayValid
PROPERTIES
  GapsAreFlagged
