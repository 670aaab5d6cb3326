\* one stop is enough; the cache plays no part
CONSTANTS
  c1 = c1  c2 = c2  c3 = c3  r1 = r1  r2 = r2
  NoChunk = NoChunk
  Chunks <- MCChunks
  Rendered <- MCRendered
  FileSize <- MCFileSize
  MaxFields = 2
  MaxStops = 1
  MaxSize = 2
SPECIFICATION ReaderSpec
INVARIANT AlwaysDeserializable
