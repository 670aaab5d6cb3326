\* The process is stopped up to twice, the cache holds two bytes; the store
\* never comes to rest.
CONSTANTS
  c1 = c1  c2 = c2  c3 = c3  r1 = r1  r2 = r2
  NoChunk = NoChunk
  Chunks <- MCChunks
  Rendered <- MCRendered
  FileSize <- MCFileSize
  MaxFields = 2
  MaxStops = 2
  MaxSize = 2
SPECIFICATION ReaderSpec
INVARIANTS StoreTypeOK ListedExactlyOnce CacheAccounted OnlyLargeFilesFail
PROPERTIES StoreSpec ImplementsPool
