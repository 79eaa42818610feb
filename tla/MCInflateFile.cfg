CONSTANTS
  BUFFER_CAPACITY = 32
  NumFields = 11
  Offset <- BatOffset
  HalfFields = {5, 7, 9}
  CHUNK_WORDS = 50
  MIN_PACKET = 7
  Files <- ManyFiles
SPECIFICATION FairSpec
INVARIANTS
  TypeOK
  BatchNeverStarves
  NoUnderrun
  Aligned
  HalfReadHasMore
  Complete
  PacketBounded
PROPERTY
  Terminates
