\* Blocks of four bytes, bytes of two bits and words of sixteen values: a count
\* of bits outgrows its word after eight bytes, a file takes up to four blocks.
CONSTANTS
  BlockSize = 4
  Bits = 2
  Word = 16
  Junk = Junk
  MaxSize = 10
  OtherSizes = {0, 4, 10}
  IntSize = 2
  OffSize = 2
  NameSize = 1
  Chunk = 3
  READ_DATA_SIZE = 3
  Absent = Absent
SPECIFICATION FairSpec
CHECK_DEADLOCK FALSE
INVARIANTS TypeOK  PrefixArrives DigestIsMd5 
PROPERTIES TransferEnds
