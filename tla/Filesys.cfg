SPECIFICATION Spec
CONSTANTS
  Names = {n1, n2}
  Contents <- MCContents
  BufferSize = 2
  MaxFileLen = 3
  NoName = NoName
  NoFile = NoFile
  NoCrc = NoCrc
INVARIANTS SessionOnDisk CleanOutsideSession CompletedHoldsContent
PROPERTY SessionAppends
