CONSTANTS
  Thread <- MCThread
  Size <- MCSize
  Byte <- MCByte
  Call <- MCCall
  BlobMayFail = TRUE
SPECIFICATION VirginSpec
INVARIANTS TypeOK DirtyTruthful
PROPERTIES AloneCallRepairs StringsNeverTorn CallsReturn
