SPECIFICATION Spec
CONSTANTS
  r1 = r1
  r2 = r2
  None = None
  Releases <- MCReleases
  Size <- MCSize
  Chunk <- MCChunk
  MetaSize <- MCMetaSize
  ApiAttempts <- MCApiAttempts
  Inputs <- MCInputs
  BleBuild = TRUE
INVARIANT
  ConfirmedIsDisplayed
