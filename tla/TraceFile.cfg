SPECIFICATION Spec
CONSTANTS
  Archives <- MCArchives
  Encodings <- serializations
  Load <- deserialize
CHECK_DEADLOCK FALSE
INVARIANTS
  LoadableIffSaved
  HashSurvivesTheFile
