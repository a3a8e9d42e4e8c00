CONSTANTS
  Inputs <- MCInputs
  Options <- AllOptions
  Apis <- AllApis
  Parses <- MCParses
  Scans <- MCScans
  WalkError <- MCWalkError
  Encodes <- MCEncodes
  Compiles <- MCCompiles
SPECIFICATION Spec
INVARIANTS
  CallsAreIndependent
