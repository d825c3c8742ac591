\* Good, odd and truncated files, every call that may fail failing any time.
SPECIFICATION Spec
CONSTANTS
  Inputs <- MCInputs
  IntMax <- MCIntMax
  Names <- MCNames
  Faults <- MCFaults
INVARIANTS TypeOK CountedAreSet NothingLeft OnlyFailuresStop SymbolsRight NameRight
PROPERTIES AlwaysOnward 
