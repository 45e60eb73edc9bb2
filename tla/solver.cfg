SPECIFICATION ProgramSpec
CONSTANTS
  IntMax = 32767
  NaN = 999999
  Tokens <- MCTokens
  Dashed <- MCDashed
  Names <- MCNames
  Number <- MCNumber
  Decimal <- MCDecimal
  MaxArgs = 4
  MaxFailures = 1
  Fallible <- MCFallible
  IniLines <- MCIniLines
  MaxInput = 5
  MaxThreads = 4
  TspPaths = {"a.tsp"}
  InstanceFiles <- MCInstanceFiles
  WholeNumber <- MCWholeNumber
  Coordinates = {"1", "2"}
  Uncoloned <- MCUncoloned
INVARIANTS
  AcceptedIffWellFormed
  SourcesInOrder
  OneOwnerPerString
  OnlyCheckedConfigurationsRun
  InstanceIsTheFile
CHECK_DEADLOCK FALSE
