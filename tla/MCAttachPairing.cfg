CONSTANTS
  Symbols <- MCSymbols
  FuncSyms <- MCFuncSyms
  Bind <- MCBind
  Filters <- MCFilters
  NoFilter = nofilter
  Name <- MCName
  Hash <- MCHash
  Address <- MCAddress
  BatchSize = 4
SPECIFICATION Spec
INVARIANT NamesExecuted
CHECK_DEADLOCK FALSE
