CONSTANTS
  MaxCalls = 6
  MaxResets = 1
SPECIFICATION Spec
INVARIANTS
  TypeOK
  SettingsLast
  IsrAgrees
  ClocksAreRight
  LdeHasMicrocode
PROPERTIES
  SleepsWhenAsked

\* The number of calls is bounded.
CHECK_DEADLOCK FALSE
