SPECIFICATION Spec
CONSTANTS
  Programs <- MCPrograms
  Byte = 2
  PowerCycles = 1
  Divider <- MCDivider
  Tenths = 2
  Sixty = 2
  Noon = 3
INVARIANT TypeOK
PROPERTIES EventsAreReported UnderflowsByTheLatch ClockIsRight
