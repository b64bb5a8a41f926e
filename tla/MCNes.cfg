SPECIFICATION Spec
CONSTANTS
  FrameDots = 112
  VblDot = 56
  SkipDot = 4
  DmaBytes = 2
  Program = {"nop", "cli", "sei", "branch", "crossing", "absolute", "rti", "op_brk"}
  MaxNmiWait = 2
  MaxIrqWait = 1
INVARIANTS TypeOK VblankReported NmiServed IrqServed
