SPECIFICATION SystemFair
CONSTANTS
  N = 3
  Word <- Half
  Mac <- fp16_mac
  matrix_A <- MCMatrixA
  matrix_B <- MCMatrixB
INVARIANT StartOnlyWhenIdle
INVARIANT ResultsAreProduct
INVARIANT ResultsAreExact
PROPERTY DriverKeepsHandshake
PROPERTY IsMatMulUnit
PROPERTY ProgramFinishes
INVARIANT DriverInv
