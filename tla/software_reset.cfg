SPECIFICATION SystemSpec
CONSTANTS
  N = 3
  Word <- Half
  Mac <- fp16_mac
  matrix_A <- MCMatrixA
  matrix_B <- MCMatrixB
INVARIANT SoftwareResetCleansC
