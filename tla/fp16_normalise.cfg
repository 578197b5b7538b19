SPECIFICATION AccumulatorSpec
CONSTANTS
  Operand <- MCOperand
INVARIANT SumNormalised
