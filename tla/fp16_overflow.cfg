SPECIFICATION AccumulatorSpec
CONSTANTS
  Operand <- MCOperand
INVARIANT OverflowGuarded
