SPECIFICATION AccumulatorSpec
CONSTANTS
  Operand <- MCOperand
INVARIANT ProductTruncated
INVARIANT SumWithinOneUlp
