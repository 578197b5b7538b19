SPECIFICATION HandshakeFair
CONSTANTS
  N = 84
  Word = {0, 1}
INVARIANT DoneMeansIdle
PROPERTY RunReachesDone
