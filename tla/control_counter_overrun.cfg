SPECIFICATION HandshakeFair
CONSTANTS
  N = 85
  Word = {0, 1}
PROPERTY RunReachesDone
