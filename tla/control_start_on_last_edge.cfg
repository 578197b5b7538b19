SPECIFICATION ControlSpec
CONSTANTS
  N = 3
  Word = {0, 1}
INVARIANT DoneMeansIdle
