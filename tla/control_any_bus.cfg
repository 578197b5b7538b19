SPECIFICATION ControlFair
CONSTANTS
  N = 84
  Word = {0, 1}
INVARIANT PhaseBounds
INVARIANT StartBitMeansBusy
PROPERTY CalcEnds
