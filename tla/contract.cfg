SPECIFICATION MCSpec
CONSTANTS
  N = 2
  Word <- MCWord
  Mac <- MCMac
  HostRequests <- MCRequests
  DeployedRequests <- MCDeployedRequests
  MaxRuns = 2
INVARIANT ResultCorrect
INVARIANT SkewFlushed
INVARIANT RunAligned
INVARIANT DeployedResult
