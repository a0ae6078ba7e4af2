SPECIFICATION Spec
CONSTANTS
  k1 = k1
  k2 = k2
  NoModel = NoModel
  Keys <- MCKeys
  Deployments <- MCDeployments
  Models <- MCModels
  Requests <- MCRequests
INVARIANT AbstentionVetoesAll
PROPERTIES DetectorsMoveOneWay PartitionsIsolated
