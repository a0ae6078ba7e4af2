SPECIFICATION Spec
CONSTANTS
  k1 = k1
  k2 = k2
  NoModel = NoModel
  NoLimit = NoLimit
  NoRun = NoRun
  Mixed = Mixed
  Keys <- MCKeys
  Models <- MCModels
  KeyOf <- MCKeyOf
  ScoreOf <- MCScoreOf
  Files <- MCFiles
  Limits = {1, 4}
  FileLength = 4
  MaxCommands = 2
  MaxPolls = 1
  MaxSendFailures = 1
CHECK_DEADLOCK FALSE
INVARIANTS SampleIsFirstOfEach PipeAgreesWithCli RowMeansOnePacket
