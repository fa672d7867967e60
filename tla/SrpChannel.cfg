SPECIFICATION Spec
CONSTANTS
  Cmds = {c1, c2}
  Chans = {ch1}
  FirstChan = ch1
  Tags = {t1, t2}
  QueueSize = 3
  NoCmd = NoCmd
  Settings <- MCSettings
SYMMETRY Symmetric
INVARIANTS
  TypeOK
  CreditsConserved
  TxIusNotShared
  TskMgmtCredit
  OneHolder
  FreeReqsSound
  RightCommandCompleted
CHECK_DEADLOCK FALSE
