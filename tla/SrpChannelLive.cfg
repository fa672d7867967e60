SPECIFICATION FairSpec
CONSTANTS
  Cmds = {c1}
  Chans = {ch1}
  FirstChan = ch1
  Tags = {t1}
  QueueSize = 2
  NoCmd = NoCmd
  Settings <- NoRaceSettings
PROPERTIES
  CommandsReturn
CHECK_DEADLOCK FALSE
