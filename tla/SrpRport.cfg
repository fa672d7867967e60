CONSTANTS
    SCSI_DEVICE_BLOCK_MAX_TIMEOUT = 600
    LONG_MAX_HZ = 1000
    Devs = {d1}
    Submitters = {s1}
    Writers = {w1}
    ReconnectDelays <- MCReconnectDelays
    FastIoFailTmos <- MCFastIoFailTmos
    DevLossTmos <- MCDevLossTmos
SPECIFICATION Spec
INVARIANTS
    TypeOK
    BlockedIsTimed
    QueuecommandExcluded
    DevicesFollowPort
    StoppedIsQuiet
PROPERTY
    ImplementsService
CHECK_DEADLOCK FALSE
