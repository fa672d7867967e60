CONSTANTS
    SCSI_DEVICE_BLOCK_MAX_TIMEOUT = 600
    LONG_MAX_HZ = 1000
    Devs = {d1}
    Submitters = {}
    Writers = {}
    ReconnectDelays <- LiveReconnectDelays
    FastIoFailTmos <- LiveFastIoFailTmos
    DevLossTmos <- LiveDevLossTmos
SPECIFICATION FairSpec
INVARIANT
    ReconnectScheduled
PROPERTIES
    HeldIoIsReleased
    RemovalCompletes
CHECK_DEADLOCK FALSE
