CONSTANTS
    SCSI_DEVICE_BLOCK_MAX_TIMEOUT = 600
    LONG_MAX_HZ = 1000
    Devs = {d1}
    Submitters = {}
    Writers = {}
    ReconnectDelays <- MCReconnectDelays
    FastIoFailTmos <- MCFastIoFailTmos
    DevLossTmos <- MCDevLossTmos
SPECIFICATION Spec
PROPERTY RunningIsNotLost
CHECK_DEADLOCK FALSE
