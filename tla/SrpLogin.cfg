SPECIFICATION FairSpec
CONSTANTS
    MaxReconnects = 2
    Envs <- MCEnvs
INVARIANTS TypeOK NoCallbackAfterFree LossIsNoticed
PROPERTIES ConnectedMeansAccepted DrainedBeforeDestroyed WaitsEnd
CHECK_DEADLOCK FALSE
