SPECIFICATION Spec
CONSTANT Configs <- RegularConfigs
INVARIANTS TypeOK MapUsable NothingLeaked
PROPERTY RemovedIsFinal
CHECK_DEADLOCK FALSE
