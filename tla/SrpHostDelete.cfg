SPECIFICATION Spec
CONSTANTS
    Ports = {1, 2}
    Targets = {t1, t2, t3}
    t1 = t1
    t2 = t2
    t3 = t3
    i1 = i1
    i2 = i2
    Ids = {i1, i2}
    Logins <- MCLogins
    Deleters = {"dev_loss", "sysfs"}
    Nobody = nobody
INVARIANT NoUseAfterFree
CHECK_DEADLOCK FALSE
