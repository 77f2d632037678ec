CONSTANT MaxChanges = 3
SPECIFICATION MonitorFairSpec
PROPERTIES StartupLockIsTemporary
