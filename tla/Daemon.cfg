SPECIFICATION Spec
CONSTANTS
  Configs <- MCConfigs
  Fallback = 9
  Watchers = {1, 2, 3}
  QueueCap = 1
  MaxReloads = 2
  MaxEvents = 2
  EarlyReloads = FALSE
INVARIANTS WatchersOwned NoticedReload
PROPERTY Terminates
CHECK_DEADLOCK FALSE
