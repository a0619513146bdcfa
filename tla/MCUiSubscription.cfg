SPECIFICATION Spec
CONSTANTS
    root = root
    child = child
    deep = deep
    dialog = dialog
    Items <- MCItems
    Path <- MCPath
    MaxUiWatcherDepth = 1
    MaxQueued = 3
INVARIANTS
    TypeOK
    SilentAfterUnsubscribe
    WatchesReachableScene
PROPERTIES
    ChangesAreReported
