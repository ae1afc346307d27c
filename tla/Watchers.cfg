SPECIFICATION Spec
CONSTANTS
    Watcher = {w1, w2}
    Queue = Queue
INVARIANTS
    RefsHaveOneOwner
    CrashesAreExcused
PROPERTIES
    CallbacksComeFromTheirWatcher
    CollectedWatchersClose
