SPECIFICATION QueueSpec
CONSTANTS
    Task = {t1, t2, t3, t4}
    Capacity = 2
INVARIANT QueueInv
PROPERTY ImplementsSerialExecutor
PROPERTY EveryAcceptedTaskBegins
PROPERTY StopTerminates
