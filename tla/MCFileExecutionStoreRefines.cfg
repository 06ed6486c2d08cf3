SPECIFICATION Spec
CONSTANTS
    CreationEvents = 2
    MaxEvents = 5
    MaxInterrupts = 3
    MaxTorn = 0
PROPERTIES
    ImplementsExecutionStore
CHECK_DEADLOCK FALSE
