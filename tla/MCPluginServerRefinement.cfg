CONSTANTS
    Clients = {c1, c2}
    OutputFiles = {f1, f2}
    NoConfig = NoConfig
    MaxConfigRequests = 1
    MaxStopRequests = 1
SPECIFICATION Spec
PROPERTY ImplementsLifecycle
PROPERTY RetiresTerminal
