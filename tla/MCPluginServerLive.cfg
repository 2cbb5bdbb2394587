\* Liveness: no symmetry reduction; two racing configures on two paths.
CONSTANTS
    Clients = {c1, c2}
    OutputFiles = {f1, f2}
    NoConfig = NoConfig
    MaxConfigRequests = 2
    MaxStopRequests = 1
SPECIFICATION Spec
PROPERTY EventuallyTerminal
