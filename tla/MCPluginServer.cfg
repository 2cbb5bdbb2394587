\* Safety: two request contexts racing up to three configures on two paths.
CONSTANTS
    Clients = {c1, c2}
    OutputFiles = {f1, f2}
    NoConfig = NoConfig
    MaxConfigRequests = 3
    MaxStopRequests = 1
SPECIFICATION Spec
SYMMETRY Symmetry
INVARIANT QuiescentTerminal
INVARIANT StatusReflectsScans
INVARIANT UnsharedResultIntact
