\* Violation run: AcceptedNotReady, which the spec states and the code breaks.
CONSTANTS
    Clients = {c1, c2}
    OutputFiles = {f1, f2}
    NoConfig = NoConfig
    MaxConfigRequests = 2
    MaxStopRequests = 0
SPECIFICATION Spec
SYMMETRY Symmetry
INVARIANT AcceptedNotReady
