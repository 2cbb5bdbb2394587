\* A scanner whose start raises: every thread returns, the status is not final.
CONSTANTS
    Clients = {c1, c2}
    OutputFiles = {f1, f2}
    NoConfig = NoConfig
    MaxConfigRequests = 2
    MaxStopRequests = 0
SPECIFICATION SpecG
INVARIANT QuiescentTerminal
