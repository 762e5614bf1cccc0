CONSTANTS
    h1 = h1
    w1 = w1
    w2 = w2
    Hosts <- OneHost
    Commands = {c1}
    Nowhere = Nowhere
    Connector <- OnSesterce
    Works <- OneWork
    Workers = {monitor, cli}
    MonitorOf <- Monitored
    monitor = monitor
    NoWork = NoWork
    HostOf <- OnFirst
SPECIFICATION FairFleet
INVARIANTS
    VerdictIsTrue
PROPERTIES
    ExitIsRecorded
CHECK_DEADLOCK FALSE
