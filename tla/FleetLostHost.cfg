CONSTANTS
    h1 = h1
    h2 = h2
    Hosts <- TwoHosts
    Commands = {c1, c2}
    Nowhere = Nowhere
    Connector <- BothProviders
SPECIFICATION Spec
PROPERTY HostStaysRegistered
CHECK_DEADLOCK FALSE
