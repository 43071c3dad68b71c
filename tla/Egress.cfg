\* Two sticky keys on two nodes with a port each, of which one may be pinned by a
\* new configuration or by the configuration of a restart.
\* A gateway whose keys all have their listeners, or none, has nothing left to do.
SPECIFICATION Spec
CONSTANTS
    NumDeployments = 2
    Nodes = {"a", "b"}
    NoNode = "none"
    Rank <- TwoRanks
    PortStart = 1
    PortEnd = 2
    Unbound = Unbound
    NumProcesses = 2
    PinChoices <- TwoPins
    NoFile = NoFile
    NoRuntime = NoRuntime
    Idle = Idle
    NoListener = NoListener
    Gone = Gone
    WriteResults = {TRUE}
    MaxChanges = 1
INVARIANTS FileLoadable KeysFollowFile SettledKeysUseOwnNode ListenersRevive
PROPERTY BindingStays
CHECK_DEADLOCK FALSE
