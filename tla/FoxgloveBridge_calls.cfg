SPECIFICATION Spec
CONSTANTS
    alice = alice
    bob = bob
    Types <- MCTypes
    Files <- MCFiles
    Malformed = {"half"}
    Clients <- None
    Topics <- None
    Listed <- None
    Publishers <- None
    BestEffort = {}
    MinQosDepth = 1
    MaxQosDepth = 3
    Servers <- MCServers
    ListedServices <- MCListedServices
    Callers = {alice, bob}
    CallIds = {1}
    NoCall = NoCall
    Senders = {alice}
    ClientIds = {1, 2}
    Adverts <- MCAdverts
    Capabilities <- OneEach
    MaxAppearances = 1
INVARIANTS
    AnswersMatch
    NoUnknownAnswer
    JsonHasParser
PROPERTIES
    EveryServiceAdvertised
    ShutdownEnds
CHECK_DEADLOCK FALSE
