SPECIFICATION Spec
CONSTANTS
    alice = alice
    bob = bob
    Types <- MCTypes
    Files <- MCFiles
    Malformed = {"half"}
    Clients = {alice, bob}
    Topics <- MCTopics
    Listed <- MCListed
    Publishers <- MCPublishers
    BestEffort = {}
    MinQosDepth = 1
    MaxQosDepth = 3
    Servers <- None
    ListedServices <- None
    Callers <- None
    CallIds <- None
    NoCall = NoCall
    Senders <- None
    ClientIds <- None
    Adverts <- None
    Capabilities <- TopicsOnly
    MaxAppearances = 1
INVARIANTS
    ChannelsSound
    ChannelsDescribed
PROPERTIES
    QosFits
    ImplementsTopicLinks
    EveryTopicAdvertised
CHECK_DEADLOCK FALSE
