SPECIFICATION Spec
CONSTANTS
    Clients = {alice, bob}
    Params <- MCParams
    Allowed <- MCAllowed
    Optional <- MCOptional
    OwnNode = "/foxglove_bridge"
    Names <- MCNames
INVARIANTS
    NodesServed
    AnswersWhole
PROPERTIES
    MutexReturned
CHECK_DEADLOCK FALSE
