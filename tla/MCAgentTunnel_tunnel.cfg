\* Two agents, three sockets, two requests.
CONSTANTS
    Agents = {a1, a2}
    Sockets = {s1, s2, s3}
    Requests = {r1, r2}
    NoAgent = NoAgent
    NoSocket = NoSocket
SPECIFICATION FairSpec
INVARIANTS
    TypeOK
    OpenIsRegistered
    WaitingIsPending
PROPERTIES
    ImplementsService
    EveryRequestSettles
    ClosingIsForgotten
