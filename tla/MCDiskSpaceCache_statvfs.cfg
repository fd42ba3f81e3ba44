\* Two agents, two concurrent calls, a cache of one step of the clock.
SPECIFICATION FairSpec
CONSTANTS
    Agents = {srv1, srv2}
    Requests = {r1, r2}
    Ttl = 1
    MaxTime = 1
    NoServer = NoServer
INVARIANTS
    TypeOK
    MeasuredInTime
    MeasuredIsOnline
PROPERTY EveryStatvfsAnswered
