\* The close event of a replaced socket drops the live connection.
CONSTANTS
    Agents = {a1}
    Sockets = {s1, s2}
    Requests = {r1, r2}
    NoAgent = NoAgent
    NoSocket = NoSocket
SPECIFICATION Spec
PROPERTY UnregisteredMeansDisconnected
