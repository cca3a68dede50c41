SPECIFICATION FairSpec

CONSTANTS
    a1 = a1
    a2 = a2
    a3 = a3
    b1 = b1
    ana = ana
    luis = luis
    p1 = p1
    p2 = p2
    o1 = o1
    Socket = {a1, a2, a3}
    User = {ana, luis}
    Process = {p1, p2}
    Order = {o1}
    NoDriver = NoDriver
    NoOrder = NoOrder
    owner <- MCOwner
    at <- MCAt
    concerned <- MCConcerned
    Drivers = {ana}

CHECK_DEADLOCK FALSE

INVARIANTS
    SeenAreKicked
    NobodyKickedAlone
    MembersHadAccess
    IInv

PROPERTIES
    HandshakeEnds
    ReplacedLeaves
