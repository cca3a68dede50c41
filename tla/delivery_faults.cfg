SPECIFICATION Spec

CONSTANTS
    o1 = o1
    admin = admin
    ana = ana
    luis = luis
    eva = eva
    t1 = t1
    t2 = t2
    near = near
    far = far
    Order = {o1}
    Tenant = {t1, t2}
    NoTenant = NoTenant
    User = {admin, eva}
    NoDriver = NoDriver
    Idle = Idle
    role <- MCRole
    home <- MCHome
    HasProfile <- MCProfiles
    Request = {r1, r2}
    Dispatch = {k1, k2}
    Asked <- HandStatuses
    Place = {near}
    Nowhere = Nowhere
    Km <- MCKm
    OfferLimit = 10
    MaxBacklog = 0
    MaxReady = 2
    MaxFaults = 1

SYMMETRY SlotSymmetry

INVARIANTS
    MilestonesInOrder
    TenantIsolation
    ReadyNeverForgotten
    OffersPerRound
    RoundsAddUp
    OfferedMeansRecorded
    OffersNeverForgotten
    AnnouncedWasTrue

PROPERTIES
    SettledIsFinal
