SPECIFICATION Spec

CONSTANTS
    o1 = o1
    admin = admin
    ana = ana
    luis = luis
    eva = eva
    t1 = t1
    t2 = t2
    near = near
    far = far
    Order = {o1}
    Tenant = {t1}
    NoTenant = NoTenant
    User = {admin, ana, luis}
    NoDriver = NoDriver
    Idle = Idle
    role <- MCRole
    home <- MCHome
    HasProfile <- MCProfiles
    Request = {r1, r2}
    Dispatch = {k1}
    Asked <- UsualStatuses
    Place = {near}
    Nowhere = Nowhere
    Km <- MCKm
    OfferLimit = 10
    MaxBacklog = 0
    MaxReady = 1
    MaxFaults = 0

PROPERTIES
    CompletedByAssignee
