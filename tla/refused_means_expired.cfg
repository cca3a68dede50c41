SPECIFICATION Spec

CONSTANTS
    boss = boss
    ana = ana
    luis = luis
    t1 = t1
    t2 = t2
    User = {luis}
    Tenant = {t1, t2}
    GlobalTenant = t2
    NoUser = NoUser
    Seed <- MCSeed
    Edit = {}
    Idle = Idle
    Assigned = {}
    Device = {d1, d2}
    Request = {r1, r2}
    Serial = TRUE
    Staffed = {}
    Client = {luis}
    MaxRows = 4
    MaxFaults = 0

CHECK_DEADLOCK FALSE
SYMMETRY DeviceSymmetry

PROPERTY
    RefusedMeansExpired
