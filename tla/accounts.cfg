SPECIFICATION Spec

CONSTANTS
    boss = boss
    ana = ana
    luis = luis
    t1 = t1
    t2 = t2
    User = {boss, ana}
    Tenant = {t1, t2}
    GlobalTenant = t2
    NoUser = NoUser
    Seed <- MCSeed
    Edit = {e1}
    Idle = Idle
    Assigned = {"CUSTOMER"}
    Device = {d1, d2}
    Request = {r1, r2}
    Serial = FALSE
    Staffed = {boss}
    Client = {ana}
    MaxRows = 3
    MaxFaults = 1

CHECK_DEADLOCK FALSE
SYMMETRY DeviceSymmetry

INVARIANTS
    EditsStayInTenant
    RotationRevokes
    IInv

PROPERTIES
    AccountsArePermanent
    KeepsSessionPromise
