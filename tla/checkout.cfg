SPECIFICATION Spec

CONSTANTS
    r1 = r1
    r2 = r2
    t1 = t1
    t2 = t2
    q1 = q1
    q2 = q2
    Restaurant = {r1, r2}
    Tenant = {t1, t2}
    tenantOf <- MCTenantOf
    Product = {q1, q2}
    NoProduct = NoProduct
    Deleted = Deleted
    Slot = {k1, k2}
    Idle = Idle
    Price = {1, 2}
    Line <- MCLine
    MaxLines = 2
    MaxOrders = 1

SYMMETRY SlotSymmetry

INVARIANTS
    OrdersAddUp
    ItemsStand
    EditsStayInTenant
    IInv
