---------------------------------- MODULE Users ---------------------------------
(***************************************************************************)
(* The table of users and the handlers that write it: UsersService, the    *)
(* creation of drivers and of registered users, behind JwtAuthGuard and    *)
(* RolesGuard.  A handler decides on one read (bcrypt or a query is        *)
(* awaited next) and writes by id later, so an edit is in flight over two  *)
(* steps.                                                                  *)
(*                                                                         *)
(* A member of User stands for an email, which is unique in the table;     *)
(* updates of the email itself are left out.                               *)
(***************************************************************************)
EXTENDS Integers

CONSTANTS
    User, Tenant,
    GlobalTenant,   \* GLOBAL_TENANT_ID, the tenant of customers
    NoUser,         \* the row of an email nobody has
    Seed,           \* the table the program starts on
    Edit, Idle,     \* slots for edits in flight, and an empty slot
    Assigned        \* bound: the roles that clients ask for

ROLE_HIERARCHY ==
    [SUPER_ADMIN |-> 6, TENANT_ADMIN |-> 5, RESTAURANT_ADMIN |-> 4,
     RESTAURANT_CASHIER |-> 3, DRIVER |-> 2, CUSTOMER |-> 1]

Role == DOMAIN ROLE_HIERARCHY

\* hasProfile: the user has a DriverProfile.
Account == [tenant : Tenant, role : Role, isActive : BOOLEAN, hasProfile : BOOLEAN]

\* What an edit holds between its read and its write: its caller's tenant,
\* and the role or the flag it is about to write.
Op == {"create", "createDriver", "update", "toggleActive"}
EditInFlight == [op : Op, by : Tenant, user : User, role : Role, isActive : BOOLEAN]

ASSUME UsersAssumption ==
    /\ GlobalTenant \in Tenant
    /\ Assigned \subseteq Role
    /\ NoUser \notin Account
    /\ Seed \in [User -> Account \cup {NoUser}]
    /\ Idle \notin EditInFlight

VARIABLES
    users,          \* [User -> a row, or NoUser]
    edits           \* [Edit -> an edit between two of its awaits, or Idle]

usersVars == <<users, edits>>

UsersTypeOK ==
    /\ users \in [User -> Account \cup {NoUser}]
    /\ edits \in [Edit -> EditInFlight \cup {Idle}]

UsersInit ==
    /\ users = Seed
    /\ edits = [e \in Edit |-> Idle]

Known(u) == users[u] # NoUser
Edits(e, op) == edits[e] # Idle /\ edits[e].op = op

--------------------------------------------------------------------------------
\* JwtStrategy.validate: the caller exists and is active now, whatever the
\* access token says.  (No reachable route deactivates a tenant.)
validate(c) == Known(c) /\ users[c].isActive

\* RolesGuard: as high as one of the roles asked for.
canActivate(c, required) ==
    \E r \in required : ROLE_HIERARCHY[users[c].role] >= ROLE_HIERARCHY[r]

Admins == {"SUPER_ADMIN", "TENANT_ADMIN", "RESTAURANT_ADMIN"}

Start(e, op, c, u, r, active) ==
    /\ edits[e] = Idle
    /\ edits' = [edits EXCEPT ![e] =
                   [op |-> op, by |-> users[c].tenant, user |-> u, role |-> r,
                    isActive |-> active]]
    /\ UNCHANGED users

\* create: only roles below the caller's.
CreateRead(e, c, u, r) ==
    /\ validate(c) /\ canActivate(c, Admins)
    /\ ROLE_HIERARCHY[r] < ROLE_HIERARCHY[users[c].role]
    /\ Start(e, "create", c, u, r, TRUE)

\* createDriver
CreateDriverRead(e, c, u) ==
    /\ validate(c) /\ canActivate(c, {"RESTAURANT_ADMIN"})
    /\ Start(e, "createDriver", c, u, "DRIVER", TRUE)

\* Mutant: looks the user up by id alone.
FindOneAnywhere(c, u) == Known(u)

\* findOne: a user of the caller's tenant.
findOne(c, u) == Known(u) /\ users[u].tenant = users[c].tenant

\* update (of the role; the other fields decide nothing) and toggleActive.
UpdateFind(e, c, u, r) ==
    /\ validate(c) /\ findOne(c, u)
    /\ Start(e, "update", c, u, r, TRUE)
ToggleActiveFind(e, c, u, active) ==
    /\ validate(c) /\ findOne(c, u)
    /\ Start(e, "toggleActive", c, u, users[u].role, active)

--------------------------------------------------------------------------------
Finished(e) == edits' = [edits EXCEPT ![e] = Idle]

\* Mutant: creating an email that is there replaces its row.
InsertAnyway(u, t, r, driver) ==
    users' = [users EXCEPT ![u] = [tenant |-> t, role |-> r, isActive |-> TRUE,
                                   hasProfile |-> driver]]

\* A new row of the table; an email that is there already refuses it.
Insert(u, t, r, driver) ==
    /\ ~Known(u)
    /\ users' = [users EXCEPT ![u] = [tenant |-> t, role |-> r, isActive |-> TRUE,
                                      hasProfile |-> driver]]

\* The user of createDriver gets its profile in the same transaction.
CreateInsert(e) ==
    /\ Edits(e, "create") \/ Edits(e, "createDriver")
    /\ Insert(edits[e].user, edits[e].by, edits[e].role, Edits(e, "createDriver"))
    /\ Finished(e)

UpdateWrite(e) ==
    /\ Edits(e, "update")
    /\ users' = [users EXCEPT ![edits[e].user].role = edits[e].role]
    /\ Finished(e)

ToggleActiveWrite(e) ==
    /\ Edits(e, "toggleActive")
    /\ users' = [users EXCEPT ![edits[e].user].isActive = edits[e].isActive]
    /\ Finished(e)

\* The write throws: the email is taken, or the database fails.
EditFails(e) ==
    /\ edits[e] # Idle
    /\ Finished(e)
    /\ UNCHANGED users

\* AuthService.register inserts a user of whatever role is asked for; customers
\* belong to the global tenant.
Register(u, t, r) ==
    /\ r = "CUSTOMER" => t = GlobalTenant
    /\ Insert(u, t, r, FALSE)
    /\ UNCHANGED edits

EditArrives ==
    \E e \in Edit, c, u \in User :
      \/ \E r \in Assigned : CreateRead(e, c, u, r) \/ UpdateFind(e, c, u, r)
      \/ CreateDriverRead(e, c, u)
      \/ \E active \in BOOLEAN : ToggleActiveFind(e, c, u, active)

EditStep(e) ==
    CreateInsert(e) \/ UpdateWrite(e) \/ ToggleActiveWrite(e) \/ EditFails(e)
================================================================================
