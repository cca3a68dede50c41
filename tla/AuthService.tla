------------------------------- MODULE AuthService -------------------------------
(***************************************************************************)
(* AuthService: login, registration, refresh with rotation, and logout,    *)
(* over the table of refresh tokens.  A refresh finds a row, revokes it    *)
(* and saves a new one, in three statements and no transaction; requests   *)
(* of any devices interleave between them.                                 *)
(*                                                                         *)
(* A token is the number of the row it was saved in; it names its user and *)
(* its device.  bcrypt.compare looks at the first 72 bytes of a token,     *)
(* which all tokens of a user share: once a row of the user is found, the  *)
(* comparison lets every token of that user pass.                          *)
(***************************************************************************)
EXTENDS Users, Sequences, FiniteSets

CONSTANTS
    Device,
    Request,        \* slots for requests in flight
    Serial,         \* TRUE: a device sends one request at a time, presents the
                    \* token it was last given, and logs in only without one
    Staffed,        \* users with a RestaurantStaff row, which no handler creates
    Client,         \* bound: the users whose devices send requests
    MaxRows,        \* bound: rows ever saved
    MaxFaults       \* bound: failed or unanswered statements, and crashes

\* History of a row.  parent: the row that the refresh which saved this one
\* revoked, 0 for a login; session: the row that the login saved.
Row == [user : User, device : Device, revoked : BOOLEAN, parent : Nat, session : Nat]

\* A login or a registration is about to save its row; a refresh is about to
\* revoke the row it found, every row of the user, or to save.
Step == {"revoke", "revokeAll", "save"}
InFlight == [step : Step, user : User, device : Device, found : Nat]

ASSUME AuthAssumption ==
    /\ Serial \in BOOLEAN
    /\ Client \cup Staffed \subseteq User
    /\ MaxRows \in Nat
    /\ MaxFaults \in Nat
    /\ Idle \notin InFlight

VARIABLES
    rows,           \* the table RefreshToken, in the order of creation
    expired,        \* rows 1 .. expired, and their tokens, are past their 7 days
    requests,       \* [Request -> a handler between two of its awaits, or Idle]
    held,           \* [User -> [Device -> the token last received, 0 for none]],
                    \* of serial devices: others may present any token they had
    everyOut,       \* history: the rows there were when a user last logged out
                    \* of all sessions, 0 if it never did
    faults          \* failures so far

sessionVars == <<rows, expired, requests, held, everyOut, faults>>

SessionsTypeOK ==
    /\ rows \in Seq(Row)
    /\ expired \in Nat
    /\ requests \in [Request -> InFlight \cup {Idle}]
    /\ held \in [User -> [Device -> Nat]]
    /\ everyOut \in [User -> Nat]
    /\ faults \in Nat

SessionsInit ==
    /\ rows = << >>
    /\ expired = 0
    /\ requests = [r \in Request |-> Idle]
    /\ held = [u \in User |-> [d \in Device |-> 0]]
    /\ everyOut = [u \in User |-> 0]
    /\ faults = 0

--------------------------------------------------------------------------------
Busy(r) == requests[r] # Idle
At(r, step) == Busy(r) /\ requests[r].step = step

\* The rows of a device that are not revoked, expired or not.
Live(u, d) ==
    {x \in DOMAIN rows : /\ rows[x].user = u /\ rows[x].device = d
                         /\ ~rows[x].revoked}

\* The table once the rows in S are revoked.
Revoked(S) == [x \in DOMAIN rows |-> [rows[x] EXCEPT !.revoked = @ \/ x \in S]]
RowsOf(u) == {x \in DOMAIN rows : rows[x].user = u}

RequestsOf(u, d) ==
    {r \in Request : Busy(r) /\ requests[r].user = u /\ requests[r].device = d}

\* The bounds and the discipline under which a device sends a request.
MaySend(u, d) == Serial => RequestsOf(u, d) = {}
Accepts(r, u, d) ==
    /\ ~Busy(r)
    /\ Len(rows) + Cardinality({q \in Request : Busy(q)}) < MaxRows
    /\ MaySend(u, d)
SignsIn(r, u, d) == Accepts(r, u, d) /\ (Serial => held[u][d] = 0)
Presented(u, d) ==
    IF Serial THEN {held[u][d]} \ {0}
    ELSE {x \in RowsOf(u) : rows[x].device = d}

Hold(r, step, u, d, x) ==
    requests' = [requests EXCEPT ![r] =
                   [step |-> step, user |-> u, device |-> d, found |-> x]]
Finish(r) == requests' = [requests EXCEPT ![r] = Idle]
Holds(u, d, x) == held' = [held EXCEPT ![u][d] = IF Serial THEN x ELSE 0]

--------------------------------------------------------------------------------
\* The tokens of a restaurant's staff name its restaurant; without a row to read
\* it from, the login throws.
StaffRoles == {"RESTAURANT_ADMIN", "RESTAURANT_CASHIER"}
HasRestaurant(u) == users[u].role \in StaffRoles => u \in Staffed

\* login, with the right password.
LoginRead(r, u, d) ==
    /\ SignsIn(r, u, d)
    /\ Known(u) /\ users[u].isActive /\ HasRestaurant(u)
    /\ Hold(r, "save", u, d, 0)
    /\ UNCHANGED <<usersVars, rows, expired, held, everyOut, faults>>

\* register: the user is committed before the session is saved.
RegisterInsert(r, u, d, t, role) ==
    /\ SignsIn(r, u, d)
    /\ Register(u, t, role)
    /\ Hold(r, "save", u, d, 0)
    /\ UNCHANGED <<rows, expired, held, everyOut, faults>>

\* Mutant: a row that was rotated is found again.
FindableEver(u, d) == {x \in RowsOf(u) : rows[x].device = d}

\* What findFirst may return: any row of the device that is not revoked.
Findable(u, d) == Live(u, d)

\* refreshToken up to its first write: the token's signature and age are good.
\* No row: every session of the user is about to be revoked.  Otherwise any of
\* the rows found may come first (findFirst has no order); an expired one
\* refuses the token.
RefreshFind(r, u, d) ==
    /\ Accepts(r, u, d)
    /\ \E x \in Presented(u, d) : x > expired
    /\ \/ /\ Findable(u, d) = {}
          /\ Hold(r, "revokeAll", u, d, 0)
          /\ UNCHANGED held
       \/ \E y \in Findable(u, d) :
            IF y > expired THEN Hold(r, "revoke", u, d, y) /\ UNCHANGED held
            ELSE Holds(u, d, 0) /\ UNCHANGED requests
    /\ UNCHANGED <<usersVars, rows, expired, everyOut, faults>>

\* A token past its 7 days is refused before the table is read.
RefreshTooLate(u, d) ==
    /\ Presented(u, d) \cap (1 .. expired) # {}
    /\ MaySend(u, d)
    /\ Holds(u, d, 0)
    /\ UNCHANGED <<usersVars, rows, expired, requests, everyOut, faults>>

\* The row that a request at "save" adds to the table.
Saved(q) ==
    [user |-> q.user, device |-> q.device, revoked |-> FALSE, parent |-> q.found,
     session |-> IF q.found = 0 THEN Len(rows) + 1 ELSE rows[q.found].session]

\* Mutant: leaves the rotated row as it was.
WrittenKeeping(r) ==
    LET q == requests[r] IN
      CASE q.step = "revoke" -> rows
        [] q.step = "revokeAll" -> Revoked(RowsOf(q.user))
        [] q.step = "save" -> Append(rows, Saved(q))

\* The table once the statement that a request is at has been executed.
Written(r) ==
    LET q == requests[r] IN
      CASE q.step = "revoke" -> Revoked({q.found})
        [] q.step = "revokeAll" -> Revoked(RowsOf(q.user))
        [] q.step = "save" -> Append(rows, Saved(q))

RefreshRevoke(r) ==
    /\ At(r, "revoke")
    /\ rows' = Written(r)
    /\ requests' = [requests EXCEPT ![r].step = "save"]
    /\ UNCHANGED <<usersVars, expired, held, everyOut, faults>>

RefreshRevokeAll(r) ==
    /\ At(r, "revokeAll")
    /\ rows' = Written(r)
    /\ Finish(r)
    /\ Holds(requests[r].user, requests[r].device, 0)
    /\ UNCHANGED <<usersVars, expired, everyOut, faults>>

\* saveRefreshToken, and the answer with the token.
SaveRefreshToken(r) ==
    /\ At(r, "save")
    /\ rows' = Written(r)
    /\ Finish(r)
    /\ Holds(requests[r].user, requests[r].device, Len(rows) + 1)
    /\ UNCHANGED <<usersVars, expired, everyOut, faults>>

--------------------------------------------------------------------------------
\* Mutant: ends the sessions of every device.
LoggedOutEverywhere(u, d) == RowsOf(u)

\* What logout revokes.
LoggedOut(u, d) == Live(u, d)

\* logout and logoutAllSessions, behind JwtAuthGuard, by a device that forgets
\* its token with it.
Logout(u, d) ==
    /\ validate(u)
    /\ MaySend(u, d)
    /\ Serial => held[u][d] # 0
    /\ rows' = Revoked(LoggedOut(u, d))
    /\ Holds(u, d, 0)
    /\ UNCHANGED <<usersVars, expired, requests, everyOut, faults>>

LogoutAllSessions(u, d) ==
    /\ validate(u)
    /\ MaySend(u, d)
    /\ Serial => held[u][d] # 0
    /\ rows' = Revoked(RowsOf(u))
    /\ Holds(u, d, 0)
    /\ everyOut' = [everyOut EXCEPT ![u] = Len(rows)]
    /\ UNCHANGED <<usersVars, expired, requests, faults>>

\* Time: the oldest row reaches its 7 days first.
Expire ==
    /\ expired < Len(rows)
    /\ expired' = expired + 1
    /\ UNCHANGED <<usersVars, rows, requests, held, everyOut, faults>>

--------------------------------------------------------------------------------
Fault == faults < MaxFaults /\ faults' = faults + 1

\* A statement throws, executed or not, or the answer is lost: the handler
\* ends, and the device keeps its token or gives it up.
RequestFails(r) ==
    /\ Busy(r)
    /\ Fault
    /\ rows' \in {rows, Written(r)}
    /\ Finish(r)
    /\ UNCHANGED held \/ Holds(requests[r].user, requests[r].device, 0)
    /\ UNCHANGED <<usersVars, expired, everyOut>>

RequestArrives ==
    \E r \in Request, u \in Client, d \in Device :
      \/ LoginRead(r, u, d)
      \/ \E t \in Tenant, role \in Assigned : RegisterInsert(r, u, d, t, role)
      \/ RefreshFind(r, u, d)

RequestStep(r) == RefreshRevoke(r) \/ RefreshRevokeAll(r) \/ SaveRefreshToken(r)

DeviceStep ==
    \E u \in Client, d \in Device :
      RefreshTooLate(u, d) \/ Logout(u, d) \/ LogoutAllSessions(u, d)
================================================================================
