------------------------------ MODULE SerialProofs -------------------------------
(***************************************************************************)
(* Devices that send one request at a time.  What a device asks for may    *)
(* still race the requests of its user's other devices, which revoke rows  *)
(* too.  A row is rotated at most once all the same: only the one request  *)
(* of its device carries it, and a row that was rotated is revoked, and    *)
(* never found again (FoundUnrotated).  And a device keeps its session:    *)
(* what would end it behind its back, a refresh that finds no row and so   *)
(* revokes every one of the user's, does not happen to a device that has   *)
(* one (NoneRevokesAll).                                                   *)
(***************************************************************************)
EXTENDS AccountsProofs

\* At most one request of a device is in flight.
Solo ==
    \A p, q \in Request :
      /\ Busy(p) /\ Busy(q)
      /\ requests[p].user = requests[q].user
      /\ requests[p].device = requests[q].device
      => p = q

\* No row came from x.
Unrotated(x) == \A y \in DOMAIN rows : rows[y].parent # x

\* No row came yet from one that a request carries.
FoundUnrotated ==
    \A r \in Request :
      Busy(r) /\ requests[r].found # 0 => Unrotated(requests[r].found)

\* The inductive invariant of RotatedOnce, relative to IInv.
SInv == Serial => Solo /\ FoundUnrotated /\ RotatedOnce

--------------------------------------------------------------------------------
(* The steps, as far as rotation is concerned. *)

\* A step that saves no row and starts no request: requests go on or end.
ParentsSame ==
    /\ DOMAIN rows' = DOMAIN rows
    /\ \A x \in DOMAIN rows : rows'[x].parent = rows[x].parent
GoesOn(r) ==
    \/ ~Busy(r)'
    \/ /\ Busy(r)
       /\ requests'[r].user = requests[r].user
       /\ requests'[r].device = requests[r].device
       /\ requests'[r].found = requests[r].found
Continues == ParentsSame /\ \A r \in Request : GoesOn(r)

\* A step that starts a request of a device that had none in flight.
Starts(r, u, d, x) ==
    /\ rows' = rows
    /\ RequestsOf(u, d) = {}
    /\ x # 0 => x \in Live(u, d)
    /\ requests'[r].user = u /\ requests'[r].device = d /\ requests'[r].found = x
    /\ \A o \in Request \ {r} : requests'[o] = requests[o]

\* A step that saves a row.
Saves(r) ==
    /\ Busy(r) /\ ~Busy(r)'
    /\ rows' = Append(rows, Saved(requests[r]))
    /\ \A o \in Request \ {r} : requests'[o] = requests[o]

\* Revoking changes no parent.
LEMMA RevokedParents ==
    ASSUME IInv, NEW S, rows' = Revoked(S)
    PROVE  ParentsSame
<1>1. rows \in Seq(Row)
  BY DEF IInv, TypeOK, SessionsTypeOK
<1>2. DOMAIN rows' = DOMAIN rows
  BY RevokedKeeps
<1>3. ASSUME NEW x \in DOMAIN rows
      PROVE  rows'[x].parent = rows[x].parent
  <2>1. rows[x] \in Row
    BY <1>1, <1>3
  <2>2. rows'[x] = [rows[x] EXCEPT !.revoked = @ \/ x \in S]
    BY <1>3 DEF Revoked
  <2>3. QED
    BY <2>1, <2>2 DEF Row
<1>4. QED
  BY <1>2, <1>3 DEF ParentsSame

\* A request accepted from a serial device is its only one.
LEMMA HoldStarts ==
    ASSUME Serial, IInv, NEW r \in Request, NEW u \in User, NEW d \in Device,
           NEW step, NEW x \in Nat, Accepts(r, u, d), Hold(r, step, u, d, x),
           x # 0 => x \in Live(u, d), rows' = rows
    PROVE  Starts(r, u, d, x)
<1> DEFINE q == [step |-> step, user |-> u, device |-> d, found |-> x]
<1>1. q.user = u /\ q.device = d /\ q.found = x
  OBVIOUS
<1>2. requests' = [requests EXCEPT ![r] = q]
  BY DEF Hold
<1> HIDE DEF q
<1>3. requests'[r] = q /\ \A o \in Request \ {r} : requests'[o] = requests[o]
  BY <1>2 DEF IInv, TypeOK, SessionsTypeOK
<1>4. QED
  BY <1>1, <1>3 DEF Starts, Accepts, MaySend

\* The statement of a request, executed or not, when the request ends with it.
LEMMA EndKind ==
    ASSUME IInv, NEW r \in Request, Busy(r), rows' \in {rows, Written(r)}, Finish(r)
    PROVE  Continues \/ Saves(r)
<1>1. /\ ~Busy(r)'
      /\ \A o \in Request \ {r} : requests'[o] = requests[o]
  BY DEF Finish, Busy, IInv, TypeOK, SessionsTypeOK
<1>2. \A o \in Request : GoesOn(o)
  BY <1>1 DEF GoesOn, Busy
<1>3. requests[r] \in InFlight
  BY RequestJustified
<1>4. CASE rows' = rows
  BY <1>2, <1>4 DEF Continues, ParentsSame
<1>5. CASE rows' = Written(r) /\ requests[r].step = "save"
  BY <1>1, <1>5 DEF Saves, Written
<1>6. CASE rows' = Written(r) /\ requests[r].step # "save"
  <2>1. \E S : rows' = Revoked(S)
    BY <1>3, <1>6 DEF InFlight, Step, Written
  <2>2. QED
    BY <1>2, <2>1, RevokedParents DEF Continues
<1>7. QED
  BY <1>4, <1>5, <1>6

\* Every step is of one of the three kinds.
LEMMA SerialKinds ==
    ASSUME Serial, IInv, [Next]_vars
    PROVE  \/ Continues
           \/ \E r \in Request, u \in User, d \in Device, x \in Nat : Starts(r, u, d, x)
           \/ \E r \in Request : Saves(r)
<1>1. ASSUME UNCHANGED <<rows, requests>>
      PROVE  Continues
  BY <1>1 DEF Continues, ParentsSame, GoesOn, Busy
<1>2. CASE UNCHANGED vars
  BY <1>1, <1>2 DEF vars, sessionVars
<1>3. ASSUME NEW r \in Request, NEW u \in Client, NEW d \in Device,
             \/ LoginRead(r, u, d)
             \/ \E t \in Tenant, role \in Assigned : RegisterInsert(r, u, d, t, role)
      PROVE  Starts(r, u, d, 0) /\ u \in User
  <2>1. u \in User /\ 0 \in Nat
    BY AuthAssumption
  <2>2. Accepts(r, u, d) /\ Hold(r, "save", u, d, 0) /\ rows' = rows
    BY <1>3 DEF LoginRead, RegisterInsert, SignsIn
  <2>3. QED
    BY <2>1, <2>2, HoldStarts
<1>4. ASSUME NEW r \in Request, NEW u \in Client, NEW d \in Device, RefreshFind(r, u, d)
      PROVE  Continues \/ \E x \in Nat : Starts(r, u, d, x) /\ u \in User
  <2>1. u \in User /\ 0 \in Nat /\ Accepts(r, u, d) /\ rows' = rows
    BY <1>4, AuthAssumption DEF RefreshFind
  <2>2. CASE Hold(r, "revokeAll", u, d, 0)
    BY <2>1, <2>2, HoldStarts
  <2>3. ASSUME NEW y \in Findable(u, d), Hold(r, "revoke", u, d, y)
        PROVE  Starts(r, u, d, y) /\ y \in Nat
    <3>1. y \in Live(u, d) /\ y \in Nat
      BY <2>3 DEF Findable, Live, IInv, TypeOK, SessionsTypeOK
    <3>2. QED
      BY <2>1, <2>3, <3>1, HoldStarts
  <2>4. CASE UNCHANGED requests
    BY <1>1, <2>1, <2>4
  <2>5. QED
    BY <1>4, <2>1, <2>2, <2>3, <2>4 DEF RefreshFind
<1>5. ASSUME NEW r \in Request, RefreshRevoke(r)
      PROVE  Continues
  <2>1. requests[r] \in InFlight /\ Busy(r)
    BY <1>5, RequestJustified DEF RefreshRevoke, At
  <2>2. /\ requests'[r] = [requests[r] EXCEPT !.step = "save"]
        /\ \A o \in Request \ {r} : requests'[o] = requests[o]
    BY <1>5 DEF RefreshRevoke, IInv, TypeOK, SessionsTypeOK
  <2>3. /\ requests'[r].user = requests[r].user
        /\ requests'[r].device = requests[r].device
        /\ requests'[r].found = requests[r].found
    BY <2>1, <2>2 DEF InFlight
  <2>4. rows' = Revoked({requests[r].found})
    BY <1>5 DEF RefreshRevoke, At, Written
  <2>5. QED
    BY <2>1, <2>2, <2>3, <2>4, RevokedParents DEF Continues, GoesOn, Busy
<1>6. ASSUME NEW r \in Request,
             RefreshRevokeAll(r) \/ SaveRefreshToken(r) \/ RequestFails(r)
      PROVE  Continues \/ Saves(r)
  BY <1>6, EndKind DEF RefreshRevokeAll, SaveRefreshToken, RequestFails, At
<1>7. CASE DeviceStep
  <2>1. requests' = requests /\ (rows' = rows \/ \E S : rows' = Revoked(S))
    BY <1>7 DEF DeviceStep, RefreshTooLate, Logout, LogoutAllSessions
  <2>2. QED
    BY <1>1, <2>1, RevokedParents DEF Continues, GoesOn, Busy
<1>8. CASE Expire \/ UNCHANGED sessionVars
  BY <1>1, <1>8 DEF Expire, sessionVars
<1>9. CASE Crash
  BY <1>9 DEF Crash, Continues, ParentsSame, GoesOn, Busy
<1>10. QED
  BY <1>2, <1>3, <1>4, <1>5, <1>6, <1>7, <1>8, <1>9, AuthAssumption
     DEF Next, RequestArrives, RequestStep

--------------------------------------------------------------------------------
(* Each kind keeps the invariant. *)

\* Nothing new: what came from what is as before.
LEMMA ContinuesKeeps ==
    ASSUME Serial, IInv, SInv, Continues
    PROVE  SInv'
<1>1. Solo'
  BY DEF SInv, Solo, Continues, GoesOn, Busy
<1>2. FoundUnrotated'
  BY DEF SInv, FoundUnrotated, Unrotated, Continues, ParentsSame, GoesOn, Busy
<1>3. RotatedOnce'
  BY DEF SInv, RotatedOnce, Continues, ParentsSame
<1>4. QED
  BY <1>1, <1>2, <1>3 DEF SInv

\* The row that a refresh finds is alive, so no refresh has rotated it.
LEMMA StartsKeeps ==
    ASSUME Serial, IInv, SInv, NEW r \in Request, NEW u \in User, NEW d \in Device,
           NEW x \in Nat, Starts(r, u, d, x)
    PROVE  SInv'
<1>1. Solo'
  BY DEF SInv, Solo, Starts, RequestsOf, Busy
<1>2. x # 0 => Unrotated(x)
  BY DEF Starts, Live, IInv, RotationRevokes, Unrotated
<1>3. FoundUnrotated'
  BY <1>2 DEF SInv, FoundUnrotated, Unrotated, Starts, Busy
<1>4. RotatedOnce'
  BY DEF SInv, RotatedOnce, Starts
<1>5. QED
  BY <1>1, <1>3, <1>4 DEF SInv

\* The row saved came from one that no other request carries.
LEMMA SavesKeeps ==
    ASSUME Serial, IInv, SInv, NEW r \in Request, Saves(r)
    PROVE  SInv'
<1> DEFINE q == requests[r]
           row == Saved(q)
<1>1. q \in InFlight /\ Justified(q)
  BY RequestJustified DEF Saves
<1>2. row \in Row /\ row.parent = q.found
  BY <1>1, SavedRow
<1>3. rows' = Append(rows, row)
  BY DEF Saves
<1> HIDE DEF row
<1>4. /\ DOMAIN rows' = 1 .. Len(rows) + 1
      /\ \A x \in DOMAIN rows : rows'[x] = rows[x]
      /\ rows'[Len(rows) + 1] = row
  BY <1>2, <1>3, Appended
<1>5. \A x \in DOMAIN rows' : x \in DOMAIN rows \/ x = Len(rows) + 1
  BY <1>4 DEF IInv, TypeOK, SessionsTypeOK
<1>6. Solo'
  BY DEF SInv, Solo, Saves, Busy
<1>7. FoundUnrotated'
  <2> SUFFICES ASSUME NEW o \in Request, Busy(o)', requests'[o].found # 0,
                      NEW x \in DOMAIN rows'
               PROVE  rows'[x].parent # requests'[o].found
    BY DEF FoundUnrotated, Unrotated
  <2>1. o # r /\ requests'[o] = requests[o] /\ Busy(o)
    BY DEF Saves, Busy
  <2>2. CASE x \in DOMAIN rows
    BY <1>4, <2>1, <2>2 DEF SInv, FoundUnrotated, Unrotated
  <2>3. requests[o].found # q.found
    <3>1. Justified(requests[o])
      BY <2>1, RequestJustified
    <3>2. requests[o].found = q.found =>
            requests[o].user = q.user /\ requests[o].device = q.device
      BY <1>1, <2>1, <3>1 DEF Justified
    <3>3. QED
      BY <2>1, <3>2 DEF SInv, Solo, Saves
  <2>4. QED
    BY <1>2, <1>4, <1>5, <2>1, <2>2, <2>3
<1>8. RotatedOnce'
  <2>1. q.found # 0 => Unrotated(q.found)
    BY DEF SInv, FoundUnrotated, Saves
  <2>2. QED
    BY <1>2, <1>4, <1>5, <2>1 DEF SInv, RotatedOnce, Unrotated
<1>9. QED
  BY <1>6, <1>7, <1>8 DEF SInv

\* The invariant holds at first,
LEMMA InitSInv == Init => SInv
BY DEF Init, SessionsInit, SInv, Solo, FoundUnrotated, Busy, RotatedOnce

\* and every step keeps it.
LEMMA NextSInv == IInv /\ SInv /\ [Next]_vars => SInv'
<1> SUFFICES ASSUME IInv, SInv, [Next]_vars
             PROVE  SInv'
  OBVIOUS
<1>1. CASE Serial
  BY <1>1, SerialKinds, ContinuesKeeps, StartsKeeps, SavesKeeps
<1>2. CASE ~Serial
  BY <1>2 DEF SInv
<1>3. QED
  BY <1>1, <1>2

(***************************************************************************)
(* If devices send one request at a time, no session is rotated into two,  *)
(* with any number of devices, lost answers, failures and crashes, though  *)
(* refreshToken finds, revokes and saves in three statements.              *)
(***************************************************************************)
THEOREM RotatesOnce == Spec => []RotatedOnce
<1>1. Spec => []SInv
  BY InitSInv, NextSInv, InvariantHolds, PTL DEF Spec
<1>2. SInv => RotatedOnce
  BY DEF SInv, RotatedOnce
<1>3. QED
  BY <1>1, <1>2, PTL

--------------------------------------------------------------------------------
(***************************************************************************)
(* A device keeps its session.                                             *)
(***************************************************************************)

\* The tokens that devices hold are rows of the table.
HeldKnown == Serial => \A u \in User, d \in Device : held[u][d] <= Len(rows)

\* A refresh that would revoke every session of its user is in flight only
\* after the user has logged out of all of them.
NoneRevokesAll ==
    Serial /\ faults = 0 =>
      \A r \in Request : At(r, "revokeAll") => everyOut[requests[r].user] # 0

\* The inductive invariant of KeepsOwnSession, relative to IInv.
KInv == HeldKnown /\ NoneRevokesAll /\ KeepsOwnSession

\* KeepsOwnSession, of one device.
Keeps(u, d) ==
    held[u][d] > expired /\ everyOut[u] = 0 /\ RequestsOf(u, d) = {}
      => held[u][d] \in Live(u, d)

\* What a step must leave a device whose session it is not about.
Spares(u, d) ==
    /\ held'[u][d] = held[u][d]
    /\ Live(u, d) \subseteq Live(u, d)'
    /\ RequestsOf(u, d)' = RequestsOf(u, d)
    /\ everyOut'[u] = everyOut[u]

\* A device that a step spares keeps what it had.
LEMMA SparedKeeps ==
    ASSUME IInv, NEW u \in User, NEW d \in Device, Keeps(u, d), Spares(u, d),
           expired' \in Nat, expired <= expired'
    PROVE  Keeps(u, d)'
<1>1. held[u][d] \in Nat /\ expired \in Nat
  BY DEF IInv, TypeOK, SessionsTypeOK
<1>2. held[u][d] > expired' => held[u][d] > expired
  BY <1>1
<1>3. QED
  BY <1>2 DEF Keeps, Spares

\* Revoking rows of other devices spares a device.
LEMMA RevokedSpares ==
    ASSUME IInv, NEW S, rows' = Revoked(S), NEW u \in User, NEW d \in Device,
           \A x \in DOMAIN rows : x \in S => ~(rows[x].user = u /\ rows[x].device = d)
    PROVE  Live(u, d) \subseteq Live(u, d)'
<1>1. RowsKept /\ rows \in Seq(Row)
  BY RevokedKeeps DEF IInv, TypeOK, SessionsTypeOK
<1>2. ASSUME NEW x \in DOMAIN rows, rows[x].user = u, rows[x].device = d, ~rows[x].revoked
      PROVE  ~rows'[x].revoked
  <2>1. rows[x] \in Row
    BY <1>1, <1>2
  <2>2. rows'[x] = [rows[x] EXCEPT !.revoked = @ \/ x \in S]
    BY <1>2 DEF Revoked
  <2>3. ~(x \in S)
    BY <1>2
  <2>4. QED
    BY <1>2, <2>1, <2>2, <2>3 DEF Row
<1>3. QED
  BY <1>1, <1>2 DEF RowsKept, Live

\* A device that gets a token, or none, and nobody else.
LEMMA HoldsOne ==
    ASSUME IInv, NEW u \in User, NEW d \in Device, NEW x \in Nat, Holds(u, d, x)
    PROVE  /\ held'[u][d] = IF Serial THEN x ELSE 0
           /\ \A v \in User, e \in Device :
                <<v, e>> # <<u, d>> => held'[v][e] = held[v][e]
BY DEF Holds, IInv, TypeOK, SessionsTypeOK

\* A step that writes one request touches the requests of its device only.
LEMMA WritesOne ==
    ASSUME IInv, NEW r \in Request, NEW q, requests' = [requests EXCEPT ![r] = q],
           NEW u \in User, NEW d \in Device,
           Busy(r) => ~(requests[r].user = u /\ requests[r].device = d),
           q # Idle => ~(q.user = u /\ q.device = d)
    PROVE  RequestsOf(u, d)' = RequestsOf(u, d)
BY DEF RequestsOf, Busy, IInv, TypeOK, SessionsTypeOK

\* The table never shrinks.
LEMMA LenGrows ==
    ASSUME Serial, IInv, [Next]_vars
    PROVE  Len(rows) \in Nat /\ Len(rows') \in Nat /\ Len(rows) <= Len(rows')
<1>1. rows \in Seq(Row) /\ rows' \in Seq(Row)
  BY StepKeeps DEF SessionsStep, IInv, TypeOK, SessionsTypeOK
<1>2. /\ Len(rows) \in Nat /\ Len(rows') \in Nat
      /\ DOMAIN rows = 1 .. Len(rows) /\ DOMAIN rows' = 1 .. Len(rows')
  BY <1>1
<1>3. CASE Continues
  <2>1. 1 .. Len(rows) = 1 .. Len(rows')
    BY <1>2, <1>3 DEF Continues, ParentsSame
  <2>2. Len(rows) = 0 \/ Len(rows) \in 1 .. Len(rows)
    BY <1>2
  <2>3. Len(rows) = 0 \/ Len(rows) \in 1 .. Len(rows')
    BY <2>1, <2>2
  <2>4. QED
    BY <1>2, <2>3
<1>4. ASSUME NEW r \in Request, NEW u \in User, NEW d \in Device, NEW x \in Nat,
             Starts(r, u, d, x)
      PROVE  Len(rows) <= Len(rows')
  BY <1>2, <1>4 DEF Starts
<1>5. ASSUME NEW r \in Request, Saves(r)
      PROVE  Len(rows) <= Len(rows')
  <2>1. Len(rows') = Len(rows) + 1
    BY <1>1, <1>5, AppendProperties DEF Saves
  <2>2. QED
    BY <1>2, <2>1
<1>6. QED
  BY <1>2, <1>3, <1>4, <1>5, SerialKinds

\* A token held is as before, the row just saved, or none.
LEMMA HeldKnownKept ==
    ASSUME Serial, IInv, HeldKnown, [Next]_vars
    PROVE  HeldKnown'
<1>1. Len(rows) \in Nat /\ Len(rows') \in Nat /\ Len(rows) <= Len(rows')
  BY LenGrows
<1>2. held \in [User -> [Device -> Nat]]
  BY DEF IInv, TypeOK, SessionsTypeOK
<1>3. CASE held' = held
  BY <1>1, <1>2, <1>3 DEF HeldKnown
<1>4. ASSUME NEW u \in User, NEW d \in Device, NEW x \in Nat, Holds(u, d, x),
             x <= Len(rows')
      PROVE  HeldKnown'
  <2>1. /\ held'[u][d] = x
        /\ \A v \in User, e \in Device : <<v, e>> # <<u, d>> => held'[v][e] = held[v][e]
    BY <1>4, HoldsOne
  <2>2. QED
    BY <1>1, <1>2, <1>4, <2>1 DEF HeldKnown
<1>5. 0 \in Nat /\ Len(rows) + 1 \in Nat /\ Client \subseteq User
  BY <1>1, AuthAssumption
<1>6. ASSUME NEW r \in Request, NEW u \in Client, NEW d \in Device, RefreshFind(r, u, d)
      PROVE  HeldKnown'
  BY <1>1, <1>3, <1>4, <1>5, <1>6 DEF RefreshFind
<1>7. ASSUME NEW r \in Request, RequestStep(r) \/ RequestFails(r)
      PROVE  HeldKnown'
  <2>1. Busy(r)
    BY <1>7 DEF RequestStep, RefreshRevoke, RefreshRevokeAll, SaveRefreshToken, At,
                RequestFails
  <2>2. requests[r].user \in User /\ requests[r].device \in Device
    BY <2>1, RequestJustified DEF InFlight
  <2>3. ASSUME SaveRefreshToken(r)
        PROVE  Len(rows') = Len(rows) + 1
    <3>1. rows' = Append(rows, Saved(requests[r]))
      BY <2>3 DEF SaveRefreshToken, At, Written
    <3>2. Saved(requests[r]) \in Row
      BY <2>1, RequestJustified, SavedRow
    <3>3. QED
      BY <3>1, <3>2, AppendProperties DEF IInv, TypeOK, SessionsTypeOK
  <2>4. CASE RefreshRevoke(r)
    BY <1>3, <2>4 DEF RefreshRevoke
  <2>5. CASE RefreshRevokeAll(r)
    BY <1>1, <1>4, <1>5, <2>2, <2>5 DEF RefreshRevokeAll
  <2>6. CASE SaveRefreshToken(r)
    BY <1>1, <1>4, <1>5, <2>2, <2>3, <2>6 DEF SaveRefreshToken
  <2>7. CASE RequestFails(r)
    BY <1>1, <1>3, <1>4, <1>5, <2>2, <2>7 DEF RequestFails
  <2>8. QED
    BY <1>7, <2>4, <2>5, <2>6, <2>7 DEF RequestStep
<1>8. CASE DeviceStep
  BY <1>1, <1>4, <1>5, <1>8 DEF DeviceStep, RefreshTooLate, Logout, LogoutAllSessions
<1>9. ASSUME \/ UNCHANGED vars \/ Expire \/ Crash \/ UNCHANGED sessionVars
             \/ \E r \in Request, u \in Client, d \in Device :
                  \/ LoginRead(r, u, d)
                  \/ \E t \in Tenant, role \in Assigned : RegisterInsert(r, u, d, t, role)
      PROVE  held' = held
  BY <1>9 DEF vars, sessionVars, Expire, Crash, LoginRead, RegisterInsert
<1>10. QED
  BY <1>3, <1>6, <1>7, <1>8, <1>9 DEF Next, RequestArrives

\* Who has logged out of all sessions has.
LEMMA EveryOutStays ==
    ASSUME Serial, IInv, HeldKnown, [Next]_vars, NEW u \in User, everyOut[u] # 0
    PROVE  everyOut'[u] # 0
<1>1. CASE everyOut' = everyOut
  BY <1>1
<1>2. ASSUME NEW v \in Client, NEW d \in Device, LogoutAllSessions(v, d)
      PROVE  everyOut'[u] # 0
  <2>1. v \in User /\ held[v][d] \in Nat /\ Len(rows) \in Nat
    BY AuthAssumption DEF IInv, TypeOK, SessionsTypeOK
  <2>2. held[v][d] # 0 /\ held[v][d] <= Len(rows)
    BY <1>2, <2>1 DEF LogoutAllSessions, HeldKnown
  <2>3. Len(rows) # 0
    BY <2>1, <2>2
  <2>4. everyOut' = [everyOut EXCEPT ![v] = Len(rows)] /\ everyOut \in [User -> Nat]
    BY <1>2 DEF LogoutAllSessions, IInv, TypeOK, SessionsTypeOK
  <2>5. QED
    BY <2>3, <2>4
<1>3. QED
  BY <1>1, <1>2 DEF Next, vars, sessionVars, RequestArrives, LoginRead, RegisterInsert,
     RefreshFind, RequestStep, RefreshRevoke, RefreshRevokeAll, SaveRefreshToken,
     RequestFails, DeviceStep, RefreshTooLate, Logout, Expire, Crash

\* A failure counts for ever.
LEMMA FaultsStay ==
    ASSUME IInv, [Next]_vars, faults' = 0
    PROVE  /\ faults = 0
           /\ ~Crash
           /\ \A r \in Request : ~RequestFails(r)
<1>1. faults \in Nat
  BY DEF IInv, TypeOK, SessionsTypeOK
<1>2. ~Crash /\ \A r \in Request : ~RequestFails(r)
  BY <1>1 DEF Crash, RequestFails, Fault
<1>3. QED
  BY <1>2 DEF Next, vars, sessionVars, RequestArrives, LoginRead, RegisterInsert,
     RefreshFind, RequestStep, RefreshRevoke, RefreshRevokeAll, SaveRefreshToken,
     DeviceStep, RefreshTooLate, Logout, LogoutAllSessions, Expire

\* A device that presents a token holds it, and finds its row: a refresh finds
\* none only after a logout from all sessions.
LEMMA RefreshFinds ==
    ASSUME Serial, faults = 0, IInv, KInv,
           NEW r \in Request, NEW u \in User, NEW d \in Device, RefreshFind(r, u, d),
           Findable(u, d) = {}
    PROVE  everyOut[u] # 0
<1>1. held[u][d] > expired
  BY DEF RefreshFind, Presented
<1>2. RequestsOf(u, d) = {}
  BY DEF RefreshFind, Accepts, MaySend
<1>3. everyOut[u] = 0 => held[u][d] \in Findable(u, d)
  BY <1>1, <1>2 DEF KInv, KeepsOwnSession, Findable
<1>4. QED
  BY <1>3

\* A request about to revoke every session was so before, or has just found none.
LEMMA NoneRevokesAllKept ==
    ASSUME Serial, faults = 0, IInv, KInv, [Next]_vars, faults' = 0
    PROVE  NoneRevokesAll'
<1> SUFFICES ASSUME NEW r \in Request, At(r, "revokeAll")'
             PROVE  everyOut'[requests'[r].user] # 0
  BY DEF NoneRevokesAll
<1>1. CASE requests'[r] = requests[r]
  <2>1. At(r, "revokeAll")
    BY <1>1 DEF At, Busy
  <2>2. requests[r].user \in User /\ everyOut[requests[r].user] # 0
    BY <2>1, RequestJustified DEF KInv, NoneRevokesAll, At, InFlight
  <2>3. QED
    BY <1>1, <2>2, EveryOutStays DEF KInv
<1>2. ASSUME NEW s \in Request, NEW step, NEW u \in User, NEW d \in Device, NEW x \in Nat,
             Hold(s, step, u, d, x), requests'[r] # requests[r]
      PROVE  step = "revokeAll" /\ r = s /\ requests'[r].user = u
  <2> DEFINE q == [step |-> step, user |-> u, device |-> d, found |-> x]
  <2>1. q.step = step /\ q.user = u
    OBVIOUS
  <2>2. requests' = [requests EXCEPT ![s] = q]
    BY <1>2 DEF Hold
  <2> HIDE DEF q
  <2>3. r = s /\ requests'[r] = q
    BY <1>2, <2>2 DEF IInv, TypeOK, SessionsTypeOK
  <2>4. QED
    BY <2>1, <2>3 DEF At
<1>3. 0 \in Nat /\ Client \subseteq User
  BY AuthAssumption
<1>4. ASSUME NEW s \in Request, NEW u \in Client, NEW d \in Device,
             \/ LoginRead(s, u, d)
             \/ \E t \in Tenant, role \in Assigned : RegisterInsert(s, u, d, t, role)
      PROVE  requests'[r] = requests[r]
  BY <1>2, <1>3, <1>4 DEF LoginRead, RegisterInsert
<1>5. ASSUME NEW s \in Request, NEW u \in Client, NEW d \in Device, RefreshFind(s, u, d),
             requests'[r] # requests[r]
      PROVE  everyOut'[requests'[r].user] # 0
  <2>1. u \in User /\ Findable(u, d) \subseteq Nat
    BY <1>3 DEF Findable, Live, IInv, TypeOK, SessionsTypeOK
  <2>2. ~\E y \in Findable(u, d) : Hold(s, "revoke", u, d, y)
    BY <1>2, <1>5, <2>1
  <2>3. Findable(u, d) = {} /\ Hold(s, "revokeAll", u, d, 0)
    BY <1>5, <2>2 DEF RefreshFind
  <2>4. requests'[r].user = u
    BY <1>2, <1>3, <1>5, <2>1, <2>3
  <2>5. everyOut[u] # 0 /\ everyOut' = everyOut
    BY <1>5, <2>1, <2>3, RefreshFinds DEF RefreshFind
  <2>6. QED
    BY <2>4, <2>5
<1>6. ASSUME NEW s \in Request, RequestStep(s)
      PROVE  requests'[r] = requests[r]
  <2>1. requests[s] \in InFlight
    BY <1>6, RequestJustified DEF RequestStep, RefreshRevoke, RefreshRevokeAll,
       SaveRefreshToken, At
  <2>2. CASE RefreshRevoke(s)
    BY <2>1, <2>2 DEF RefreshRevoke, At, Busy, InFlight, IInv, TypeOK, SessionsTypeOK
  <2>3. CASE RefreshRevokeAll(s) \/ SaveRefreshToken(s)
    BY <2>3 DEF RefreshRevokeAll, SaveRefreshToken, Finish, At, Busy, IInv, TypeOK,
                SessionsTypeOK
  <2>4. QED
    BY <1>6, <2>2, <2>3 DEF RequestStep
<1>7. ASSUME UNCHANGED vars \/ DeviceStep \/ Expire \/ UNCHANGED sessionVars
      PROVE  requests'[r] = requests[r]
  BY <1>7 DEF vars, sessionVars, DeviceStep, RefreshTooLate, Logout, LogoutAllSessions,
              Expire
<1>8. QED
  BY <1>1, <1>4, <1>5, <1>6, <1>7, FaultsStay DEF Next, RequestArrives

\* Every device keeps its session.
AllKeep == \A u \in User, d \in Device : Keeps(u, d)

\* A request that begins: its device has one in flight, and the others are spared.
LEMMA BeginsKeep ==
    ASSUME IInv, AllKeep, NEW r \in Request, NEW step, NEW u \in User, NEW d \in Device,
           NEW x \in Nat, Accepts(r, u, d), Hold(r, step, u, d, x),
           UNCHANGED <<rows, expired, held, everyOut>>
    PROVE  AllKeep'
<1> DEFINE q == [step |-> step, user |-> u, device |-> d, found |-> x]
<1>1. q.user = u /\ q.device = d
  OBVIOUS
<1>2. requests' = [requests EXCEPT ![r] = q] /\ ~Busy(r)
  BY DEF Hold, Accepts
<1>3. CASE q = Idle
  <2>1. requests' = requests
    BY <1>2, <1>3 DEF Busy, IInv, TypeOK, SessionsTypeOK
  <2>2. QED
    BY <2>1 DEF AllKeep, Keeps, RequestsOf, Busy, Live
<1>4. CASE q # Idle
  <2> HIDE DEF q
  <2>1. r \in RequestsOf(u, d)'
    BY <1>1, <1>2, <1>4 DEF RequestsOf, Busy, IInv, TypeOK, SessionsTypeOK
  <2>2. ASSUME NEW v \in User, NEW e \in Device, ~(v = u /\ e = d)
        PROVE  Keeps(v, e)'
    <3>1. RequestsOf(v, e)' = RequestsOf(v, e)
      <4>1. ~(q.user = v /\ q.device = e)
        BY <1>1, <2>2
      <4>2. QED
        BY <1>2, <4>1, WritesOne
    <3>2. Spares(v, e)
      BY <3>1 DEF Spares, Live
    <3>3. expired' \in Nat /\ expired <= expired'
      BY DEF IInv, TypeOK, SessionsTypeOK
    <3>4. QED
      BY <3>2, <3>3, SparedKeeps DEF AllKeep
  <2>3. QED
    BY <2>1, <2>2 DEF AllKeep, Keeps
<1>5. QED
  BY <1>3, <1>4

\* A device that gives its token up, with whatever rows of its own it revokes.
LEMMA GivesUpKeep ==
    ASSUME IInv, AllKeep, NEW u \in User, NEW d \in Device, Holds(u, d, 0),
           UNCHANGED <<expired, requests>>,
           \A v \in User, e \in Device :
             ~(v = u /\ e = d) =>
               \/ everyOut'[v] # 0
               \/ everyOut'[v] = everyOut[v] /\ Live(v, e) \subseteq Live(v, e)'
    PROVE  AllKeep'
<1>1. held'[u][d] = 0
  BY HoldsOne
<1>2. expired \in Nat /\ expired' = expired
  BY DEF IInv, TypeOK, SessionsTypeOK
<1>3. Keeps(u, d)'
  BY <1>1, <1>2 DEF Keeps
<1>4. ASSUME NEW v \in User, NEW e \in Device, ~(v = u /\ e = d)
      PROVE  Keeps(v, e)'
  <2>1. held'[v][e] = held[v][e]
    BY <1>4, HoldsOne
  <2>2. RequestsOf(v, e)' = RequestsOf(v, e)
    BY DEF RequestsOf, Busy
  <2>3. CASE everyOut'[v] # 0
    BY <2>3 DEF Keeps
  <2>4. CASE everyOut'[v] = everyOut[v] /\ Live(v, e) \subseteq Live(v, e)'
    <3>1. Spares(v, e)
      BY <2>1, <2>2, <2>4 DEF Spares
    <3>2. expired' \in Nat /\ expired <= expired'
      BY <1>2
    <3>3. QED
      BY <3>1, <3>2, SparedKeeps DEF AllKeep
  <2>5. QED
    BY <1>4, <2>3, <2>4
<1>5. QED
  BY <1>3, <1>4 DEF AllKeep

\* A refresh that finds a row, or none, or gives the token up.
LEMMA RefreshFindKeepsAll ==
    ASSUME IInv, AllKeep, NEW r \in Request, NEW u \in User, NEW d \in Device,
           RefreshFind(r, u, d)
    PROVE  AllKeep'
<1>1. Accepts(r, u, d) /\ UNCHANGED <<rows, expired, everyOut>> /\ 0 \in Nat
  BY DEF RefreshFind
<1>2. CASE Hold(r, "revokeAll", u, d, 0) /\ UNCHANGED held
  BY <1>1, <1>2, BeginsKeep
<1>3. ASSUME NEW y \in Findable(u, d), Hold(r, "revoke", u, d, y), UNCHANGED held
      PROVE  AllKeep'
  <2>1. y \in Nat
    BY DEF Findable, Live, IInv, TypeOK, SessionsTypeOK
  <2>2. QED
    BY <1>1, <1>3, <2>1, BeginsKeep
<1>4. CASE Holds(u, d, 0) /\ UNCHANGED requests
  BY <1>1, <1>4, GivesUpKeep DEF Live
<1>5. QED
  BY <1>2, <1>3, <1>4 DEF RefreshFind

\* Logging out, of one device or of all, and a token that comes too late.
LEMMA DeviceKeepsAll ==
    ASSUME Serial, IInv, HeldKnown, AllKeep, NEW u \in User, NEW d \in Device,
           RefreshTooLate(u, d) \/ Logout(u, d) \/ LogoutAllSessions(u, d)
    PROVE  AllKeep'
<1>1. Holds(u, d, 0) /\ UNCHANGED <<expired, requests>>
  BY DEF RefreshTooLate, Logout, LogoutAllSessions
<1>2. CASE RefreshTooLate(u, d)
  BY <1>1, <1>2, GivesUpKeep DEF RefreshTooLate, Live
<1>3. CASE Logout(u, d)
  <2>1. \A v \in User, e \in Device :
          ~(v = u /\ e = d) => Live(v, e) \subseteq Live(v, e)'
    BY <1>3, RevokedSpares DEF Logout, LoggedOut, Live
  <2>2. QED
    BY <1>1, <1>3, <2>1, GivesUpKeep DEF Logout
<1>4. CASE LogoutAllSessions(u, d)
  <2>1. held[u][d] \in Nat /\ Len(rows) \in Nat /\ everyOut \in [User -> Nat]
    BY DEF IInv, TypeOK, SessionsTypeOK
  <2>2. held[u][d] # 0 /\ held[u][d] <= Len(rows)
    BY <1>4 DEF LogoutAllSessions, HeldKnown
  <2>3. everyOut'[u] # 0 /\ \A v \in User \ {u} : everyOut'[v] = everyOut[v]
    BY <1>4, <2>1, <2>2 DEF LogoutAllSessions
  <2>4. \A v \in User \ {u}, e \in Device : Live(v, e) \subseteq Live(v, e)'
    BY <1>4, RevokedSpares DEF LogoutAllSessions, RowsOf
  <2>5. QED
    BY <1>1, <2>3, <2>4, GivesUpKeep
<1>5. QED
  BY <1>2, <1>3, <1>4

\* A statement of a request: it touches rows of its own device, or ends every
\* session of a user who has logged out of all.
LEMMA RequestKeepsAll ==
    ASSUME Serial, faults = 0, IInv, NoneRevokesAll, AllKeep, NEW r \in Request,
           RequestStep(r)
    PROVE  AllKeep'
<1> DEFINE q == requests[r]
<1>1. q \in InFlight /\ Justified(q) /\ Busy(r)
  BY RequestJustified DEF RequestStep, RefreshRevoke, RefreshRevokeAll,
     SaveRefreshToken, At
<1>2. q.user \in User /\ q.device \in Device
  BY <1>1 DEF InFlight
<1> SUFFICES ASSUME NEW u \in User, NEW d \in Device, u = q.user, d = q.device
             PROVE  AllKeep'
  BY <1>2
<1>3. /\ expired' = expired /\ expired \in Nat /\ everyOut' = everyOut
      /\ expired' \in Nat /\ expired <= expired'
  BY DEF RequestStep, RefreshRevoke, RefreshRevokeAll, SaveRefreshToken, IInv, TypeOK,
         SessionsTypeOK
<1>4. ASSUME NEW v \in User, NEW e \in Device, ~(v = u /\ e = d)
      PROVE  RequestsOf(v, e)' = RequestsOf(v, e)
  <2>1. CASE RefreshRevoke(r)
    <3> DEFINE w == [q EXCEPT !.step = "save"]
    <3>1. w.user = q.user /\ w.device = q.device
      BY <1>1 DEF InFlight
    <3>2. requests' = [requests EXCEPT ![r] = w]
      BY <2>1 DEF RefreshRevoke
    <3> HIDE DEF w
    <3>3. QED
      BY <1>4, <3>1, <3>2, WritesOne
  <2>2. CASE RefreshRevokeAll(r) \/ SaveRefreshToken(r)
    BY <1>4, <2>2, WritesOne DEF RefreshRevokeAll, SaveRefreshToken, Finish
  <2>3. QED
    BY <2>1, <2>2 DEF RequestStep
<1>5. CASE RefreshRevoke(r)
  <2>1. held' = held /\ rows' = Revoked({q.found})
    BY <1>5 DEF RefreshRevoke, At, Written
  <2>2. q.found \in DOMAIN rows /\ rows[q.found].user = q.user
        /\ rows[q.found].device = q.device
    BY <1>1, <1>5 DEF Justified, RefreshRevoke, At
  <2>3. ASSUME NEW v \in User, NEW e \in Device, ~(v = u /\ e = d)
        PROVE  Keeps(v, e)'
    <3>1. Live(v, e) \subseteq Live(v, e)'
      BY <2>1, <2>2, <2>3, RevokedSpares
    <3>2. Spares(v, e)
      BY <1>3, <1>4, <2>1, <2>3, <3>1 DEF Spares
    <3>3. QED
      BY <1>3, <3>2, SparedKeeps DEF AllKeep
  <2>4. r \in RequestsOf(u, d)'
    <3>1. requests' = [requests EXCEPT ![r] = [q EXCEPT !.step = "save"]]
      BY <1>5 DEF RefreshRevoke
    <3>2. [q EXCEPT !.step = "save"] \in InFlight
      BY <1>1 DEF InFlight, Step
    <3>3. requests'[r] = [q EXCEPT !.step = "save"]
      BY <3>1 DEF IInv, TypeOK, SessionsTypeOK
    <3>4. requests'[r] # Idle /\ requests'[r].user = q.user /\ requests'[r].device = q.device
      BY <1>1, <3>2, <3>3, AuthAssumption DEF InFlight
    <3>5. QED
      BY <3>4 DEF RequestsOf, Busy
  <2>5. QED
    BY <2>3, <2>4 DEF AllKeep, Keeps
<1>6. CASE RefreshRevokeAll(r)
  <2>1. everyOut'[u] # 0
    BY <1>3, <1>6 DEF NoneRevokesAll, RefreshRevokeAll
  <2>2. rows' = Revoked(RowsOf(q.user)) /\ Holds(q.user, q.device, 0)
    BY <1>6 DEF RefreshRevokeAll, At, Written
  <2>3. ASSUME NEW v \in User, NEW e \in Device, v # u
        PROVE  Keeps(v, e)'
    <3>1. Live(v, e) \subseteq Live(v, e)'
      BY <2>2, <2>3, RevokedSpares DEF RowsOf
    <3>2. held'[v][e] = held[v][e]
      BY <1>2, <2>2, <2>3, HoldsOne
    <3>3. Spares(v, e)
      BY <1>3, <1>4, <2>3, <3>1, <3>2 DEF Spares
    <3>4. QED
      BY <1>3, <3>3, SparedKeeps DEF AllKeep
  <2>4. QED
    BY <2>1, <2>3 DEF AllKeep, Keeps
<1>7. CASE SaveRefreshToken(r)
  <2> DEFINE row == Saved(q)
             n == Len(rows) + 1
  <2>1. row \in Row /\ row.user = q.user /\ row.device = q.device /\ ~row.revoked
    BY <1>1, SavedRow
  <2>2. rows' = Append(rows, row) /\ Holds(q.user, q.device, n) /\ n \in Nat
    BY <1>7 DEF SaveRefreshToken, At, Written, IInv, TypeOK, SessionsTypeOK
  <2> HIDE DEF row, n
  <2>3. /\ DOMAIN rows' = 1 .. Len(rows) + 1
        /\ \A x \in DOMAIN rows : rows'[x] = rows[x]
        /\ rows'[Len(rows) + 1] = row
    BY <2>1, <2>2, Appended
  <2>4. Len(rows) \in Nat /\ DOMAIN rows = 1 .. Len(rows)
    BY DEF IInv, TypeOK, SessionsTypeOK
  <2>5. n \in DOMAIN rows' /\ rows'[n] = row /\ DOMAIN rows \subseteq DOMAIN rows'
    BY <2>3, <2>4 DEF n
  <2>6. Keeps(u, d)'
    <3>1. held'[u][d] = n
      BY <1>2, <2>2, HoldsOne
    <3>2. n \in Live(u, d)'
      BY <2>1, <2>5 DEF Live
    <3>3. QED
      BY <3>1, <3>2 DEF Keeps
  <2>7. ASSUME NEW v \in User, NEW e \in Device, ~(v = u /\ e = d)
        PROVE  Keeps(v, e)'
    <3>1. Live(v, e) \subseteq Live(v, e)'
      BY <2>3, <2>5 DEF Live
    <3>2. held'[v][e] = held[v][e]
      BY <1>2, <2>2, <2>7, HoldsOne
    <3>3. Spares(v, e)
      BY <1>3, <1>4, <2>7, <3>1, <3>2 DEF Spares
    <3>4. QED
      BY <1>3, <3>3, SparedKeeps DEF AllKeep
  <2>8. QED
    BY <2>6, <2>7 DEF AllKeep
<1>8. QED
  BY <1>5, <1>6, <1>7 DEF RequestStep

\* Every step leaves every device its session.
LEMMA NextKeepsAll ==
    ASSUME Serial, faults = 0, IInv, KInv, [Next]_vars, faults' = 0
    PROVE  AllKeep'
<1>1. AllKeep /\ HeldKnown /\ NoneRevokesAll
  BY DEF KInv, KeepsOwnSession, AllKeep, Keeps
<1>2. 0 \in Nat /\ Client \subseteq User
  BY AuthAssumption
<1>3. ASSUME UNCHANGED <<rows, requests, held, everyOut>>, expired' \in Nat,
             expired <= expired'
      PROVE  AllKeep'
  <2>1. ASSUME NEW u \in User, NEW d \in Device
        PROVE  Spares(u, d)
    BY <1>3 DEF Spares, Live, RequestsOf, Busy
  <2>2. QED
    BY <1>1, <1>3, <2>1, SparedKeeps DEF AllKeep
<1>4. expired \in Nat
  BY DEF IInv, TypeOK, SessionsTypeOK
<1>5. ASSUME UNCHANGED vars \/ Expire \/ UNCHANGED sessionVars
      PROVE  AllKeep'
  BY <1>3, <1>4, <1>5 DEF vars, sessionVars, Expire
<1>6. ASSUME NEW r \in Request, NEW u \in Client, NEW d \in Device,
             \/ LoginRead(r, u, d)
             \/ \E t \in Tenant, role \in Assigned : RegisterInsert(r, u, d, t, role)
      PROVE  AllKeep'
  BY <1>1, <1>2, <1>6, BeginsKeep DEF LoginRead, RegisterInsert, SignsIn
<1>7. ASSUME NEW r \in Request, NEW u \in Client, NEW d \in Device, RefreshFind(r, u, d)
      PROVE  AllKeep'
  BY <1>1, <1>2, <1>7, RefreshFindKeepsAll
<1>8. CASE DeviceStep
  BY <1>1, <1>2, <1>8, DeviceKeepsAll DEF DeviceStep
<1>9. ASSUME NEW r \in Request, RequestStep(r)
      PROVE  AllKeep'
  BY <1>1, <1>9, RequestKeepsAll
<1>10. QED
  BY <1>5, <1>6, <1>7, <1>8, <1>9, FaultsStay DEF Next, RequestArrives

\* The invariant holds at first,
LEMMA InitKInv == Init => KInv
BY DEF Init, SessionsInit, KInv, HeldKnown, NoneRevokesAll, At, Busy, KeepsOwnSession

\* and every step keeps it.
LEMMA NextKInv == IInv /\ KInv /\ [Next]_vars => KInv'
<1> SUFFICES ASSUME IInv, KInv, [Next]_vars
             PROVE  KInv'
  OBVIOUS
<1>1. CASE ~Serial
  BY <1>1 DEF KInv, HeldKnown, NoneRevokesAll, KeepsOwnSession
<1>2. ASSUME Serial
      PROVE  HeldKnown'
  BY <1>2, HeldKnownKept DEF KInv
<1>3. ASSUME Serial, faults' = 0
      PROVE  NoneRevokesAll' /\ AllKeep'
  BY <1>3, FaultsStay, NoneRevokesAllKept, NextKeepsAll
<1>4. QED
  BY <1>1, <1>2, <1>3 DEF KInv, NoneRevokesAll, KeepsOwnSession, AllKeep, Keeps

(***************************************************************************)
(* While nothing fails, no device that sends one request at a time is      *)
(* signed out behind its back, by anything that its user's other devices,  *)
(* or other users, do: refreshToken's revocation of every session never    *)
(* reaches it.                                                             *)
(***************************************************************************)
THEOREM SessionsAreKept == Spec => []KeepsOwnSession
<1>1. Spec => []KInv
  BY InitKInv, NextKInv, InvariantHolds, PTL DEF Spec
<1>2. KInv => KeepsOwnSession
  BY DEF KInv
<1>3. QED
  BY <1>1, <1>2, PTL

================================================================================
