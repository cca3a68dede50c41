------------------------------ MODULE AccountsProofs -----------------------------
(***************************************************************************)
(* Proofs about accounts and sessions, for any number of users, tenants,   *)
(* devices, requests and edits in flight, any clients, failures and        *)
(* crashes.                                                                *)
(*                                                                         *)
(* Each step is looked at twice: what it does to the users and the edits   *)
(* (UsersStep) and what it does to the sessions (SessionsStep).  A refresh *)
(* saves only over a row that it has revoked, because it carries the row   *)
(* with it (RequestsJustified) and no statement takes a revocation back    *)
(* (RowsKept).  A session that begins is a new one, because no row is of a *)
(* session that began after it (SessionsNumbered).                         *)
(***************************************************************************)
EXTENDS AccountsProperties, SequenceTheorems, TLAPS

\* No step moves a user to another tenant, takes its profile, or deletes it.
UsersKept ==
    \A u \in User :
      Known(u) => /\ Known(u)'
                  /\ users'[u].tenant = users[u].tenant
                  /\ users'[u].hasProfile = users[u].hasProfile

\* What a step has to keep of the users and the edits in flight.
UsersStep == UsersTypeOK' /\ EditsStayInTenant' /\ UsersKept

--------------------------------------------------------------------------------
(* Users and edits. *)

\* A step that touches neither.
LEMMA UsersSame ==
    ASSUME IInv, UNCHANGED usersVars
    PROVE  UsersStep
  BY DEF IInv, TypeOK, usersVars, UsersStep, UsersKept, UsersTypeOK, EditsStayInTenant,
         Known, Edits

\* An edit is accepted: it holds its caller's tenant, and an update or a change
\* of status was found in it.
LEMMA EditStarts ==
    ASSUME IInv, NEW e \in Edit, NEW op \in Op, NEW c \in User, NEW u \in User,
           NEW r \in Role, NEW active \in BOOLEAN,
           validate(c), Start(e, op, c, u, r, active),
           op \in {"update", "toggleActive"} => findOne(c, u)
    PROVE  UsersStep
  <1> DEFINE edit == [op |-> op, by |-> users[c].tenant, user |-> u, role |-> r,
                      isActive |-> active]
  <1>1. users[c] \in Account
    BY DEF IInv, TypeOK, UsersTypeOK, validate, Known
  <1>2. edit \in EditInFlight
    BY <1>1 DEF EditInFlight, Account
  <1>3. edits' = [edits EXCEPT ![e] = edit] /\ users' = users
    BY DEF Start
  <1>4. /\ edits' \in [Edit -> EditInFlight \cup {Idle}]
        /\ edits'[e] = edit
        /\ \A f \in Edit \ {e} : edits'[f] = edits[f]
    BY <1>2, <1>3 DEF IInv, TypeOK, UsersTypeOK
  <1>5. UsersTypeOK'
    BY <1>3, <1>4 DEF IInv, TypeOK, UsersTypeOK
  <1>6. EditsStayInTenant'
    <2> SUFFICES ASSUME NEW f \in Edit, (Edits(f, "update") \/ Edits(f, "toggleActive"))'
                 PROVE  Known(edits'[f].user) /\ users[edits'[f].user].tenant = edits'[f].by
      BY <1>3 DEF EditsStayInTenant, Known
    <2>1. CASE f = e
      <3>1. op \in {"update", "toggleActive"}
        BY <2>1, <1>4 DEF Edits
      <3> QED
        BY <2>1, <3>1, <1>4 DEF findOne
    <2>2. CASE f # e
      BY <2>2, <1>4 DEF IInv, EditsStayInTenant, Edits
    <2> QED
      BY <2>1, <2>2
  <1> QED
    BY <1>3, <1>5, <1>6 DEF UsersStep, UsersKept, Known

\* The edits while the users are kept, and one edit at most has ended.
LEMMA EditsKept ==
    ASSUME IInv, UsersKept, users' \in [User -> Account \cup {NoUser}],
           edits' \in [Edit -> EditInFlight \cup {Idle}],
           \A f \in Edit : edits'[f] \in {edits[f], Idle}
    PROVE  UsersStep
  <1>1. EditsStayInTenant'
    <2> SUFFICES ASSUME NEW f \in Edit, (Edits(f, "update") \/ Edits(f, "toggleActive"))'
                 PROVE  /\ users'[edits'[f].user] # NoUser
                        /\ users'[edits'[f].user].tenant = edits'[f].by
      BY DEF EditsStayInTenant, Known
    <2>1. edits'[f] = edits[f] /\ edits[f] # Idle
      BY DEF Edits
    <2>2. edits[f].user \in User
      BY <2>1 DEF IInv, TypeOK, UsersTypeOK, EditInFlight
    <2>3. Known(edits[f].user) /\ users[edits[f].user].tenant = edits[f].by
      BY <2>1 DEF IInv, EditsStayInTenant, Edits
    <2> QED
      BY <2>1, <2>2, <2>3 DEF UsersKept, Known
  <1> QED
    BY <1>1 DEF UsersStep, UsersTypeOK

\* A new user takes nobody's row.
LEMMA Inserted ==
    ASSUME IInv, NEW u \in User, NEW t \in Tenant, NEW r \in Role,
           NEW driver \in BOOLEAN, Insert(u, t, r, driver)
    PROVE  users' \in [User -> Account \cup {NoUser}] /\ UsersKept
  <1> DEFINE row == [tenant |-> t, role |-> r, isActive |-> TRUE, hasProfile |-> driver]
  <1>1. row \in Account
    BY DEF Account
  <1>2. users' = [users EXCEPT ![u] = row] /\ ~Known(u)
    BY DEF Insert
  <1> HIDE DEF row
  <1> QED
    BY <1>1, <1>2 DEF IInv, TypeOK, UsersTypeOK, UsersKept, Known

\* A registration.
LEMMA Registered ==
    ASSUME IInv, NEW u \in User, NEW t \in Tenant, NEW r \in Role, Register(u, t, r)
    PROVE  UsersStep
  <1>1. users' \in [User -> Account \cup {NoUser}] /\ UsersKept
    BY Inserted DEF Register
  <1> QED
    BY <1>1, EditsKept DEF Register, IInv, TypeOK, UsersTypeOK

\* An edit that ends, whatever it has written.
LEMMA EditEnds ==
    ASSUME IInv, NEW e \in Edit, Finished(e), UsersKept,
           users' \in [User -> Account \cup {NoUser}]
    PROVE  UsersStep
  <1>1. /\ edits' \in [Edit -> EditInFlight \cup {Idle}]
        /\ \A f \in Edit : edits'[f] \in {edits[f], Idle}
    BY DEF Finished, IInv, TypeOK, UsersTypeOK
  <1> QED
    BY <1>1, EditsKept

\* The writes of an edit in flight, and its failure.
LEMMA EditStepKeeps ==
    ASSUME IInv, NEW e \in Edit, EditStep(e)
    PROVE  UsersStep
  <1> DEFINE u == edits[e].user
  <1>1. edits[e] \in EditInFlight /\ Finished(e)
    BY DEF IInv, TypeOK, UsersTypeOK, EditStep, CreateInsert, UpdateWrite,
           ToggleActiveWrite, EditFails, Edits
  <1>2. u \in User /\ edits[e].by \in Tenant /\ edits[e].role \in Role
        /\ edits[e].isActive \in BOOLEAN
    BY <1>1 DEF EditInFlight
  <1>3. ASSUME UpdateWrite(e) \/ ToggleActiveWrite(e)
        PROVE  users[u] \in Account
    BY <1>2, <1>3 DEF UpdateWrite, ToggleActiveWrite, IInv, TypeOK, UsersTypeOK,
                      EditsStayInTenant, Known
  <1>4. CASE CreateInsert(e)
    BY <1>1, <1>2, <1>4, Inserted, EditEnds DEF CreateInsert, Edits
  <1>5. CASE UpdateWrite(e)
    <2> DEFINE row == [users[u] EXCEPT !.role = edits[e].role]
    <2>1. row \in Account /\ row.tenant = users[u].tenant
          /\ row.hasProfile = users[u].hasProfile
      BY <1>2, <1>3, <1>5 DEF Account
    <2>2. users' = [users EXCEPT ![u] = row]
      BY <1>2, <1>5 DEF UpdateWrite
    <2> HIDE DEF row, u
    <2>3. users' \in [User -> Account \cup {NoUser}] /\ UsersKept
      BY <1>2, <2>1, <2>2, UsersAssumption DEF IInv, TypeOK, UsersTypeOK, UsersKept, Known
    <2> QED
      BY <1>1, <2>3, EditEnds
  <1>6. CASE ToggleActiveWrite(e)
    <2> DEFINE row == [users[u] EXCEPT !.isActive = edits[e].isActive]
    <2>1. row \in Account /\ row.tenant = users[u].tenant
          /\ row.hasProfile = users[u].hasProfile
      BY <1>2, <1>3, <1>6 DEF Account
    <2>2. users' = [users EXCEPT ![u] = row]
      BY <1>2, <1>6 DEF ToggleActiveWrite
    <2> HIDE DEF row, u
    <2>3. users' \in [User -> Account \cup {NoUser}] /\ UsersKept
      BY <1>2, <2>1, <2>2, UsersAssumption DEF IInv, TypeOK, UsersTypeOK, UsersKept, Known
    <2> QED
      BY <1>1, <2>3, EditEnds
  <1>7. CASE EditFails(e)
    <2>1. users' \in [User -> Account \cup {NoUser}] /\ UsersKept
      BY <1>7 DEF EditFails, IInv, TypeOK, UsersTypeOK, UsersKept, Known
    <2> QED
      BY <1>1, <2>1, EditEnds
  <1> QED
    BY <1>4, <1>5, <1>6, <1>7 DEF EditStep

\* An edit that arrives.
LEMMA EditArrivesKeeps ==
    ASSUME IInv, EditArrives
    PROVE  UsersStep
  <1> PICK e \in Edit, c \in User, u \in User :
        \/ \E r \in Assigned : CreateRead(e, c, u, r) \/ UpdateFind(e, c, u, r)
        \/ CreateDriverRead(e, c, u)
        \/ \E active \in BOOLEAN : ToggleActiveFind(e, c, u, active)
    BY DEF EditArrives
  <1>1. Assigned \subseteq Role /\ "DRIVER" \in Role
    BY UsersAssumption DEF Role, ROLE_HIERARCHY
  <1>2. ASSUME NEW r \in Assigned, CreateRead(e, c, u, r)
        PROVE  UsersStep
    BY <1>1, <1>2, EditStarts DEF CreateRead, Op
  <1>3. ASSUME NEW r \in Assigned, UpdateFind(e, c, u, r)
        PROVE  UsersStep
    BY <1>1, <1>3, EditStarts DEF UpdateFind, Op
  <1>4. ASSUME CreateDriverRead(e, c, u)
        PROVE  UsersStep
    BY <1>1, <1>4, EditStarts DEF CreateDriverRead, Op
  <1>5. ASSUME NEW active \in BOOLEAN, ToggleActiveFind(e, c, u, active)
        PROVE  UsersStep
    <2>1. users[u].role \in Role
      BY <1>5 DEF ToggleActiveFind, findOne, Known, IInv, TypeOK, UsersTypeOK, Account
    <2> QED
      BY <1>5, <2>1, EditStarts DEF ToggleActiveFind, Op
  <1> QED
    BY <1>2, <1>3, <1>4, <1>5

--------------------------------------------------------------------------------
(* Rows and requests. *)

\* The rows stay, with what they say but their revocation, which is not taken back.
RowsKept ==
    /\ rows' \in Seq(Row)
    /\ \A x \in DOMAIN rows :
         /\ x \in DOMAIN rows'
         /\ rows'[x].user = rows[x].user
         /\ rows'[x].device = rows[x].device
         /\ rows[x].revoked => rows'[x].revoked

\* What a step has to keep of the sessions.
SessionsStep == SessionsTypeOK' /\ RequestsJustified' /\ RotationRevokes'

\* A request that is justified.
Justified(q) ==
    /\ q.step = "revoke" => q.found # 0
    /\ q.found # 0 => /\ q.found \in DOMAIN rows
                      /\ rows[q.found].user = q.user
                      /\ rows[q.found].device = q.device
                      /\ q.step = "save" => rows[q.found].revoked

\* Revoking rows keeps them, and what the refreshes have revoked.
LEMMA RevokedKeeps ==
    ASSUME IInv, NEW S, rows' = Revoked(S)
    PROVE  /\ RowsKept /\ RotationRevokes' /\ DOMAIN rows' = DOMAIN rows
           /\ \A x \in DOMAIN rows : x \in S => rows'[x].revoked
  <1>1. rows \in Seq(Row) /\ DOMAIN rows = 1 .. Len(rows) /\ Len(rows) \in Nat
    BY DEF IInv, TypeOK, SessionsTypeOK
  <1>2. ASSUME NEW x \in DOMAIN rows
        PROVE  /\ rows'[x] \in Row
               /\ rows'[x].user = rows[x].user /\ rows'[x].device = rows[x].device
               /\ rows'[x].parent = rows[x].parent
               /\ rows'[x].revoked = (rows[x].revoked \/ x \in S)
    <2>1. rows[x] \in Row
      BY <1>1, <1>2
    <2>2. rows'[x] = [rows[x] EXCEPT !.revoked = @ \/ x \in S]
      BY <1>2 DEF Revoked
    <2>3. (rows[x].revoked \/ x \in S) \in BOOLEAN
      OBVIOUS
    <2> QED
      BY <2>1, <2>2, <2>3 DEF Row
  <1>3. rows' \in [1 .. Len(rows) -> Row]
    BY <1>1, <1>2 DEF Revoked
  <1>4. rows' \in Seq(Row) /\ DOMAIN rows' = DOMAIN rows
    BY <1>1, <1>3
  <1>5. RowsKept
    BY <1>2, <1>4 DEF RowsKept
  <1>6. RotationRevokes'
    <2> SUFFICES ASSUME NEW x \in DOMAIN rows, rows[x].parent # 0
                 PROVE  LET p == rows[x].parent IN
                          /\ p \in 1 .. x - 1
                          /\ rows'[p].revoked
                          /\ rows'[p].user = rows'[x].user
                          /\ rows'[p].device = rows'[x].device
      BY <1>2, <1>4 DEF RotationRevokes
    <2>1. /\ rows[x].parent \in 1 .. x - 1 /\ rows[rows[x].parent].revoked
          /\ rows[rows[x].parent].user = rows[x].user
          /\ rows[rows[x].parent].device = rows[x].device
      BY DEF IInv, RotationRevokes
    <2>2. rows[x].parent \in DOMAIN rows
      BY <1>1, <2>1
    <2> QED
      BY <1>2, <2>1, <2>2
  <1> QED
    BY <1>2, <1>4, <1>5, <1>6

\* Revoking rows moves none to another session.
LEMMA SessionStays ==
    ASSUME IInv, NEW S, rows' = Revoked(S), NEW x \in DOMAIN rows
    PROVE  /\ rows'[x].session = rows[x].session
           /\ rows'[x].revoked = (rows[x].revoked \/ x \in S)
  <1>1. rows[x] \in Row
    BY DEF IInv, TypeOK, SessionsTypeOK
  <1>2. rows'[x] = [rows[x] EXCEPT !.revoked = @ \/ x \in S]
    BY DEF Revoked
  <1> QED
    BY <1>1, <1>2 DEF Row

\* A row saved comes last, and the others stay.
LEMMA Appended ==
    ASSUME IInv, NEW row \in Row, rows' = Append(rows, row)
    PROVE  /\ rows' \in Seq(Row) /\ DOMAIN rows' = 1 .. Len(rows) + 1
           /\ \A x \in DOMAIN rows : rows'[x] = rows[x]
           /\ rows'[Len(rows) + 1] = row
  <1>1. rows \in Seq(Row) /\ DOMAIN rows = 1 .. Len(rows) /\ Len(rows) \in Nat
    BY DEF IInv, TypeOK, SessionsTypeOK
  <1> QED
    BY <1>1, AppendProperties

\* What a request saves: a row of its own user and device, of the session of the
\* row that it found, or of a new one.
LEMMA SavedRow ==
    ASSUME IInv, NEW q \in InFlight, Justified(q)
    PROVE  /\ Saved(q) \in Row
           /\ Saved(q).user = q.user /\ Saved(q).device = q.device
           /\ Saved(q).parent = q.found /\ ~Saved(q).revoked
           /\ Saved(q).session = IF q.found = 0 THEN Len(rows) + 1
                                ELSE rows[q.found].session
  <1> DEFINE n == IF q.found = 0 THEN Len(rows) + 1 ELSE rows[q.found].session
  <1>1. Saved(q) = [user |-> q.user, device |-> q.device, revoked |-> FALSE,
                    parent |-> q.found, session |-> n]
    BY DEF Saved
  <1>2. n \in Nat
    <2>1. CASE q.found = 0
      BY <2>1 DEF IInv, TypeOK, SessionsTypeOK
    <2>2. CASE q.found # 0
      <3>1. rows[q.found] \in Row
        BY <2>2 DEF Justified, IInv, TypeOK, SessionsTypeOK
      <3> QED
        BY <2>2, <3>1 DEF Row
    <2> QED
      BY <2>1, <2>2
  <1>3. q.user \in User /\ q.device \in Device /\ q.found \in Nat
    BY DEF InFlight
  <1> HIDE DEF n
  <1>4. Saved(q) \in Row
    BY <1>1, <1>2, <1>3 DEF Row
  <1>5. /\ Saved(q).user = q.user /\ Saved(q).device = q.device
        /\ Saved(q).parent = q.found /\ ~Saved(q).revoked /\ Saved(q).session = n
    BY <1>1
  <1> QED
    BY <1>4, <1>5 DEF n

\* A session saved over a row that is revoked, or none, keeps them too.
LEMMA SavedKeeps ==
    ASSUME IInv, NEW q \in InFlight, q.step = "save", Justified(q),
           rows' = Append(rows, Saved(q))
    PROVE  RowsKept /\ RotationRevokes'
  <1> DEFINE row == Saved(q)
             n == Len(rows) + 1
  <1>1. rows \in Seq(Row) /\ DOMAIN rows = 1 .. Len(rows) /\ Len(rows) \in Nat
    BY DEF IInv, TypeOK, SessionsTypeOK
  <1>2. row \in Row /\ row.user = q.user /\ row.device = q.device /\ row.parent = q.found
    BY SavedRow
  <1> HIDE DEF row
  <1>3. /\ rows' \in Seq(Row) /\ DOMAIN rows' = 1 .. n
        /\ \A x \in DOMAIN rows : rows'[x] = rows[x]
        /\ rows'[n] = row
    BY <1>2, Appended DEF row
  <1>4. RowsKept
    BY <1>1, <1>3 DEF RowsKept
  <1>5. RotationRevokes'
    <2> SUFFICES ASSUME NEW x \in 1 .. n, rows'[x].parent # 0
                 PROVE  LET p == rows'[x].parent IN
                          /\ p \in 1 .. x - 1
                          /\ rows'[p].revoked
                          /\ rows'[p].user = rows'[x].user
                          /\ rows'[p].device = rows'[x].device
      BY <1>3 DEF RotationRevokes
    <2>1. CASE x \in DOMAIN rows
      <3>1. /\ rows[x].parent \in 1 .. x - 1 /\ rows[rows[x].parent].revoked
            /\ rows[rows[x].parent].user = rows[x].user
            /\ rows[rows[x].parent].device = rows[x].device
        BY <2>1, <1>3 DEF IInv, RotationRevokes
      <3> QED
        BY <2>1, <3>1, <1>1, <1>3
    <2>2. CASE x = n
      <3>1. q.found # 0
        BY <2>2, <1>2, <1>3
      <3> QED
        BY <2>2, <3>1, <1>1, <1>2, <1>3 DEF Justified
    <2> QED
      BY <2>1, <2>2, <1>1
  <1> QED
    BY <1>4, <1>5

\* Every request in flight is justified, and stays so while the rows are kept.
LEMMA RequestJustified ==
    ASSUME IInv, NEW r \in Request, Busy(r)
    PROVE  requests[r] \in InFlight /\ Justified(requests[r])
  BY DEF IInv, TypeOK, SessionsTypeOK, RequestsJustified, Justified, Busy, At

\* The same, of the next state.
LEMMA JustifiedKept ==
    ASSUME IInv, RowsKept, NEW q, Justified(q)
    PROVE  Justified(q)'
  BY DEF RowsKept, Justified

\* A step that leaves the rows alone keeps them.
LEMMA RowsSame ==
    ASSUME IInv, rows' = rows
    PROVE  RowsKept /\ RotationRevokes'
  BY DEF IInv, TypeOK, SessionsTypeOK, RowsKept, RotationRevokes

\* Time, tokens held and failures stay typed.
ClocksTyped ==
    /\ expired' \in Nat
    /\ held' \in [User -> [Device -> Nat]]
    /\ everyOut' \in [User -> Nat]
    /\ faults' \in Nat

\* A device that gets a token, or none.
LEMMA HoldsTyped ==
    ASSUME IInv, NEW u \in User, NEW d \in Device, NEW x \in Nat, Holds(u, d, x)
    PROVE  held' \in [User -> [Device -> Nat]]
  BY DEF IInv, TypeOK, SessionsTypeOK, Holds

\* The sessions after a step that keeps the rows, when every request that it
\* leaves in flight was there before, or is justified.
LEMMA RequestsKept ==
    ASSUME IInv, RowsKept, RotationRevokes', ClocksTyped,
           requests' \in [Request -> InFlight \cup {Idle}],
           \A r \in Request, q \in InFlight :
             requests'[r] = q => requests[r] = q \/ Justified(q)'
    PROVE  SessionsStep
  <1>1. SessionsTypeOK'
    BY DEF RowsKept, ClocksTyped, SessionsTypeOK
  <1>2. RequestsJustified'
    <2> SUFFICES ASSUME NEW r \in Request, NEW q \in InFlight, requests'[r] = q
                 PROVE  Justified(q)'
      BY DEF RequestsJustified, Justified, Busy, At
    <2>1. CASE requests[r] = q
      <3>1. Justified(q)
        BY <2>1, AuthAssumption, RequestJustified DEF Busy
      <3> QED
        BY <3>1, JustifiedKept
    <2> QED
      BY <2>1
  <1> QED
    BY <1>1, <1>2 DEF SessionsStep

\* The same, of a step that writes one request.
LEMMA RequestWritten ==
    ASSUME IInv, RowsKept, RotationRevokes', ClocksTyped,
           NEW r \in Request, NEW v \in InFlight \cup {Idle},
           requests' = [requests EXCEPT ![r] = v],
           v # Idle => Justified(v)'
    PROVE  SessionsStep
  <1>1. /\ requests' \in [Request -> InFlight \cup {Idle}]
        /\ requests'[r] = v
        /\ \A o \in Request \ {r} : requests'[o] = requests[o]
    BY DEF IInv, TypeOK, SessionsTypeOK
  <1>2. \A o \in Request, q \in InFlight :
          requests'[o] = q => requests[o] = q \/ Justified(q)'
    BY <1>1, AuthAssumption
  <1> QED
    BY <1>1, <1>2, RequestsKept

\* A login or a registration begins.
LEMMA SignInHeld ==
    ASSUME IInv, NEW r \in Request, NEW u \in User, NEW d \in Device,
           Hold(r, "save", u, d, 0), UNCHANGED <<rows, expired, held, everyOut, faults>>
    PROVE  SessionsStep
  <1> DEFINE q == [step |-> "save", user |-> u, device |-> d, found |-> 0]
  <1>1. q \in InFlight /\ q.found = 0 /\ q.step = "save"
    BY DEF InFlight, Step
  <1>2. requests' = [requests EXCEPT ![r] = q]
    BY DEF Hold
  <1> HIDE DEF q
  <1>3. Justified(q)'
    BY <1>1 DEF Justified
  <1>4. ClocksTyped
    BY DEF IInv, TypeOK, SessionsTypeOK, ClocksTyped
  <1> QED
    BY <1>1, <1>2, <1>3, <1>4, RowsSame, RequestWritten

\* A refresh finds a row of its device, or none.
LEMMA RefreshFindKeeps ==
    ASSUME IInv, NEW r \in Request, NEW u \in User, NEW d \in Device, RefreshFind(r, u, d)
    PROVE  SessionsStep
  <1>1. rows' = rows /\ UNCHANGED <<expired, everyOut, faults>>
    BY DEF RefreshFind
  <1>2. ASSUME NEW x \in Nat, NEW step \in {"revoke", "revokeAll"},
               Hold(r, step, u, d, x), UNCHANGED held,
               step = "revoke" => x # 0,
               x # 0 => x \in DOMAIN rows /\ rows[x].user = u /\ rows[x].device = d
        PROVE  SessionsStep
    <2> DEFINE q == [step |-> step, user |-> u, device |-> d, found |-> x]
    <2>1. q \in InFlight /\ q.step = step /\ q.user = u /\ q.device = d /\ q.found = x
      BY DEF InFlight, Step
    <2>2. requests' = [requests EXCEPT ![r] = q]
      BY <1>2 DEF Hold
    <2> HIDE DEF q
    <2>3. Justified(q)'
      BY <1>1, <1>2, <2>1 DEF Justified
    <2>4. ClocksTyped
      BY <1>1, <1>2 DEF IInv, TypeOK, SessionsTypeOK, ClocksTyped
    <2> QED
      BY <1>1, <2>1, <2>2, <2>3, <2>4, RowsSame, RequestWritten
  <1>3. CASE Hold(r, "revokeAll", u, d, 0) /\ UNCHANGED held
    BY <1>2, <1>3
  <1>4. ASSUME NEW y \in Findable(u, d), Hold(r, "revoke", u, d, y), UNCHANGED held
        PROVE  SessionsStep
    <2>1. y \in DOMAIN rows /\ rows[y].user = u /\ rows[y].device = d
      BY <1>4 DEF Findable, Live
    <2>2. y \in Nat /\ y # 0
      BY <2>1 DEF IInv, TypeOK, SessionsTypeOK
    <2> QED
      BY <1>2, <1>4, <2>1, <2>2
  <1>5. CASE Holds(u, d, 0) /\ UNCHANGED requests
    <2>1. ClocksTyped
      BY <1>1, <1>5, HoldsTyped DEF IInv, TypeOK, SessionsTypeOK, ClocksTyped
    <2>2. requests' \in [Request -> InFlight \cup {Idle}]
      BY <1>5 DEF IInv, TypeOK, SessionsTypeOK
    <2> QED
      BY <1>1, <1>5, <2>1, <2>2, RowsSame, RequestsKept
  <1> QED
    BY <1>3, <1>4, <1>5 DEF RefreshFind

\* A step of a device that writes no request.
LEMMA DeviceStepKeeps ==
    ASSUME IInv, NEW u \in User, NEW d \in Device,
           RefreshTooLate(u, d) \/ Logout(u, d) \/ LogoutAllSessions(u, d)
    PROVE  SessionsStep
  <1>1. Holds(u, d, 0) /\ UNCHANGED <<expired, requests, faults>>
    BY DEF RefreshTooLate, Logout, LogoutAllSessions
  <1>2. everyOut' \in [User -> Nat]
    <2>1. Len(rows) \in Nat
      BY DEF IInv, TypeOK, SessionsTypeOK
    <2> QED
      BY <2>1 DEF RefreshTooLate, Logout, LogoutAllSessions, IInv, TypeOK, SessionsTypeOK
  <1>3. ClocksTyped
    BY <1>1, <1>2, HoldsTyped DEF IInv, TypeOK, SessionsTypeOK, ClocksTyped
  <1>4. RowsKept /\ RotationRevokes'
    BY RowsSame, RevokedKeeps DEF RefreshTooLate, Logout, LogoutAllSessions
  <1>5. requests' \in [Request -> InFlight \cup {Idle}]
    BY <1>1 DEF IInv, TypeOK, SessionsTypeOK
  <1> QED
    BY <1>1, <1>3, <1>4, <1>5, RequestsKept

\* The statement that a request is at keeps the rows, executed or not.
LEMMA WrittenKeeps ==
    ASSUME IInv, NEW r \in Request, Busy(r), rows' \in {rows, Written(r)}
    PROVE  RowsKept /\ RotationRevokes'
  <1> DEFINE q == requests[r]
  <1>1. q \in InFlight /\ Justified(q)
    BY RequestJustified
  <1>2. q.step \in {"revoke", "revokeAll", "save"}
    BY <1>1 DEF InFlight, Step
  <1>3. CASE rows' = rows
    BY <1>3, RowsSame
  <1>4. CASE rows' = Written(r) /\ q.step = "revoke"
    BY <1>4, RevokedKeeps DEF Written
  <1>5. CASE rows' = Written(r) /\ q.step = "revokeAll"
    BY <1>5, RevokedKeeps DEF Written
  <1>6. CASE rows' = Written(r) /\ q.step = "save"
    <2>1. rows' = Append(rows, Saved(q))
      BY <1>6 DEF Written
    <2> HIDE DEF q
    <2> QED
      BY <1>1, <1>6, <2>1, SavedKeeps
  <1> QED
    BY <1>2, <1>3, <1>4, <1>5, <1>6

\* A refresh that revokes the row it found, and is about to save over it.
LEMMA RefreshRevokeKeeps ==
    ASSUME IInv, NEW r \in Request, RefreshRevoke(r)
    PROVE  SessionsStep
  <1> DEFINE q == requests[r]
             v == [q EXCEPT !.step = "save"]
  <1>1. Busy(r) /\ q.step = "revoke" /\ rows' = Revoked({q.found})
    BY DEF RefreshRevoke, At, Written
  <1>2. q \in InFlight /\ Justified(q)
    BY <1>1, RequestJustified
  <1>3. /\ v \in InFlight /\ v.step = "save" /\ v.user = q.user
        /\ v.device = q.device /\ v.found = q.found
    BY <1>2 DEF InFlight, Step
  <1>4. /\ RowsKept /\ RotationRevokes'
        /\ \A x \in DOMAIN rows : x \in {q.found} => rows'[x].revoked
    BY <1>1, RevokedKeeps
  <1>5. requests' = [requests EXCEPT ![r] = v]
    BY DEF RefreshRevoke
  <1>6. ClocksTyped
    BY DEF RefreshRevoke, IInv, TypeOK, SessionsTypeOK, ClocksTyped
  <1>7. ASSUME NEW w, w.step = "save", w.user = q.user, w.device = q.device,
               w.found = q.found
        PROVE  Justified(w)'
    BY <1>1, <1>2, <1>4, <1>7 DEF Justified, RowsKept
  <1> HIDE DEF v, q
  <1>8. ASSUME NEW w, w = v
        PROVE  Justified(w)'
    BY <1>3, <1>7, <1>8
  <1>9. \A w \in InFlight \cup {Idle} : w = v => SessionsStep
    BY <1>4, <1>5, <1>6, <1>8, RequestWritten
  <1> QED
    BY <1>3, <1>9

\* A request that ends after its statement, or fails.
LEMMA RequestEnds ==
    ASSUME IInv, NEW r \in Request, Busy(r), rows' \in {rows, Written(r)}, Finish(r),
           UNCHANGED <<expired, everyOut>>, faults' \in Nat,
           \/ UNCHANGED held
           \/ \E x \in Nat : Holds(requests[r].user, requests[r].device, x)
    PROVE  SessionsStep
  <1>1. requests[r].user \in User /\ requests[r].device \in Device
    BY RequestJustified DEF InFlight
  <1>2. held' \in [User -> [Device -> Nat]]
    BY <1>1, HoldsTyped DEF IInv, TypeOK, SessionsTypeOK
  <1>3. ClocksTyped
    BY <1>2 DEF IInv, TypeOK, SessionsTypeOK, ClocksTyped
  <1>4. RowsKept /\ RotationRevokes'
    BY WrittenKeeps
  <1> QED
    BY <1>3, <1>4, RequestWritten DEF Finish

\* The last statement of a request, and its failure.
LEMMA LastStepKeeps ==
    ASSUME IInv, NEW r \in Request,
           RefreshRevokeAll(r) \/ SaveRefreshToken(r) \/ RequestFails(r)
    PROVE  SessionsStep
  <1>1. faults \in Nat /\ Len(rows) + 1 \in Nat
    BY DEF IInv, TypeOK, SessionsTypeOK
  <1>2. CASE RefreshRevokeAll(r)
    BY <1>1, <1>2, RequestEnds DEF RefreshRevokeAll, At
  <1>3. CASE SaveRefreshToken(r)
    BY <1>1, <1>3, RequestEnds DEF SaveRefreshToken, At
  <1>4. CASE RequestFails(r)
    BY <1>1, <1>4, RequestEnds DEF RequestFails, Fault
  <1> QED
    BY <1>2, <1>3, <1>4

\* A row that expires, a crash, and steps that touch no session.
LEMMA OtherSessionSteps ==
    ASSUME IInv, Expire \/ Crash \/ UNCHANGED sessionVars
    PROVE  SessionsStep
  <1>1. rows' = rows
    BY DEF Expire, Crash, sessionVars
  <1>2. ClocksTyped
    BY DEF Expire, Crash, Fault, sessionVars, IInv, TypeOK, SessionsTypeOK, ClocksTyped
  <1>3. requests' \in [Request -> InFlight \cup {Idle}]
    BY DEF Expire, Crash, sessionVars, IInv, TypeOK, SessionsTypeOK
  <1>4. \A r \in Request, q \in InFlight : requests'[r] = q => requests[r] = q
    BY AuthAssumption DEF Expire, Crash, sessionVars
  <1> QED
    BY <1>1, <1>2, <1>3, <1>4, RowsSame, RequestsKept

--------------------------------------------------------------------------------
\* At first there are no requests, edits or rows.
LEMMA InitIInv == Init => IInv
  <1> SUFFICES ASSUME Init PROVE IInv
    OBVIOUS
  <1>1. UsersTypeOK /\ EditsStayInTenant
    BY UsersAssumption DEF Init, UsersInit, UsersTypeOK, EditsStayInTenant, Edits
  <1>2. rows = << >> /\ DOMAIN rows = {}
    BY DEF Init, SessionsInit
  <1>3. SessionsTypeOK
    BY <1>2 DEF Init, SessionsInit, SessionsTypeOK
  <1>4. RequestsJustified /\ RotationRevokes
    BY <1>2 DEF Init, SessionsInit, RequestsJustified, Busy, RotationRevokes
  <1>5. SessionsNumbered
    BY <1>2 DEF Init, SessionsInit, SessionsNumbered
  <1> QED
    BY <1>1, <1>3, <1>4, <1>5 DEF IInv, TypeOK

\* Every step keeps both halves.
LEMMA StepKeeps ==
    ASSUME IInv, [Next]_vars
    PROVE  UsersStep /\ SessionsStep
  <1>1. CASE UNCHANGED vars
    BY <1>1, UsersSame, OtherSessionSteps DEF vars
  <1>2. ASSUME NEW r \in Request, NEW u \in Client, NEW d \in Device, LoginRead(r, u, d)
        PROVE  UsersStep /\ SessionsStep
    <2>1. u \in User
      BY AuthAssumption
    <2> QED
      BY <1>2, <2>1, UsersSame, SignInHeld DEF LoginRead
  <1>3. ASSUME NEW r \in Request, NEW u \in Client, NEW d \in Device,
               NEW t \in Tenant, NEW role \in Assigned, RegisterInsert(r, u, d, t, role)
        PROVE  UsersStep /\ SessionsStep
    <2>1. u \in User /\ role \in Role
      BY AuthAssumption, UsersAssumption
    <2> QED
      BY <1>3, <2>1, Registered, SignInHeld DEF RegisterInsert
  <1>4. ASSUME NEW r \in Request, NEW u \in Client, NEW d \in Device, RefreshFind(r, u, d)
        PROVE  UsersStep /\ SessionsStep
    <2>1. u \in User
      BY AuthAssumption
    <2> QED
      BY <1>4, <2>1, UsersSame, RefreshFindKeeps DEF RefreshFind
  <1>5. ASSUME NEW r \in Request, RequestStep(r) \/ RequestFails(r)
        PROVE  UsersStep /\ SessionsStep
    <2>1. UNCHANGED usersVars
      BY <1>5 DEF RequestStep, RefreshRevoke, RefreshRevokeAll, SaveRefreshToken,
                  RequestFails
    <2> QED
      BY <1>5, <2>1, UsersSame, RefreshRevokeKeeps, LastStepKeeps DEF RequestStep
  <1>6. CASE DeviceStep
    <2>1. PICK u \in Client, d \in Device :
            RefreshTooLate(u, d) \/ Logout(u, d) \/ LogoutAllSessions(u, d)
      BY <1>6 DEF DeviceStep
    <2>2. u \in User /\ UNCHANGED usersVars
      BY <2>1, AuthAssumption DEF RefreshTooLate, Logout, LogoutAllSessions
    <2> QED
      BY <2>1, <2>2, UsersSame, DeviceStepKeeps
  <1>7. CASE Expire
    <2>1. UNCHANGED usersVars
      BY <1>7 DEF Expire
    <2> QED
      BY <1>7, <2>1, UsersSame, OtherSessionSteps
  <1>8. CASE (EditArrives \/ \E e \in Edit : EditStep(e)) /\ UNCHANGED sessionVars
    BY <1>8, EditArrivesKeeps, EditStepKeeps, OtherSessionSteps
  <1>9. CASE Crash
    <2>1. UsersKept /\ users' \in [User -> Account \cup {NoUser}]
      BY <1>9 DEF Crash, UsersKept, Known, IInv, TypeOK, UsersTypeOK
    <2>2. /\ edits' \in [Edit -> EditInFlight \cup {Idle}]
          /\ \A f \in Edit : edits'[f] \in {edits[f], Idle}
      BY <1>9 DEF Crash
    <2> QED
      BY <1>9, <2>1, <2>2, EditsKept, OtherSessionSteps
  <1> QED
    BY <1>1, <1>2, <1>3, <1>4, <1>5, <1>6, <1>7, <1>8, <1>9 DEF Next, RequestArrives

\* What a step does to the table: nothing, a revocation, or a row saved by a
\* request; and only rows that are there expire.
RowsSaved(r) == At(r, "save") /\ rows' = Append(rows, Saved(requests[r]))

LEMMA TableSteps ==
    ASSUME IInv, [Next]_vars
    PROVE  /\ \/ rows' = rows
              \/ \E S : rows' = Revoked(S)
              \/ \E r \in Request : RowsSaved(r)
           /\ \/ expired' = expired
              \/ expired' = expired + 1 /\ expired < Len(rows) /\ rows' = rows
  <1>1. ASSUME NEW r \in Request, RequestStep(r) \/ RequestFails(r)
        PROVE  /\ expired' = expired
               /\ \/ rows' = rows
                  \/ \E S : rows' = Revoked(S)
                  \/ RowsSaved(r)
    <2>1. Busy(r) /\ rows' \in {rows, Written(r)} /\ expired' = expired
      BY <1>1 DEF RequestStep, RefreshRevoke, RefreshRevokeAll, SaveRefreshToken,
                  RequestFails, At
    <2>2. requests[r].step \in {"revoke", "revokeAll", "save"}
      BY <2>1, RequestJustified DEF InFlight, Step
    <2> QED
      BY <2>1, <2>2 DEF Written, RowsSaved, At
  <1>2. ASSUME DeviceStep
        PROVE  expired' = expired /\ (rows' = rows \/ \E S : rows' = Revoked(S))
    BY <1>2 DEF DeviceStep, RefreshTooLate, Logout, LogoutAllSessions
  <1>3. CASE Expire
    BY <1>3 DEF Expire
  <1>4. CASE RequestArrives \/ Crash \/ UNCHANGED sessionVars
    BY <1>4 DEF RequestArrives, LoginRead, RegisterInsert, RefreshFind, Crash, sessionVars
  <1> QED
    BY <1>1, <1>2, <1>3, <1>4 DEF Next, vars

\* A row that is revoked stays in its session, and one that is saved joins the
\* session of the row it came from, or begins one.
LEMMA StepNumbers ==
    ASSUME IInv, [Next]_vars
    PROVE  SessionsNumbered'
  <1>1. /\ rows \in Seq(Row) /\ DOMAIN rows = 1 .. Len(rows) /\ Len(rows) \in Nat
        /\ expired \in Nat
    BY DEF IInv, TypeOK, SessionsTypeOK
  <1>2. expired <= Len(rows) /\ \A x \in DOMAIN rows : rows[x].session \in 1 .. x
    BY DEF IInv, SessionsNumbered
  <1>3. CASE rows' = rows
    BY <1>1, <1>2, <1>3, TableSteps DEF SessionsNumbered
  <1>4. ASSUME NEW S, rows' = Revoked(S), expired' = expired
        PROVE  SessionsNumbered'
    <2>1. DOMAIN rows' = DOMAIN rows /\ rows' \in Seq(Row)
      BY <1>4, RevokedKeeps DEF RowsKept
    <2>2. Len(rows') = Len(rows)
      BY <1>1, <2>1
    <2>3. ASSUME NEW x \in DOMAIN rows
          PROVE  rows'[x].session = rows[x].session
      BY <1>4, SessionStays
    <2> QED
      BY <1>2, <1>4, <2>1, <2>2, <2>3 DEF SessionsNumbered
  <1>5. ASSUME NEW r \in Request, RowsSaved(r), expired' = expired
        PROVE  SessionsNumbered'
    <2> DEFINE q == requests[r]
               n == Len(rows) + 1
    <2>1. q \in InFlight /\ Justified(q)
      BY <1>5, RequestJustified DEF RowsSaved, At
    <2> HIDE DEF q
    <2>2. Saved(q) \in Row /\ rows' = Append(rows, Saved(q))
      BY <1>5, <2>1, SavedRow DEF RowsSaved, q
    <2>3. /\ rows' \in Seq(Row) /\ DOMAIN rows' = 1 .. n
          /\ \A x \in DOMAIN rows : rows'[x] = rows[x]
          /\ rows'[n] = Saved(q)
      BY <2>2, Appended
    <2>4. Saved(q).session \in 1 .. n
      <3>1. CASE q.found = 0
        BY <1>1, <2>1, <3>1, SavedRow
      <3>2. CASE q.found # 0
        <4>1. q.found \in DOMAIN rows
          BY <2>1, <3>2 DEF Justified
        <4>2. Saved(q).session = rows[q.found].session
          BY <2>1, <3>2, SavedRow
        <4> QED
          BY <1>1, <1>2, <4>1, <4>2
      <3> QED
        BY <3>1, <3>2
    <2>5. \A x \in DOMAIN rows' : x \in DOMAIN rows \/ x = n
      BY <1>1, <2>3
    <2>6. \A x \in DOMAIN rows' : rows'[x].session \in 1 .. x
      BY <1>2, <2>3, <2>4, <2>5
    <2>7. Len(rows') = n
      BY <1>1, <2>3
    <2> QED
      BY <1>1, <1>2, <1>5, <2>6, <2>7 DEF SessionsNumbered
  <1> QED
    BY <1>3, <1>4, <1>5, TableSteps

\* The invariant is inductive.
LEMMA NextIInv == IInv /\ [Next]_vars => IInv'
  BY StepKeeps, StepNumbers DEF UsersStep, SessionsStep, IInv, TypeOK

--------------------------------------------------------------------------------
(***************************************************************************)
(* The inductive invariant of users, edits, sessions and requests.         *)
(***************************************************************************)
THEOREM InvariantHolds == Spec => []IInv
  BY InitIInv, NextIInv, PTL DEF Spec

(***************************************************************************)
(* Whatever happens between its query and its write, an update or a change *)
(* of status writes a user of its caller's tenant.                         *)
(***************************************************************************)
THEOREM EditsAlwaysStayInTenant == Spec => []EditsStayInTenant
  <1>1. IInv => EditsStayInTenant
    BY DEF IInv
  <1> QED
    BY <1>1, InvariantHolds, PTL

(***************************************************************************)
(* Every session that a refresh saved replaces one that is revoked, with   *)
(* any races, lost answers, failures and crashes.                          *)
(***************************************************************************)
THEOREM RotationAlwaysRevokes == Spec => []RotationRevokes
  <1>1. IInv => RotationRevokes
    BY DEF IInv
  <1> QED
    BY <1>1, InvariantHolds, PTL

(***************************************************************************)
(* Accounts are never deleted, moved to another tenant, or stripped of or  *)
(* given a driver profile.                                                 *)
(***************************************************************************)
THEOREM AccountsStay == Spec => AccountsArePermanent
  <1>1. IInv /\ [Next]_vars =>
          [\A u \in User :
             Known(u) => /\ Known(u)'
                         /\ users'[u].tenant = users[u].tenant
                         /\ users'[u].hasProfile = users[u].hasProfile]_vars
    BY StepKeeps DEF UsersStep, UsersKept
  <1> QED
    BY <1>1, InvariantHolds, PTL DEF Spec, AccountsArePermanent

--------------------------------------------------------------------------------
(* The refinement: sessions begin by signing in, and a refresh renews one that *)
(* it found open.                                                              *)

\* No row goes, or moves to another session.
SessionsKept ==
    \A x \in DOMAIN rows : x \in DOMAIN rows' /\ SessionAt(x)' = SessionAt(x)

\* So it is when rows are revoked, and none of them can be refreshed that could
\* not before.
LEMMA RevokedEnds ==
    ASSUME IInv, rows' = rows \/ \E S : rows' = Revoked(S),
           expired' \in Nat, expired' >= expired
    PROVE  /\ SessionsKept /\ DOMAIN rows' = DOMAIN rows
           /\ \A x \in DOMAIN rows : CanRefresh(x)' => CanRefresh(x)
  <1>1. DOMAIN rows \subseteq Nat /\ expired \in Nat
    BY DEF IInv, TypeOK, SessionsTypeOK
  <1>2. CASE rows' = rows
    BY <1>1, <1>2 DEF SessionsKept, SessionAt, CanRefresh
  <1>3. ASSUME NEW S, rows' = Revoked(S)
        PROVE  /\ SessionsKept /\ DOMAIN rows' = DOMAIN rows
               /\ \A x \in DOMAIN rows : CanRefresh(x)' => CanRefresh(x)
    <2>1. DOMAIN rows' = DOMAIN rows
      BY <1>3, RevokedKeeps
    <2>2. ASSUME NEW x \in DOMAIN rows
          PROVE  /\ rows'[x].session = rows[x].session
                 /\ rows'[x].user = rows[x].user /\ rows'[x].device = rows[x].device
                 /\ rows'[x].revoked = (rows[x].revoked \/ x \in S)
      BY <1>3, <2>2, RevokedKeeps, SessionStays DEF RowsKept
    <2>3. SessionsKept
      BY <2>1, <2>2 DEF SessionsKept, SessionAt
    <2>4. ASSUME NEW x \in DOMAIN rows, CanRefresh(x)'
          PROVE  CanRefresh(x)
      <3>1. ~rows[x].revoked
        BY <2>2, <2>4, Zenon DEF CanRefresh
      <3>2. x > expired'
        BY <2>4 DEF CanRefresh
      <3>3. x > expired
        BY <1>1, <3>2
      <3> QED
        BY <3>1, <3>3 DEF CanRefresh
    <2> QED
      BY <2>1, <2>3, <2>4
  <1> QED
    BY <1>2, <1>3

\* A request that stays as it is keeps its ticket.
LEMMA TicketStays ==
    ASSUME IInv, SessionsKept, NEW o \in Request, requests'[o] = requests[o]
    PROVE  TicketOf(o)' = TicketOf(o)
  <1>1. Busy(o) /\ requests[o].found # 0 => requests[o].found \in DOMAIN rows
    BY RequestJustified DEF Justified
  <1> QED
    BY <1>1 DEF TicketOf, Busy, At, SessionsKept

\* A step that keeps the rows, makes none of them good for a refresh, and at most
\* drops tickets ends sessions only.
LEMMA OnlyEnds ==
    ASSUME users' = users, SessionsKept, DOMAIN rows' = DOMAIN rows,
           \A x \in DOMAIN rows : CanRefresh(x)' => CanRefresh(x),
           \A o \in Request : TicketOf(o)' \in {TicketOf(o), Idle}
    PROVE  Promise!Next
  <1> DEFINE dropped == {o \in Request : TicketOf(o)' # TicketOf(o)}
  <1>1. {u \in User : validate(u)}' = {u \in User : validate(u)}
    BY DEF validate, Known
  <1>2. Begun' = Begun
    BY DEF SessionsKept, Begun
  <1>3. OpenSessions' \subseteq OpenSessions
    BY DEF SessionsKept, OpenSessions
  <1>4. [o \in Request |-> TicketOf(o)'] =
          [o \in Request |-> IF o \in dropped THEN Idle
                             ELSE [p \in Request |-> TicketOf(p)][o]]
    OBVIOUS
  <1>5. dropped \in SUBSET Request
    OBVIOUS
  <1> HIDE DEF dropped
  <1>6. Promise!End
    BY <1>1, <1>2, <1>3, <1>4, <1>5 DEF Promise!End
  <1> QED
    BY <1>6 DEF Promise!Next

\* So it is with logouts, refused tokens, time and crashes.
LEMMA OthersOnlyEnd ==
    ASSUME IInv, DeviceStep \/ Expire \/ Crash
    PROVE  Promise!Next
  <1>1. expired \in Nat
    BY DEF IInv, TypeOK, SessionsTypeOK
  <1>2. users' = users
    BY DEF DeviceStep, RefreshTooLate, Logout, LogoutAllSessions, Expire, Crash, usersVars
  <1>3. expired' >= expired /\ expired' \in Nat
    BY <1>1 DEF DeviceStep, RefreshTooLate, Logout, LogoutAllSessions, Expire, Crash
  <1>4. rows' = rows \/ \E S : rows' = Revoked(S)
    BY DEF DeviceStep, RefreshTooLate, Logout, LogoutAllSessions, Expire, Crash
  <1>5. /\ SessionsKept /\ DOMAIN rows' = DOMAIN rows
        /\ \A x \in DOMAIN rows : CanRefresh(x)' => CanRefresh(x)
    BY <1>3, <1>4, RevokedEnds
  <1>6. \A o \in Request : requests'[o] \in {requests[o], Idle}
    BY DEF DeviceStep, RefreshTooLate, Logout, LogoutAllSessions, Expire, Crash
  <1>7. ASSUME NEW o \in Request
        PROVE  TicketOf(o)' \in {TicketOf(o), Idle}
    <2>1. CASE requests'[o] = requests[o]
      BY <1>5, <2>1, TicketStays
    <2>2. CASE requests'[o] = Idle
      BY <2>2 DEF TicketOf, Busy
    <2> QED
      BY <1>6, <2>1, <2>2
  <1> QED
    BY <1>2, <1>5, <1>7, OnlyEnds

\* So it is with a request at any other statement than its last, and with one
\* that fails without saving.
LEMMA RequestsOnlyEnd ==
    ASSUME IInv, NEW r \in Request, RequestStep(r) \/ RequestFails(r),
           ~RowsSaved(r)
    PROVE  Promise!Next
  <1>1. /\ Busy(r) /\ rows' \in {rows, Written(r)} /\ UNCHANGED <<users, expired>>
        /\ \/ requests' = [requests EXCEPT ![r] = Idle]
           \/ At(r, "revoke") /\ requests' = [requests EXCEPT ![r].step = "save"]
    BY DEF RequestStep, RefreshRevoke, RefreshRevokeAll, SaveRefreshToken, RequestFails,
           At, Finish, usersVars
  <1>2. requests[r] \in InFlight /\ Justified(requests[r])
    BY <1>1, RequestJustified
  <1>3. requests \in [Request -> InFlight \cup {Idle}] /\ expired \in Nat
    BY DEF IInv, TypeOK, SessionsTypeOK
  <1>4. rows' = rows \/ \E S : rows' = Revoked(S)
    <2>1. requests[r].step \in {"revoke", "revokeAll", "save"}
      BY <1>2 DEF InFlight, Step
    <2>2. CASE requests[r].step = "save" /\ rows' = Written(r)
      BY <1>1, <2>2 DEF Written, RowsSaved, At
    <2>3. CASE requests[r].step # "save" \/ rows' = rows
      BY <1>1, <2>1, <2>3 DEF Written
    <2> QED
      BY <1>1, <2>2, <2>3
  <1>5. /\ SessionsKept /\ DOMAIN rows' = DOMAIN rows
        /\ \A x \in DOMAIN rows : CanRefresh(x)' => CanRefresh(x)
    BY <1>1, <1>3, <1>4, RevokedEnds
  <1>6. ASSUME NEW o \in Request
        PROVE  TicketOf(o)' \in {TicketOf(o), Idle}
    <2>1. CASE requests'[o] = requests[o]
      BY <1>5, <2>1, TicketStays
    <2>2. CASE requests'[o] = Idle
      BY <2>2 DEF TicketOf, Busy
    <2>3. CASE o = r /\ At(r, "revoke") /\ requests' = [requests EXCEPT ![r].step = "save"]
      <3>1. requests[r].found # 0 /\ requests[r].found \in DOMAIN rows
        BY <1>1, <2>3 DEF IInv, RequestsJustified
      <3>2. requests[r] # Idle /\ requests[r].step = "revoke"
        BY <2>3 DEF At, Busy
      <3>3. TicketOf(r) = SessionAt(requests[r].found)
        BY <3>1, <3>2 DEF TicketOf, Busy, At
      <3>4. /\ requests'[r] \in InFlight /\ requests'[r].step = "save"
            /\ requests'[r].found = requests[r].found
        BY <1>2, <1>3, <2>3 DEF InFlight, Step
      <3>5. requests'[r] # Idle
        BY <3>4, AuthAssumption
      <3>6. TicketOf(r)' = SessionAt(requests[r].found)'
        BY <3>1, <3>4, <3>5 DEF TicketOf, Busy, At, SessionAt
      <3>7. SessionAt(requests[r].found)' = SessionAt(requests[r].found)
        <4>1. rows'[requests[r].found] = rows'[requests'[r].found]
          BY <3>4
        <4>2. \A x \in DOMAIN rows :
                /\ rows'[x].session = rows[x].session /\ rows'[x].user = rows[x].user
                /\ rows'[x].device = rows[x].device
          BY <1>5 DEF SessionsKept, SessionAt
        <4> QED
          BY <3>1, <3>4, <4>1, <4>2 DEF SessionAt
      <3> QED
        BY <2>3, <3>3, <3>6, <3>7
    <2> QED
      BY <1>1, <1>3, <2>1, <2>2, <2>3
  <1> QED
    BY <1>1, <1>5, <1>6, OnlyEnds

\* A request that saves its row begins a session, or renews that of its ticket.
LEMMA SavedAsPromised ==
    ASSUME IInv, NEW r \in Request, RowsSaved(r), users' = users, expired' = expired,
           requests' = [requests EXCEPT ![r] = Idle]
    PROVE  Promise!Next
  <1>0. PICK n : n = Len(rows) + 1
    OBVIOUS
  <1> DEFINE q == requests[r]
             s == [id |-> Saved(q).session, user |-> q.user, device |-> q.device]
  <1>1. /\ rows \in Seq(Row) /\ DOMAIN rows = 1 .. Len(rows) /\ Len(rows) \in Nat
        /\ expired \in Nat /\ expired <= Len(rows)
        /\ \A x \in DOMAIN rows : rows[x].session \in 1 .. x
        /\ requests \in [Request -> InFlight \cup {Idle}]
    BY DEF IInv, TypeOK, SessionsTypeOK, SessionsNumbered
  <1>2. q \in InFlight /\ Justified(q) /\ Busy(r) /\ q.step = "save"
    BY RequestJustified DEF RowsSaved, At
  <1>3. /\ Saved(q) \in Row /\ Saved(q).user = q.user /\ Saved(q).device = q.device
        /\ ~Saved(q).revoked
        /\ Saved(q).session = IF q.found = 0 THEN n ELSE rows[q.found].session
    BY <1>0, <1>2, SavedRow
  <1>4. /\ rows' \in Seq(Row) /\ DOMAIN rows' = 1 .. n
        /\ \A x \in DOMAIN rows : rows'[x] = rows[x]
        /\ rows'[n] = Saved(q)
    BY <1>0, <1>3, Appended DEF RowsSaved
  <1>5. n \notin DOMAIN rows /\ DOMAIN rows' = DOMAIN rows \cup {n}
    BY <1>0, <1>1, <1>4
  <1>6. SessionsKept /\ SessionAt(n)' = s
    BY <1>3, <1>4, <1>5 DEF SessionsKept, SessionAt
  <1>7. /\ \A x \in DOMAIN rows : CanRefresh(x)' <=> CanRefresh(x)
        /\ CanRefresh(n)'
    BY <1>0, <1>1, <1>3, <1>4 DEF CanRefresh
  <1> HIDE DEF q, s
  <1>8. Begun' = Begun \cup {s}
    BY <1>5, <1>6 DEF Begun, SessionsKept
  <1>9. OpenSessions' = OpenSessions \cup {s}
    BY <1>5, <1>6, <1>7 DEF OpenSessions, SessionsKept
  <1>10. {u \in User : validate(u)}' = {u \in User : validate(u)}
    BY DEF validate, Known
  <1>11. \A o \in Request : TicketOf(o)' = IF o = r THEN Idle ELSE TicketOf(o)
    <2>1. TicketOf(r)' = Idle
      BY <1>1 DEF TicketOf, Busy
    <2>2. \A o \in Request \ {r} : requests'[o] = requests[o]
      BY <1>1
    <2> QED
      BY <1>6, <2>1, <2>2, TicketStays
  <1>12. [o \in Request |-> TicketOf(o)'] =
           [[o \in Request |-> TicketOf(o)] EXCEPT ![r] = Idle]
    BY <1>11
  <1>13. CASE q.found = 0
    <2>1. TicketOf(r) = [id |-> 0, user |-> q.user, device |-> q.device]
      BY <1>2, <1>13 DEF TicketOf, At, q
    <2>2. s.id = n /\ s.user = q.user /\ s.device = q.device
      BY <1>3, <1>13 DEF s
    <2>3. n # 0 /\ \A b \in Begun : b.id # n
      BY <1>0, <1>1 DEF Begun, SessionAt
    <2>4. s \in Begun'
      BY <1>8
    <2>5. Promise!Begin(r)
      BY <1>8, <1>9, <1>10, <1>12, <2>1, <2>2, <2>3, <2>4
         DEF Promise!Begin, Promise!Session
    <2> QED
      BY <2>5 DEF Promise!Next
  <1>14. CASE q.found # 0
    <2>1. /\ q.found \in DOMAIN rows /\ rows[q.found].user = q.user
          /\ rows[q.found].device = q.device
      BY <1>2, <1>14 DEF Justified
    <2>2. SessionAt(q.found) = s
      BY <1>3, <1>14, <2>1 DEF SessionAt, s
    <2>3. TicketOf(r) = s
      BY <1>2, <1>14, <2>2 DEF TicketOf, At, q
    <2>4. s \in Begun
      BY <2>1, <2>2 DEF Begun
    <2>5. Begun' = Begun
      BY <1>8, <2>4
    <2>6. Promise!Renew(r)
      BY <1>9, <1>10, <1>12, <2>3, <2>4, <2>5 DEF Promise!Renew
    <2> QED
      BY <2>6 DEF Promise!Next
  <1> QED
    BY <1>13, <1>14

\* A request that is accepted takes a ticket, and no other changes.
LEMMA TicketTaken ==
    ASSUME IInv, NEW r \in Request, NEW v \in InFlight, ~Busy(r), rows' = rows,
           requests' = [requests EXCEPT ![r] = v]
    PROVE  /\ TicketOf(r) = Idle /\ requests'[r] = v /\ v # Idle
           /\ [o \in Request |-> TicketOf(o)'] =
                [[o \in Request |-> TicketOf(o)] EXCEPT ![r] = TicketOf(r)']
           /\ Begun' = Begun
           /\ expired' = expired => OpenSessions' = OpenSessions
           /\ SessionsKept
  <1>1. /\ requests'[r] = v /\ v # Idle
        /\ \A o \in Request \ {r} : requests'[o] = requests[o]
    BY AuthAssumption DEF IInv, TypeOK, SessionsTypeOK
  <1>2. SessionsKept
    BY DEF SessionsKept, SessionAt
  <1>3. \A o \in Request \ {r} : TicketOf(o)' = TicketOf(o)
    BY <1>1, <1>2, TicketStays
  <1>4. TicketOf(r) = Idle
    BY DEF TicketOf
  <1>5. Begun' = Begun
    BY DEF Begun, SessionAt
  <1>6. expired' = expired => OpenSessions' = OpenSessions
    BY DEF OpenSessions, SessionAt, CanRefresh
  <1> QED
    BY <1>1, <1>2, <1>3, <1>4, <1>5, <1>6

\* A login or a registration signs in as promised, when the user is active by
\* then and no other user's activity changes.
LEMMA SignsInAsPromised ==
    ASSUME IInv, NEW r \in Request, NEW u \in User, NEW d \in Device,
           ~Busy(r), Hold(r, "save", u, d, 0), UNCHANGED <<rows, expired>>,
           validate(u)',
           \A v \in User \ {u} : validate(v)' <=> validate(v)
    PROVE  Promise!Next
  <1> DEFINE q == [step |-> "save", user |-> u, device |-> d, found |-> 0]
  <1>1. q \in InFlight /\ q.step = "save" /\ q.user = u /\ q.device = d /\ q.found = 0
    BY DEF InFlight, Step
  <1>2. requests' = [requests EXCEPT ![r] = q]
    BY DEF Hold
  <1> HIDE DEF q
  <1>3. /\ TicketOf(r) = Idle /\ requests'[r] = q /\ q # Idle
        /\ [o \in Request |-> TicketOf(o)'] =
             [[o \in Request |-> TicketOf(o)] EXCEPT ![r] = TicketOf(r)']
        /\ Begun' = Begun /\ OpenSessions' = OpenSessions
    BY <1>1, <1>2, TicketTaken
  <1>4. TicketOf(r)' = [id |-> 0, user |-> u, device |-> d]
    BY <1>1, <1>3 DEF TicketOf, Busy, At
  <1>5. u \in {v \in User : validate(v)'}
    OBVIOUS
  <1>6. {v \in User : validate(v)'} \in
          {{v \in User : validate(v)}, {v \in User : validate(v)} \cup {u}}
    <2>1. CASE validate(u)
      BY <2>1
    <2>2. CASE ~validate(u)
      BY <2>2
    <2> QED
      BY <2>1, <2>2
  <1>7. Promise!SignIn(r, u, d)
    BY <1>3, <1>4, <1>5, <1>6 DEF Promise!SignIn, Promise!Session
  <1> QED
    BY <1>7 DEF Promise!Next

\* A refresh that arrives finds a session open, or changes none.
LEMMA RefreshesAsPromised ==
    ASSUME IInv, NEW r \in Request, NEW u \in User, NEW d \in Device, RefreshFind(r, u, d)
    PROVE  Promise!Next
  <1>1. UNCHANGED <<users, rows, expired>> /\ ~Busy(r)
    BY DEF RefreshFind, Accepts, usersVars
  <1>2. /\ DOMAIN rows \subseteq Nat /\ expired \in Nat
        /\ requests \in [Request -> InFlight \cup {Idle}]
    BY DEF IInv, TypeOK, SessionsTypeOK
  <1>3. /\ SessionsKept /\ DOMAIN rows' = DOMAIN rows
        /\ \A x \in DOMAIN rows : CanRefresh(x)' => CanRefresh(x)
    BY <1>1, <1>2, RevokedEnds
  <1>4. CASE requests' = requests
    BY <1>1, <1>3, <1>4, TicketStays, OnlyEnds
  <1>5. CASE Hold(r, "revokeAll", u, d, 0)
    <2> DEFINE q == [step |-> "revokeAll", user |-> u, device |-> d, found |-> 0]
    <2>1. q \in InFlight /\ q.step = "revokeAll"
      BY DEF InFlight, Step
    <2>2. requests' = [requests EXCEPT ![r] = q]
      BY <1>5 DEF Hold
    <2> HIDE DEF q
    <2>3. requests'[r] = q /\ \A o \in Request \ {r} : requests'[o] = requests[o]
      BY <1>2, <2>2
    <2>4. TicketOf(r)' = Idle
      BY <2>1, <2>3 DEF TicketOf, At, Busy
    <2>5. \A o \in Request : TicketOf(o)' \in {TicketOf(o), Idle}
      BY <1>3, <2>3, <2>4, TicketStays
    <2> QED
      BY <1>1, <1>3, <2>5, OnlyEnds
  <1>6. ASSUME NEW y \in Findable(u, d), y > expired, Hold(r, "revoke", u, d, y)
        PROVE  Promise!Next
    <2> DEFINE q == [step |-> "revoke", user |-> u, device |-> d, found |-> y]
    <2>1. y \in DOMAIN rows /\ ~rows[y].revoked /\ y \in Nat /\ y # 0
      BY <1>2, <1>6 DEF Findable, Live
    <2>2. q \in InFlight /\ q.step = "revoke" /\ q.found = y
      BY <2>1 DEF InFlight, Step
    <2>3. requests' = [requests EXCEPT ![r] = q]
      BY <1>6 DEF Hold
    <2> HIDE DEF q
    <2>4. /\ TicketOf(r) = Idle /\ requests'[r] = q /\ q # Idle
          /\ [o \in Request |-> TicketOf(o)'] =
               [[o \in Request |-> TicketOf(o)] EXCEPT ![r] = TicketOf(r)']
          /\ Begun' = Begun /\ OpenSessions' = OpenSessions
      BY <1>1, <2>2, <2>3, TicketTaken
    <2>5. TicketOf(r)' = SessionAt(y)
      BY <1>1, <2>1, <2>2, <2>4 DEF TicketOf, Busy, At, SessionAt
    <2>6. SessionAt(y) \in OpenSessions
      BY <1>6, <2>1 DEF OpenSessions, CanRefresh
    <2>7. {v \in User : validate(v)}' = {v \in User : validate(v)}
      BY <1>1 DEF validate, Known
    <2>8. Promise!Refresh(r, SessionAt(y))
      BY <2>4, <2>5, <2>6, <2>7 DEF Promise!Refresh
    <2> QED
      BY <2>6, <2>8 DEF Promise!Next
  <1>7. \/ Hold(r, "revokeAll", u, d, 0)
        \/ \E y \in Findable(u, d) : y > expired /\ Hold(r, "revoke", u, d, y)
        \/ requests' = requests
    BY DEF RefreshFind
  <1> QED
    BY <1>4, <1>5, <1>6, <1>7

\* A step that touches no session is a change of who is active.
LEMMA EditsSwitch ==
    ASSUME UNCHANGED sessionVars
    PROVE  Promise!Next
  <1>1. Begun' = Begun /\ OpenSessions' = OpenSessions
    BY DEF sessionVars, Begun, OpenSessions, SessionAt, CanRefresh
  <1>2. \A o \in Request : TicketOf(o)' = TicketOf(o)
    BY DEF sessionVars, TicketOf, Busy, At, SessionAt
  <1>3. {u \in User : validate(u)'} \subseteq User
    OBVIOUS
  <1>4. Promise!Switch
    BY <1>1, <1>2, <1>3 DEF Promise!Switch
  <1> QED
    BY <1>4 DEF Promise!Next

\* Every step is one that the promise allows, or leaves it alone.
LEMMA StepIsPromised ==
    ASSUME IInv, [Next]_vars
    PROVE  [Promise!Next]_(Promise!promiseVars)
  <1>1. CASE UNCHANGED vars
    BY <1>1, EditsSwitch DEF vars
  <1>2. ASSUME NEW r \in Request, NEW u \in Client, NEW d \in Device, LoginRead(r, u, d)
        PROVE  Promise!Next
    <2>1. u \in User
      BY AuthAssumption
    <2>2. /\ ~Busy(r) /\ Hold(r, "save", u, d, 0)
          /\ UNCHANGED <<users, rows, expired>> /\ validate(u)
      BY <1>2 DEF LoginRead, SignsIn, Accepts, validate, usersVars
    <2>3. validate(u)' /\ \A v \in User : validate(v)' <=> validate(v)
      BY <2>2 DEF validate, Known
    <2> QED
      BY <2>1, <2>2, <2>3, SignsInAsPromised
  <1>3. ASSUME NEW r \in Request, NEW u \in Client, NEW d \in Device,
               NEW t \in Tenant, NEW role \in Assigned, RegisterInsert(r, u, d, t, role)
        PROVE  Promise!Next
    <2>1. u \in User
      BY AuthAssumption
    <2>2. /\ ~Busy(r) /\ Hold(r, "save", u, d, 0)
          /\ UNCHANGED <<rows, expired>> /\ Register(u, t, role)
      BY <1>3 DEF RegisterInsert, SignsIn, Accepts
    <2>3. users' = [users EXCEPT ![u] = [tenant |-> t, role |-> role, isActive |-> TRUE,
                                         hasProfile |-> FALSE]]
      BY <2>2 DEF Register, Insert
    <2>4. users \in [User -> Account \cup {NoUser}] /\ role \in Role
      BY UsersAssumption DEF IInv, TypeOK, UsersTypeOK
    <2>5. users'[u] # NoUser /\ users'[u].isActive
      <3>1. users'[u] \in Account
        BY <2>1, <2>3, <2>4 DEF Account
      <3> QED
        BY <2>1, <2>3, <2>4, <3>1, UsersAssumption
    <2>6. validate(u)' /\ \A v \in User \ {u} : validate(v)' <=> validate(v)
      BY <2>3, <2>4, <2>5 DEF validate, Known
    <2> QED
      BY <2>1, <2>2, <2>6, SignsInAsPromised
  <1>4. ASSUME NEW r \in Request, NEW u \in Client, NEW d \in Device, RefreshFind(r, u, d)
        PROVE  Promise!Next
    <2>1. u \in User
      BY AuthAssumption
    <2> QED
      BY <1>4, <2>1, RefreshesAsPromised
  <1>5. ASSUME NEW r \in Request, RequestStep(r) \/ RequestFails(r)
        PROVE  Promise!Next
    <2>1. CASE ~RowsSaved(r)
      BY <1>5, <2>1, RequestsOnlyEnd
    <2>2. CASE RowsSaved(r)
      <3>1. users' = users /\ expired' = expired
        BY <1>5 DEF RequestStep, RefreshRevoke, RefreshRevokeAll, SaveRefreshToken,
                    RequestFails, usersVars
      <3>2. requests' = [requests EXCEPT ![r] = Idle]
        BY <1>5, <2>2 DEF RequestStep, RefreshRevoke, RefreshRevokeAll, SaveRefreshToken,
                          RequestFails, RowsSaved, At, Finish
      <3> QED
        BY <2>2, <3>1, <3>2, SavedAsPromised
    <2> QED
      BY <2>1, <2>2
  <1> QED
    BY <1>1, <1>2, <1>3, <1>4, <1>5, OthersOnlyEnd, EditsSwitch DEF Next, RequestArrives

\* At first there is no session and no request.
LEMMA InitIsPromised == Init => Promise!Init
  <1> SUFFICES ASSUME Init PROVE Promise!Init
    OBVIOUS
  <1>1. DOMAIN rows = {}
    BY DEF Init, SessionsInit
  <1>2. Begun = {} /\ OpenSessions = {}
    BY <1>1 DEF Begun, OpenSessions
  <1>3. \A o \in Request : TicketOf(o) = Idle
    BY DEF Init, SessionsInit, TicketOf, Busy
  <1>4. {u \in User : validate(u)} \subseteq User
    OBVIOUS
  <1> QED
    BY <1>2, <1>3, <1>4 DEF Promise!Init

(***************************************************************************)
(* Users, handlers, refreshes, failures and crashes implement the promise: *)
(* every session begins by a login or a registration of its own, of a user *)
(* who is active then; once it has ended, only a refresh that found it     *)
(* open before opens it again, and no refresh does so twice.               *)
(***************************************************************************)
THEOREM PromiseKept == Spec => KeepsSessionPromise
  <1>1. IInv /\ [Next]_vars => [Promise!Next]_(Promise!promiseVars)
    BY StepIsPromised
  <1> QED
    BY <1>1, InitIsPromised, InvariantHolds, PTL DEF Spec, KeepsSessionPromise, Promise!Spec
================================================================================
