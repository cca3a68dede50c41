--------------------------- MODULE AccountsProperties ---------------------------
(***************************************************************************)
(* What accounts and sessions should guarantee, stated over module         *)
(* Accounts.                                                               *)
(***************************************************************************)
EXTENDS Accounts

\* Every variable has its type.
TypeOK == UsersTypeOK /\ SessionsTypeOK

--------------------------------------------------------------------------------
(***************************************************************************)
(* An update or a change of status writes by id what an earlier query      *)
(* found in the caller's tenant: when it writes, whatever happened in      *)
(* between, the user is still there and still of that tenant.              *)
(***************************************************************************)
EditsStayInTenant ==
    \A e \in Edit :
      Edits(e, "update") \/ Edits(e, "toggleActive") =>
        Known(edits[e].user) /\ users[edits[e].user].tenant = edits[e].by

(***************************************************************************)
(* Once created, an account keeps its tenant and its driver profile,       *)
(* whoever edits it or tries to create it again: module Delivery takes     *)
(* both as constants.                                                      *)
(***************************************************************************)
AccountsArePermanent ==
    [][\A u \in User :
         Known(u) => /\ Known(u)'
                     /\ users'[u].tenant = users[u].tenant
                     /\ users'[u].hasProfile = users[u].hasProfile]_vars

--------------------------------------------------------------------------------
(***************************************************************************)
(* A refresh replaces: every row that a refresh saved has the row it came  *)
(* from, of the same user and device, revoked before it.  No failure       *)
(* between the two writes and no race leaves the old session alive.        *)
(***************************************************************************)
RotationRevokes ==
    \A x \in DOMAIN rows :
      LET p == rows[x].parent IN
        p # 0 => /\ p \in 1 .. x - 1
                 /\ rows[p].revoked
                 /\ rows[p].user = rows[x].user /\ rows[p].device = rows[x].device

(***************************************************************************)
(* With devices that send one request at a time, no session is rotated     *)
(* into two, though refreshToken reads and revokes in two statements, and  *)
(* also when answers are lost and tokens presented again.                  *)
(***************************************************************************)
RotatedOnce ==
    Serial => \A x, y \in DOMAIN rows :
                rows[x].parent = rows[y].parent /\ rows[x].parent # 0 => x = y

(***************************************************************************)
(* While nothing fails, such a device is never signed out behind its back: *)
(* the token it holds has a row that is not revoked, until it expires or   *)
(* the user logs out of all sessions.  What other devices do, and the      *)
(* revocation of every session by a refresh that finds none, do not reach  *)
(* it.                                                                     *)
(***************************************************************************)
KeepsOwnSession ==
    Serial /\ faults = 0 =>
      \A u \in User, d \in Device :
        held[u][d] > expired /\ everyOut[u] = 0 /\ RequestsOf(u, d) = {}
          => held[u][d] \in Live(u, d)

--------------------------------------------------------------------------------
\* A refresh in flight goes on from a row of its own user and device, which it
\* has revoked by the time it saves.
RequestsJustified ==
    \A r \in Request :
      LET q == requests[r] IN
        Busy(r) => /\ At(r, "revoke") => q.found # 0
                   /\ q.found # 0 => /\ q.found \in DOMAIN rows
                                     /\ rows[q.found].user = q.user
                                     /\ rows[q.found].device = q.device
                                     /\ At(r, "save") => rows[q.found].revoked

\* No row is of a session that began after it, and only rows expire.
SessionsNumbered ==
    /\ expired <= Len(rows)
    /\ \A x \in DOMAIN rows : rows[x].session \in 1 .. x

\* The inductive invariant behind EditsStayInTenant, RotationRevokes and
\* KeepsSessionPromise.
IInv ==
    /\ TypeOK
    /\ RequestsJustified
    /\ RotationRevokes
    /\ SessionsNumbered
    /\ EditsStayInTenant

--------------------------------------------------------------------------------
\* A row is of the session that its login began.
SessionAt(x) ==
    [id |-> rows[x].session, user |-> rows[x].user, device |-> rows[x].device]

Begun == {SessionAt(x) : x \in DOMAIN rows}

\* A session is open while a row of it can be refreshed.  A refresh in flight
\* does not keep it so.
CanRefresh(x) == x > expired /\ ~rows[x].revoked
OpenSessions == {SessionAt(x) : x \in {y \in DOMAIN rows : CanRefresh(y)}}

\* A login or a registration that has yet to save its row, or a refresh of a
\* session.
TicketOf(r) ==
    IF ~Busy(r) \/ At(r, "revokeAll") THEN Idle
    ELSE IF requests[r].found = 0
      THEN [id |-> 0, user |-> requests[r].user, device |-> requests[r].device]
      ELSE SessionAt(requests[r].found)

(***************************************************************************)
(* Every session goes back to a login or a registration of its own, whose  *)
(* user was active at that moment.  Once the rows of a session are revoked *)
(* or expired, only a refresh that had found one of them before can open   *)
(* it again, and only once; with no such refresh in flight it is over for  *)
(* good, whatever tokens are presented and whatever fails.                 *)
(***************************************************************************)
Promise == INSTANCE SessionPromise WITH
    Ticket <- Request,
    None <- Idle,
    enabled <- {u \in User : validate(u)},
    begun <- Begun,
    open <- OpenSessions,
    tickets <- [r \in Request |-> TicketOf(r)]
KeepsSessionPromise == Promise!Spec

--------------------------------------------------------------------------------
(* What messages of the code say, and the code does not keep. *)

(***************************************************************************)
(* refreshToken refuses with 'Refresh token expired', and answers 'Session *)
(* expired, please login again': the token it refuses has expired.  Here   *)
(* RefreshFind refuses, and the device gives its token up.                 *)
(***************************************************************************)
RefusedMeansExpired ==
    [][\A r \in Request, u \in User, d \in Device :
         RefreshFind(r, u, d) /\ held'[u][d] = 0 => held[u][d] <= expired]_vars

(***************************************************************************)
(* logoutAllSessions answers 'Logged out from all sessions successfully':  *)
(* no session of the user that there was then goes on.  A row of it that   *)
(* is saved afterwards, by a refresh that had found an earlier one, does.  *)
(***************************************************************************)
LogoutAllEndsAll ==
    \A x \in DOMAIN rows :
      LET p == rows[x].parent
          out == everyOut[rows[x].user] IN
        p # 0 /\ p <= out => x <= out
================================================================================
