---------------------------- MODULE SocketProperties ----------------------------
(***************************************************************************)
(* What connections and rooms should guarantee, stated over SocketRooms.   *)
(***************************************************************************)
EXTENDS SocketRooms

\* Every variable has its type.
TypeOK == RoomsTypeOK

(***************************************************************************)
(* A socket that a later connection found in the room, and that is in it   *)
(* still, is about to be disconnected in its process: two sockets of a     *)
(* user stay together only if neither lookup saw the other.                *)
(***************************************************************************)
SeenAreKicked ==
    \A s \in Socket, t \in room :
      handler[s] = "done" /\ t \in seen[s] => s \in kicks[at[t]]

(***************************************************************************)
(* The server disconnects a socket only where two connections of its user  *)
(* met in its room: one user's connections never cost another a socket,    *)
(* and a user with a single one keeps it, late and duplicate disconnects   *)
(* included.                                                               *)
(***************************************************************************)
NobodyKickedAlone ==
    \A t \in kicked :
      \E s, r \in Socket :
        /\ s # r
        /\ owner[s] = owner[t] /\ owner[r] = owner[t]
        /\ r \in seen[s]

(***************************************************************************)
(* The room of an order holds connected sockets only, of users that the    *)
(* order has concerned; what join_order read may be stale when it joins,   *)
(* and the socket closed.                                                  *)
(***************************************************************************)
MembersHadAccess ==
    \A o \in Order :
      /\ members[o] \subseteq connected
      /\ \A s \in members[o] : owner[s] \in hadAccess[o]

--------------------------------------------------------------------------------
\* What joins the rooms is justified.
AskedWithAccess ==
    \A s \in Socket : asking[s] # NoOrder => owner[s] \in hadAccess[asking[s]]

\* Only disconnects that a lookup justified are on their way.
KicksJustified ==
    \A p \in Process, s \in Socket :
      s \in kicks[p] => \E r \in seen[s] : r # s /\ owner[r] = owner[s]

\* A socket looks up once and joins once, later, and what it found had joined.
JoinedOnce ==
    /\ \A s \in Socket : handler[s] \in {"new", "user", "fetch"} => seen[s] = {}
    /\ \A t \in room : handler[t] = "done" /\ t \in connected
    /\ \A s \in Socket : \A r \in seen[s] :
         handler[r] = "done" /\ r # s /\ owner[r] = owner[s]

\* Whom an order concerns, it has concerned.
AccessKept ==
    \A o \in Order : concerned[o] \cup ({courier[o]} \ {NoDriver}) \subseteq hadAccess[o]

\* The inductive invariant behind the three properties.
IInv ==
    /\ TypeOK
    /\ JoinedOnce
    /\ KicksJustified
    /\ AskedWithAccess
    /\ AccessKept
    /\ SeenAreKicked
    /\ NobodyKickedAlone
    /\ MembersHadAccess

--------------------------------------------------------------------------------
(***************************************************************************)
(* A connection that was let in gets into its user's room or is closed;    *)
(* unless its process ends.                                                *)
(***************************************************************************)
HandshakeEnds ==
    \A s \in Socket : handler[s] = "user" ~> s \in room \/ s \notin connected

(***************************************************************************)
(* A socket that a later connection of its user replaced leaves the room.  *)
(***************************************************************************)
ReplacedLeaves ==
    \A s, t \in Socket : handler[s] = "done" /\ t \in seen[s] ~> t \notin room

================================================================================
