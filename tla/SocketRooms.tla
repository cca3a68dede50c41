------------------------------- MODULE SocketRooms -------------------------------
(***************************************************************************)
(* Connections of TrackingGateway: a new socket authenticates, looks up    *)
(* the sockets in its user's room, has them disconnected and joins; a      *)
(* connected one may join the room of an order.  The processes of the      *)
(* backend share their rooms through Redis (RedisIoAdapter): a             *)
(* disconnectSockets is published, not awaited, and takes effect in each   *)
(* process, the sender's too, when Redis delivers it.                      *)
(*                                                                         *)
(* A socket is used once: a client that comes back has another one.  The   *)
(* lookup over all processes is one step.                                  *)
(***************************************************************************)
CONSTANTS
    Socket, User, Process, Order,
    NoDriver, NoOrder,
    owner,          \* [Socket -> User]
    at,             \* [Socket -> Process]
    concerned,      \* [Order -> SUBSET User]: its customer, and the
                    \* administrators of its restaurant and of its tenant
    Drivers         \* users with the role DRIVER

\* Of handleConnection: not called yet; at the query of the user, at the lookup
\* of the room, at its last part; returned; ended with its process.
Step == {"new", "user", "fetch", "join", "done", "gone"}

ASSUME RoomsAssumption ==
    /\ owner \in [Socket -> User]
    /\ at \in [Socket -> Process]
    /\ concerned \in [Order -> SUBSET User]
    /\ Drivers \subseteq User
    /\ NoDriver \notin User
    /\ NoOrder \notin Order

VARIABLES
    handler,        \* [Socket -> Step]
    seen,           \* [Socket -> the sockets its lookup found]
    connected,      \* the sockets that are up
    room,           \* the sockets that have joined the room of their user
    kicks,          \* [Process -> the sockets whose disconnectSockets has yet
                    \* to be delivered to it]
    kicked,         \* history: the sockets disconnected by one
    asking,         \* [Socket -> the order whose room it is about to join]
    members,        \* [Order -> the sockets in its room]
    courier,        \* [Order -> its driver, as OrdersService writes it]
    hadAccess       \* history: [Order -> the users it has ever concerned]

connVars == <<handler, seen, connected, room, kicks, kicked>>
orderVars == <<asking, members, courier, hadAccess>>
vars == <<connVars, orderVars>>

RoomsTypeOK ==
    /\ handler \in [Socket -> Step]
    /\ seen \in [Socket -> SUBSET Socket]
    /\ connected \subseteq Socket
    /\ room \subseteq Socket
    /\ kicks \in [Process -> SUBSET Socket]
    /\ kicked \subseteq Socket
    /\ asking \in [Socket -> Order \cup {NoOrder}]
    /\ members \in [Order -> SUBSET Socket]
    /\ courier \in [Order -> User \cup {NoDriver}]
    /\ hadAccess \in [Order -> SUBSET User]

Init ==
    /\ handler = [s \in Socket |-> "new"]
    /\ seen = [s \in Socket |-> {}]
    /\ connected = {} /\ room = {}
    /\ kicks = [p \in Process |-> {}]
    /\ kicked = {}
    /\ asking = [s \in Socket |-> NoOrder]
    /\ members = [o \in Order |-> {}]
    /\ courier = [o \in Order |-> NoDriver]
    /\ hadAccess = concerned

Becomes(s, from, to) == handler[s] = from /\ handler' = [handler EXCEPT ![s] = to]

\* Sockets that are disconnected leave every room.
Leave(S) ==
    /\ connected' = connected \ S
    /\ room' = room \ S
    /\ members' = [o \in Order |-> members[o] \ S]

--------------------------------------------------------------------------------
\* handleConnection is called, and the token is good, or it is not and the
\* socket is closed.
Connect(s) ==
    /\ Becomes(s, "new", "user")
    /\ connected' = connected \cup {s}
    /\ UNCHANGED <<seen, room, kicks, kicked, orderVars>>

Unauthorized(s) ==
    /\ Becomes(s, "new", "done") \/ Becomes(s, "user", "done") \/ Becomes(s, "fetch", "done")
    /\ Leave({s})
    /\ UNCHANGED <<seen, kicks, kicked, asking, courier, hadAccess>>

\* The user is found and active (otherwise: Unauthorized).
FindUser(s) ==
    /\ Becomes(s, "user", "fetch")
    /\ UNCHANGED <<seen, connected, room, kicks, kicked, orderVars>>

Roommates(s) == {t \in room : owner[t] = owner[s]}

\* fetchSockets (if it throws: Unauthorized).
FetchSockets(s) ==
    /\ Becomes(s, "fetch", "join")
    /\ seen' = [seen EXCEPT ![s] = Roommates(s)]
    /\ UNCHANGED <<connected, room, kicks, kicked, orderVars>>

\* Mutant: joins only.
JoinOnly(s) ==
    /\ Becomes(s, "join", "done")
    /\ room' = room \cup ({s} \cap connected)
    /\ UNCHANGED <<seen, connected, kicks, kicked, orderVars>>

\* Mutant: disconnects the room whether it found anybody in it or not.
JoinAlwaysKicking(s) ==
    /\ Becomes(s, "join", "done")
    /\ kicks' = [p \in Process |-> kicks[p] \cup {s}]
    /\ room' = room \cup ({s} \cap connected)
    /\ UNCHANGED <<seen, connected, kicked, orderVars>>

\* Mutant: forgets the join.
JoinNot(s) ==
    /\ Becomes(s, "join", "done")
    /\ kicks' = [p \in Process |-> kicks[p] \cup (IF seen[s] = {} THEN {} ELSE {s})]
    /\ UNCHANGED <<seen, connected, room, kicked, orderVars>>

\* Has the sockets found disconnected, and joins; to join does nothing on a
\* socket that is closed by now.
Join(s) ==
    /\ Becomes(s, "join", "done")
    /\ kicks' = [p \in Process |-> kicks[p] \cup (IF seen[s] = {} THEN {} ELSE {s})]
    /\ room' = room \cup ({s} \cap connected)
    /\ UNCHANGED <<seen, connected, kicked, orderVars>>

\* A disconnectSockets of the user's room reaches a process.
KickArrives(p, s) ==
    LET hit == {t \in Roommates(s) : at[t] = p} IN
      /\ s \in kicks[p]
      /\ kicks' = [kicks EXCEPT ![p] = @ \ {s}]
      /\ kicked' = kicked \cup hit
      /\ Leave(hit)
      /\ UNCHANGED <<handler, seen, asking, courier, hadAccess>>

\* The client closes the socket, or the network does; its handler goes on.
ClientCloses(s) ==
    /\ s \in connected
    /\ Leave({s})
    /\ UNCHANGED <<handler, seen, kicks, kicked, asking, courier, hadAccess>>

--------------------------------------------------------------------------------
\* Mutant: the role is enough.
MayFollowAny(u, o) == u \in concerned[o] \/ u \in Drivers

\* Who may follow an order: those it concerns, and its driver.
MayFollow(u, o) == u \in concerned[o] \/ (u \in Drivers /\ courier[o] = u)

\* join_order up to its read; WsJwtGuard has let the message in.
JoinOrderRead(s, o) ==
    /\ s \in connected
    /\ asking[s] = NoOrder
    /\ MayFollow(owner[s], o)
    /\ asking' = [asking EXCEPT ![s] = o]
    /\ UNCHANGED <<connVars, members, courier, hadAccess>>

JoinOrder(s) ==
    /\ asking[s] # NoOrder
    /\ members' = [members EXCEPT ![asking[s]] = @ \cup ({s} \cap connected)]
    /\ asking' = [asking EXCEPT ![s] = NoOrder]
    /\ UNCHANGED <<connVars, courier, hadAccess>>

\* assignDriver and acceptOrder give the order to a driver.
GivenTo(o, d) ==
    /\ courier' = [courier EXCEPT ![o] = d]
    /\ hadAccess' = [hadAccess EXCEPT ![o] = @ \cup {d}]
    /\ UNCHANGED <<connVars, asking, members>>

--------------------------------------------------------------------------------
\* A process ends, with its sockets, its handlers and what it had yet to hear.
Crash(p) ==
    LET dead == {s \in Socket : at[s] = p /\ handler[s] # "new"} IN
      /\ dead \cap connected # {}
      /\ handler' = [s \in Socket |-> IF s \in dead /\ handler[s] # "done" THEN "gone"
                                      ELSE handler[s]]
      /\ kicks' = [kicks EXCEPT ![p] = {}]
      /\ asking' = [s \in Socket |-> IF s \in dead THEN NoOrder ELSE asking[s]]
      /\ Leave(dead)
      /\ UNCHANGED <<seen, kicked, courier, hadAccess>>

HandlerStep(s) == FindUser(s) \/ FetchSockets(s) \/ Join(s)

Next ==
    \/ \E s \in Socket :
         \/ Connect(s) \/ HandlerStep(s) \/ Unauthorized(s) \/ ClientCloses(s)
         \/ JoinOrder(s)
         \/ \E o \in Order : JoinOrderRead(s, o)
    \/ \E p \in Process, s \in Socket : KickArrives(p, s)
    \/ \E o \in Order, d \in Drivers : GivenTo(o, d)
    \/ \E p \in Process : Crash(p)

Spec == Init /\ [][Next]_vars

(***************************************************************************)
(* The database and Redis answer, and Redis delivers what is published: a  *)
(* handler that has started goes on, and a disconnect arrives.  Nobody has *)
(* to connect, to leave or to send anything.                               *)
(***************************************************************************)
Fairness ==
    /\ \A s \in Socket : WF_vars(HandlerStep(s))
    /\ \A p \in Process, s \in Socket : WF_vars(KickArrives(p, s))

FairSpec == Spec /\ Fairness
================================================================================
