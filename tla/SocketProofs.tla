------------------------------- MODULE SocketProofs ------------------------------
(***************************************************************************)
(* Proofs about connections and rooms, for any number of sockets, users,   *)
(* processes and orders: the inductive invariant of SocketProperties, with *)
(* one lemma for each kind of step.                                        *)
(*                                                                         *)
(* A disconnect that is on its way was justified when it was published     *)
(* (KicksJustified), and what a lookup found stays a socket of the same    *)
(* user that had joined (JoinedOnce): so a disconnect that arrives late,   *)
(* twice or after a crash finds only sockets of a user that had two.       *)
(***************************************************************************)
EXTENDS SocketProperties, TLAPS

\* What an order's room and its members ask of the connections: the sockets of
\* S leave every room.
LEMMA Left ==
    ASSUME TypeOK, MembersHadAccess, NEW S \in SUBSET Socket, Leave(S),
           hadAccess' = hadAccess
    PROVE  /\ connected' \subseteq Socket /\ room' \subseteq Socket
           /\ members' \in [Order -> SUBSET Socket]
           /\ room' = room \ S /\ connected' = connected \ S
           /\ MembersHadAccess'
  BY DEF TypeOK, RoomsTypeOK, Leave, MembersHadAccess

\* At first nobody is connected, and an order has concerned whom it concerns.
LEMMA InitIInv == Init => IInv
  <1> SUFFICES ASSUME Init PROVE IInv
    OBVIOUS
  <1>1. TypeOK
    BY RoomsAssumption DEF Init, TypeOK, RoomsTypeOK, Step
  <1>2. JoinedOnce /\ KicksJustified /\ SeenAreKicked /\ NobodyKickedAlone
    BY DEF Init, JoinedOnce, KicksJustified, SeenAreKicked, NobodyKickedAlone
  <1>3. AskedWithAccess /\ AccessKept /\ MembersHadAccess
    BY DEF Init, AskedWithAccess, AccessKept, MembersHadAccess
  <1> QED
    BY <1>1, <1>2, <1>3 DEF IInv

\* A connection keeps the invariant.
LEMMA ConnectIInv ==
    ASSUME IInv, NEW s \in Socket, Connect(s)
    PROVE  IInv'
  <1> USE DEF IInv
  <1>1. TypeOK'
    BY DEF Connect, Becomes, TypeOK, RoomsTypeOK, Step, orderVars
  <1>2. JoinedOnce'
    BY DEF Connect, Becomes, JoinedOnce, TypeOK, RoomsTypeOK
  <1>3. KicksJustified' /\ NobodyKickedAlone'
    BY DEF Connect, Becomes, KicksJustified, NobodyKickedAlone, JoinedOnce,
           TypeOK, RoomsTypeOK
  <1>4. SeenAreKicked'
    BY RoomsAssumption DEF Connect, Becomes, JoinedOnce, SeenAreKicked, TypeOK,
                           RoomsTypeOK
  <1>5. AskedWithAccess' /\ AccessKept' /\ MembersHadAccess'
    BY DEF Connect, Becomes, AskedWithAccess, AccessKept, MembersHadAccess,
           orderVars, TypeOK, RoomsTypeOK
  <1> QED
    BY <1>1, <1>2, <1>3, <1>4, <1>5

\* So does a user that was found,
LEMMA FindUserIInv ==
    ASSUME IInv, NEW s \in Socket, FindUser(s)
    PROVE  IInv'
  <1> USE DEF IInv
  <1>1. TypeOK'
    BY DEF FindUser, Becomes, TypeOK, RoomsTypeOK, Step, orderVars
  <1>2. JoinedOnce'
    BY DEF FindUser, Becomes, JoinedOnce, TypeOK, RoomsTypeOK
  <1>3. KicksJustified' /\ NobodyKickedAlone'
    BY DEF FindUser, Becomes, KicksJustified, NobodyKickedAlone, JoinedOnce,
           TypeOK, RoomsTypeOK
  <1>4. SeenAreKicked'
    BY RoomsAssumption DEF FindUser, Becomes, JoinedOnce, SeenAreKicked, TypeOK,
                           RoomsTypeOK
  <1>5. AskedWithAccess' /\ AccessKept' /\ MembersHadAccess'
    BY DEF FindUser, Becomes, AskedWithAccess, AccessKept, MembersHadAccess,
           orderVars, TypeOK, RoomsTypeOK
  <1> QED
    BY <1>1, <1>2, <1>3, <1>4, <1>5

\* a lookup, which finds sockets that have joined,
LEMMA FetchSocketsIInv ==
    ASSUME IInv, NEW s \in Socket, FetchSockets(s)
    PROVE  IInv'
  <1> USE DEF IInv
  <1>1. TypeOK'
    BY DEF FetchSockets, Roommates, Becomes, TypeOK, RoomsTypeOK, Step, orderVars
  <1>2. JoinedOnce'
    BY DEF FetchSockets, Roommates, Becomes, JoinedOnce, TypeOK, RoomsTypeOK
  <1>3. KicksJustified' /\ NobodyKickedAlone'
    BY DEF FetchSockets, Roommates, Becomes, KicksJustified, NobodyKickedAlone,
           JoinedOnce, TypeOK, RoomsTypeOK
  <1>4. SeenAreKicked'
    BY RoomsAssumption DEF FetchSockets, Roommates, Becomes, JoinedOnce,
                           SeenAreKicked, TypeOK, RoomsTypeOK
  <1>5. AskedWithAccess' /\ AccessKept' /\ MembersHadAccess'
    BY DEF FetchSockets, Roommates, Becomes, AskedWithAccess, AccessKept,
           MembersHadAccess, orderVars, TypeOK, RoomsTypeOK
  <1> QED
    BY <1>1, <1>2, <1>3, <1>4, <1>5

\* and a join, which publishes its disconnect in the same step.
LEMMA JoinIInv ==
    ASSUME IInv, NEW s \in Socket, Join(s)
    PROVE  IInv'
  <1> USE DEF IInv
  <1>1. TypeOK'
    BY DEF Join, Becomes, TypeOK, RoomsTypeOK, Step, orderVars
  <1>2. JoinedOnce'
    BY DEF Join, Becomes, JoinedOnce, TypeOK, RoomsTypeOK
  <1>3. KicksJustified' /\ NobodyKickedAlone'
    BY DEF Join, Becomes, KicksJustified, NobodyKickedAlone, JoinedOnce, TypeOK,
           RoomsTypeOK
  <1>4. SeenAreKicked'
    BY RoomsAssumption DEF Join, Becomes, JoinedOnce, SeenAreKicked, TypeOK,
                           RoomsTypeOK
  <1>5. AskedWithAccess' /\ AccessKept' /\ MembersHadAccess'
    BY DEF Join, Becomes, AskedWithAccess, AccessKept, MembersHadAccess,
           orderVars, TypeOK, RoomsTypeOK
  <1> QED
    BY <1>1, <1>2, <1>3, <1>4, <1>5

\* A connection that is refused or fails leaves, and justifies nothing.
LEMMA UnauthorizedIInv ==
    ASSUME IInv, NEW s \in Socket, Unauthorized(s)
    PROVE  IInv'
  <1> USE DEF IInv
  <1>1. Leave({s}) /\ hadAccess' = hadAccess
    BY DEF Unauthorized
  <1>2. /\ connected' \subseteq Socket /\ room' \subseteq Socket
        /\ members' \in [Order -> SUBSET Socket]
        /\ room' = room \ {s} /\ connected' = connected \ {s}
        /\ MembersHadAccess'
    BY <1>1, Left
  <1>3. TypeOK'
    BY <1>2 DEF Unauthorized, Becomes, TypeOK, RoomsTypeOK, Step, orderVars
  <1>4. JoinedOnce'
    BY <1>2 DEF Unauthorized, Becomes, JoinedOnce, TypeOK, RoomsTypeOK
  <1>5. KicksJustified' /\ NobodyKickedAlone'
    BY DEF Unauthorized, Becomes, KicksJustified, NobodyKickedAlone, JoinedOnce,
           TypeOK, RoomsTypeOK
  <1>6. SeenAreKicked'
    BY <1>2 DEF Unauthorized, Becomes, JoinedOnce, SeenAreKicked, TypeOK,
                RoomsTypeOK
  <1>7. AskedWithAccess' /\ AccessKept'
    BY DEF Unauthorized, AskedWithAccess, AccessKept, TypeOK, RoomsTypeOK
  <1> QED
    BY <1>1, <1>2, <1>3, <1>4, <1>5, <1>6, <1>7

\* A socket that is closed leaves.
LEMMA ClientClosesIInv ==
    ASSUME IInv, NEW s \in Socket, ClientCloses(s)
    PROVE  IInv'
  <1> USE DEF IInv
  <1>1. Leave({s}) /\ hadAccess' = hadAccess
    BY DEF ClientCloses
  <1>2. /\ connected' \subseteq Socket /\ room' \subseteq Socket
        /\ members' \in [Order -> SUBSET Socket]
        /\ room' = room \ {s} /\ connected' = connected \ {s}
        /\ MembersHadAccess'
    BY <1>1, Left
  <1>3. TypeOK'
    BY <1>2 DEF ClientCloses, Becomes, TypeOK, RoomsTypeOK, Step, orderVars
  <1>4. JoinedOnce'
    BY <1>2 DEF ClientCloses, Becomes, JoinedOnce, TypeOK, RoomsTypeOK
  <1>5. KicksJustified' /\ NobodyKickedAlone'
    BY DEF ClientCloses, Becomes, KicksJustified, NobodyKickedAlone, JoinedOnce,
           TypeOK, RoomsTypeOK
  <1>6. SeenAreKicked'
    BY <1>2 DEF ClientCloses, Becomes, JoinedOnce, SeenAreKicked, TypeOK,
                RoomsTypeOK
  <1>7. AskedWithAccess' /\ AccessKept'
    BY DEF ClientCloses, AskedWithAccess, AccessKept, TypeOK, RoomsTypeOK
  <1> QED
    BY <1>1, <1>2, <1>3, <1>4, <1>5, <1>6, <1>7

\* A disconnect takes the sockets that its lookup found, if they are there still.
LEMMA KickArrivesIInv ==
    ASSUME IInv, NEW p \in Process, NEW s \in Socket, KickArrives(p, s)
    PROVE  IInv'
  <1> USE DEF IInv
  <1> DEFINE gone == {t \in Roommates(s) : at[t] = p}
  <1>1. Leave(gone) /\ hadAccess' = hadAccess
    BY DEF KickArrives, Roommates
  <1>2. /\ connected' \subseteq Socket /\ room' \subseteq Socket
        /\ members' \in [Order -> SUBSET Socket]
        /\ room' = room \ gone /\ connected' = connected \ gone
        /\ MembersHadAccess'
    BY <1>1, Left DEF TypeOK, RoomsTypeOK, Roommates
  <1>3. TypeOK'
    BY <1>2 DEF KickArrives, Roommates, Becomes, TypeOK, RoomsTypeOK, Step,
                orderVars
  <1>4. JoinedOnce'
    BY <1>2 DEF KickArrives, Roommates, Becomes, JoinedOnce, TypeOK, RoomsTypeOK
  <1>5. KicksJustified' /\ NobodyKickedAlone'
    BY DEF KickArrives, Roommates, Becomes, KicksJustified, NobodyKickedAlone,
           JoinedOnce, TypeOK, RoomsTypeOK
  <1>6. SeenAreKicked'
    BY <1>2 DEF KickArrives, Roommates, Becomes, JoinedOnce, SeenAreKicked,
                TypeOK, RoomsTypeOK
  <1>7. AskedWithAccess' /\ AccessKept'
    BY DEF KickArrives, Roommates, AskedWithAccess, AccessKept, TypeOK,
           RoomsTypeOK
  <1> QED
    BY <1>1, <1>2, <1>3, <1>4, <1>5, <1>6, <1>7

\* A process that ends takes its sockets, and every one in its rooms is among them.
LEMMA CrashIInv ==
    ASSUME IInv, NEW p \in Process, Crash(p)
    PROVE  IInv'
  <1> USE DEF IInv
  <1> DEFINE gone == {s \in Socket : at[s] = p /\ handler[s] # "new"}
  <1>1. Leave(gone) /\ hadAccess' = hadAccess
    BY DEF Crash
  <1>2. /\ connected' \subseteq Socket /\ room' \subseteq Socket
        /\ members' \in [Order -> SUBSET Socket]
        /\ room' = room \ gone /\ connected' = connected \ gone
        /\ MembersHadAccess'
    BY <1>1, Left DEF TypeOK, RoomsTypeOK, Roommates
  <1>3. TypeOK'
    BY <1>2 DEF Crash, Becomes, TypeOK, RoomsTypeOK, Step, orderVars
  <1>4. JoinedOnce'
    BY <1>2 DEF Crash, Becomes, JoinedOnce, TypeOK, RoomsTypeOK
  <1>5. KicksJustified' /\ NobodyKickedAlone'
    BY DEF Crash, Becomes, KicksJustified, NobodyKickedAlone, JoinedOnce, TypeOK,
           RoomsTypeOK
  <1>6. SeenAreKicked'
    BY <1>2 DEF Crash, Becomes, JoinedOnce, SeenAreKicked, TypeOK, RoomsTypeOK
  <1>7. AskedWithAccess' /\ AccessKept'
    BY DEF Crash, AskedWithAccess, AccessKept, TypeOK, RoomsTypeOK
  <1> QED
    BY <1>1, <1>2, <1>3, <1>4, <1>5, <1>6, <1>7

\* What join_order reads allows the user in,
LEMMA JoinOrderReadIInv ==
    ASSUME IInv, NEW s \in Socket, NEW o \in Order, JoinOrderRead(s, o)
    PROVE  IInv'
  <1> USE DEF IInv
  <1>1. TypeOK'
    BY RoomsAssumption DEF JoinOrderRead, MayFollow, TypeOK, RoomsTypeOK, connVars
  <1>2. JoinedOnce' /\ KicksJustified' /\ NobodyKickedAlone' /\ SeenAreKicked'
    BY DEF JoinOrderRead, MayFollow, connVars, JoinedOnce, KicksJustified,
           NobodyKickedAlone, SeenAreKicked
  <1>3. AskedWithAccess' /\ AccessKept' /\ MembersHadAccess'
    BY RoomsAssumption DEF JoinOrderRead, MayFollow, AskedWithAccess, AccessKept,
                           MembersHadAccess, connVars, TypeOK, RoomsTypeOK
  <1> QED
    BY <1>1, <1>2, <1>3

\* also when the socket joins after the order was given to another driver.
LEMMA JoinOrderIInv ==
    ASSUME IInv, NEW s \in Socket, JoinOrder(s)
    PROVE  IInv'
  <1> USE DEF IInv
  <1>1. TypeOK'
    BY RoomsAssumption DEF JoinOrder, TypeOK, RoomsTypeOK, connVars
  <1>2. JoinedOnce' /\ KicksJustified' /\ NobodyKickedAlone' /\ SeenAreKicked'
    BY DEF JoinOrder, connVars, JoinedOnce, KicksJustified, NobodyKickedAlone,
           SeenAreKicked
  <1>3. AskedWithAccess' /\ AccessKept' /\ MembersHadAccess'
    BY RoomsAssumption DEF JoinOrder, AskedWithAccess, AccessKept,
                           MembersHadAccess, connVars, TypeOK, RoomsTypeOK
  <1> QED
    BY <1>1, <1>2, <1>3

\* A driver that is given an order has access to it from then on.
LEMMA GivenToIInv ==
    ASSUME IInv, NEW o \in Order, NEW d \in Drivers, GivenTo(o, d)
    PROVE  IInv'
  <1> USE DEF IInv
  <1>1. TypeOK'
    BY RoomsAssumption DEF GivenTo, TypeOK, RoomsTypeOK, connVars
  <1>2. JoinedOnce' /\ KicksJustified' /\ NobodyKickedAlone' /\ SeenAreKicked'
    BY DEF GivenTo, connVars, JoinedOnce, KicksJustified, NobodyKickedAlone,
           SeenAreKicked
  <1>3. AskedWithAccess' /\ AccessKept' /\ MembersHadAccess'
    BY RoomsAssumption DEF GivenTo, AskedWithAccess, AccessKept, MembersHadAccess,
                           connVars, TypeOK, RoomsTypeOK
  <1> QED
    BY <1>1, <1>2, <1>3

\* Every step keeps the invariant.
LEMMA NextIInv == IInv /\ [Next]_vars => IInv'
  <1> SUFFICES ASSUME IInv, [Next]_vars PROVE IInv'
    OBVIOUS
  <1>1. CASE UNCHANGED vars
    BY <1>1 DEF vars, connVars, orderVars, IInv, TypeOK, RoomsTypeOK, JoinedOnce,
                KicksJustified, AskedWithAccess, AccessKept, SeenAreKicked,
                NobodyKickedAlone, MembersHadAccess
  <1>2. ASSUME NEW s \in Socket, HandlerStep(s)
        PROVE  IInv'
    BY <1>2, FindUserIInv, FetchSocketsIInv, JoinIInv DEF HandlerStep
  <1> QED
    BY <1>1, <1>2, ConnectIInv, UnauthorizedIInv, ClientClosesIInv, KickArrivesIInv,
       JoinOrderReadIInv, JoinOrderIInv, GivenToIInv, CrashIInv DEF Next

--------------------------------------------------------------------------------
(***************************************************************************)
(* The inductive invariant of connections and rooms.                       *)
(***************************************************************************)
THEOREM InvariantHolds == Spec => []IInv
  BY InitIInv, NextIInv, PTL DEF Spec

(***************************************************************************)
(* A socket that a later connection found in the room is disconnected or   *)
(* about to be, however connections, disconnects and crashes interleave.   *)
(***************************************************************************)
THEOREM SeenAlwaysKicked == Spec => []SeenAreKicked
  <1>1. IInv => SeenAreKicked
    BY DEF IInv
  <1> QED
    BY <1>1, InvariantHolds, PTL

(***************************************************************************)
(* A user with a single connection is never disconnected by the server for *)
(* another one.                                                            *)
(***************************************************************************)
THEOREM NobodyEverKickedAlone == Spec => []NobodyKickedAlone
  <1>1. IInv => NobodyKickedAlone
    BY DEF IInv
  <1> QED
    BY <1>1, InvariantHolds, PTL

(***************************************************************************)
(* Whoever is in an order's room is connected, and was one of those the    *)
(* order concerned.                                                        *)
(***************************************************************************)
THEOREM MembersAlwaysHadAccess == Spec => []MembersHadAccess
  <1>1. IInv => MembersHadAccess
    BY DEF IInv
  <1> QED
    BY <1>1, InvariantHolds, PTL
================================================================================
