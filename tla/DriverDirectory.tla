---------------------------- MODULE DriverDirectory ----------------------------
(***************************************************************************)
(* Where the drivers are and whether they take orders: DriverProfile       *)
(* .isOnline, set by DriversService.changeStatus, and DriverLocation,      *)
(* upserted by the gateway's update_location.  DriversLogicService         *)
(* .findNearbyDrivers joins the two.  DriverProfile.isAvailable, which it  *)
(* also asks for, is true by default and written nowhere.                  *)
(***************************************************************************)
EXTENDS DeliveryStore, FiniteSets

CONSTANTS
    Place,          \* positions a driver may report
    Nowhere,        \* a driver without a DriverLocation row
    Km,             \* [Order -> [Place -> Nat]]: to the order's restaurant
    OfferLimit      \* LIMIT of the query (10 in the code)

ASSUME DirectoryAssumption ==
    /\ Nowhere \notin Place
    /\ Km \in [Order -> [Place -> Nat]]
    /\ OfferLimit \in Nat \ {0}

VARIABLE drivers    \* [HasProfile -> [online, place]]

DriversTypeOK == drivers \in [HasProfile -> [online : BOOLEAN,
                                             place : Place \cup {Nowhere}]]

\* createDriver: offline, and its position goes to DriverProfile.location,
\* which findNearbyDrivers does not look at.
DriversInit == drivers = [d \in HasProfile |-> [online |-> FALSE, place |-> Nowhere]]

ChangeOnline(d) ==
    /\ \E b \in BOOLEAN \ {drivers[d].online} :
         drivers' = [drivers EXCEPT ![d].online = b]
    /\ UNCHANGED storeVars

\* Only a user with the role DRIVER may report a position.
UpdateLocation(d) ==
    /\ role[d] = "DRIVER"
    /\ \E p \in Place \ {drivers[d].place} :
         drivers' = [drivers EXCEPT ![d].place = p]
    /\ UNCHANGED storeVars

DirectoryStep == \E d \in HasProfile : ChangeOnline(d) \/ UpdateLocation(d)

--------------------------------------------------------------------------------
\* The radius the logistics listener passes.
Radius == 50

Distance(o, d) == Km[o][drivers[d].place]

\* Mutant: forgets the tenant.
InReachOfAnyTenant(o) ==
    {d \in HasProfile :
       /\ drivers[d].online
       /\ drivers[d].place # Nowhere
       /\ Distance(o, d) <= Radius}

\* The rows of the query before ORDER BY and LIMIT.
InReach(o) ==
    {d \in HasProfile :
       /\ home[d] = orders[o].tenant
       /\ drivers[d].online
       /\ drivers[d].place # Nowhere
       /\ Distance(o, d) <= Radius}

\* ... and after: the OfferLimit nearest, ties in any order.
NearbyDrivers(o) ==
    {S \in SUBSET InReach(o) :
       /\ Cardinality(S) <= OfferLimit
       /\ S # InReach(o) => Cardinality(S) = OfferLimit
       /\ \A d \in S, e \in InReach(o) \ S : Distance(o, d) <= Distance(o, e)}
================================================================================
