-------------------------------- MODULE MCSockets -------------------------------
(***************************************************************************)
(* Instances of connections and rooms for TLC.                             *)
(***************************************************************************)
EXTENDS SocketProperties, TLC

CONSTANTS a1, a2, a3, b1, ana, luis, p1, p2, o1

\* ana, a driver, connects up to three times; luis, a customer, once.
MCOwner == [s \in Socket |-> IF s = b1 THEN luis ELSE ana]
MCAt == [s \in Socket |-> IF s = a2 THEN p2 ELSE CHOOSE p \in Process : p # p2]
MCConcerned == [o \in Order |-> {luis}]
================================================================================
