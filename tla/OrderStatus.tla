------------------------------ MODULE OrderStatus ------------------------------
(***************************************************************************)
(* The statuses of an order and the transitions between them: the table of *)
(* OrdersService.validateTransition, and the three shortcuts that other    *)
(* handlers take around it.  Pure definitions, no state.                   *)
(***************************************************************************)

\* enum OrderStatus of the database schema.
Status == {"CREATED", "PENDING", "SEARCHING_DRIVER", "OFFERED_TO_DRIVER",
           "CONFIRMED", "PREPARING", "READY", "ASSIGNED", "PICKED_UP",
           "DELIVERED", "CANCELLED", "FAILED"}

\* The row of an order that has not been created yet.
Absent == "ABSENT"

\* validateTransition: the pairs <<current, next>> it lets through.
validTransitions ==
    {<<"CREATED", "PREPARING">>, <<"CREATED", "CANCELLED">>,
     <<"PREPARING", "READY">>, <<"PREPARING", "CANCELLED">>,
     <<"READY", "SEARCHING_DRIVER">>, <<"READY", "CANCELLED">>,
     <<"SEARCHING_DRIVER", "OFFERED_TO_DRIVER">>,
     <<"SEARCHING_DRIVER", "FAILED">>, <<"SEARCHING_DRIVER", "CANCELLED">>,
     <<"OFFERED_TO_DRIVER", "ASSIGNED">>,
     <<"OFFERED_TO_DRIVER", "SEARCHING_DRIVER">>,
     <<"ASSIGNED", "PICKED_UP">>, <<"ASSIGNED", "CANCELLED">>,
     <<"PICKED_UP", "DELIVERED">>, <<"PICKED_UP", "FAILED">>}

\* What assignDriver accepts as the current status.
Assignable == {"READY", "CONFIRMED"}

\* Every pair some handler may write over the status it has read: the table,
\* assignDriver's step to ASSIGNED and completeOrder's step to DELIVERED.
Flow == validTransitions
          \cup {<<s, "ASSIGNED">> : s \in Assignable}
          \cup {<<"ASSIGNED", "DELIVERED">>}

\* The statuses no handler leaves (on the status it has read).
Final == {s \in Status : \A n \in Status : <<s, n>> \notin Flow}

\* Needs[n]: a milestone an order must have passed before it is ever n.
Needs == [n \in Status |->
            CASE n = "READY" -> "PREPARING"
              [] n \in {"SEARCHING_DRIVER", "OFFERED_TO_DRIVER", "ASSIGNED",
                        "FAILED"} -> "READY"
              [] n \in {"PICKED_UP", "DELIVERED"} -> "ASSIGNED"
              [] OTHER -> "CREATED"]
================================================================================
