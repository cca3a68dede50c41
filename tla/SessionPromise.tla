------------------------------ MODULE SessionPromise -----------------------------
(***************************************************************************)
(* What sessions promise, without rows, tokens or statements.  A session   *)
(* begins by a sign-in, of a user whose account is active then, and no     *)
(* sign-in begins two.  Sessions may end at any time.  One that has ended  *)
(* opens again only by a refresh that started while it was open and is     *)
(* still on its way, and no refresh opens it twice.                        *)
(***************************************************************************)
CONSTANTS
    User, Device,
    Ticket,         \* what a sign-in or a refresh on its way is known by
    None            \* a ticket that is not in use

VARIABLES
    enabled,        \* the users whose account is active
    begun,          \* the sessions there have ever been
    open,           \* those that can be refreshed
    tickets         \* [Ticket -> the session that a refresh is of, or a session
                    \* without a number for a sign-in, or None]

promiseVars == <<enabled, begun, open, tickets>>

\* Numbers tell the sessions of a device apart; 0 is a session yet to begin.
Session(n, u, d) == [id |-> n, user |-> u, device |-> d]

Init ==
    /\ enabled \subseteq User
    /\ begun = {}
    /\ open = {}
    /\ tickets = [t \in Ticket |-> None]

\* A login, or the registration of a new user.
SignIn(t, u, d) ==
    /\ tickets[t] = None
    /\ u \in enabled'
    /\ enabled' \in {enabled, enabled \cup {u}}
    /\ tickets' = [tickets EXCEPT ![t] = Session(0, u, d)]
    /\ UNCHANGED <<begun, open>>

\* The session of a sign-in, under a number that no session has had.
Begin(t) ==
    /\ \E s \in begun' :
         /\ tickets[t] = Session(0, s.user, s.device)
         /\ s.id # 0 /\ \A b \in begun : b.id # s.id
         /\ begun' = begun \cup {s}
         /\ open' = open \cup {s}
    /\ tickets' = [tickets EXCEPT ![t] = None]
    /\ UNCHANGED enabled

\* A refresh finds its session open, ...
Refresh(t, s) ==
    /\ tickets[t] = None
    /\ s \in open
    /\ tickets' = [tickets EXCEPT ![t] = s]
    /\ UNCHANGED <<enabled, begun, open>>

\* ... and leaves it open, whatever has ended it meanwhile.
Renew(t) ==
    /\ tickets[t] \in begun
    /\ open' = open \cup {tickets[t]}
    /\ tickets' = [tickets EXCEPT ![t] = None]
    /\ UNCHANGED <<enabled, begun>>

\* Logouts, rotations, refused tokens, time, failures and crashes.
End ==
    /\ open' \subseteq open
    /\ \E dropped \in SUBSET Ticket :
         tickets' = [t \in Ticket |-> IF t \in dropped THEN None ELSE tickets[t]]
    /\ UNCHANGED <<enabled, begun>>

Switch ==
    /\ enabled' \subseteq User
    /\ UNCHANGED <<begun, open, tickets>>

Next ==
    \/ \E t \in Ticket :
         \/ \E u \in User, d \in Device : SignIn(t, u, d)
         \/ \E s \in open : Refresh(t, s)
         \/ Begin(t) \/ Renew(t)
    \/ End
    \/ Switch

Spec == Init /\ [][Next]_promiseVars
================================================================================
