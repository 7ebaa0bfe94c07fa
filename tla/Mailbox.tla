------------------------------ MODULE Mailbox ------------------------------
(***************************************************************************)
(* What the hub promises about ONE message, as its sender and its recipient*)
(* see it: it is accepted once, handed out again only when the last hold on*)
(* it has run out, and closed for good by an acknowledgement of the current*)
(* holder or by its deadline.  The table, the other messages, the requests *)
(* that wait for the database and its cleanup are hidden.                  *)
(***************************************************************************)
EXTENDS Integers

CONSTANTS
    Deadline,   \* expires_at of the message
    Grace       \* how late the hub may act on a clock it has read

VARIABLES
    clock,      \* the hub's wall clock
    mail        \* where the message is

New == [at |-> "new"]
Waiting(n) == [at |-> "waiting", attempts |-> n]
Held(n, t) == [at |-> "held", attempts |-> n, until |-> t]
Closed == [at |-> "closed"]

Overdue == mail.at = "held" /\ mail.until <= clock

Init ==
    /\ clock = 0
    /\ mail = New

Tick ==
    /\ clock' = clock + 1
    /\ UNCHANGED mail

Accept ==
    /\ mail = New
    /\ Deadline > clock - Grace
    /\ mail' = Waiting(0)
    /\ UNCHANGED clock

HandOut ==
    /\ mail.at = "waiting" \/ Overdue
    /\ Deadline > clock - Grace
    /\ mail'.at = "held"
    /\ mail'.until > clock - Grace
    /\ mail' = Held(mail.attempts + 1, mail'.until)
    /\ UNCHANGED clock

TakeBack ==
    /\ Overdue
    /\ mail' = Waiting(mail.attempts)
    /\ UNCHANGED clock

\* The holder settles it; that it may do so late is the hub's choice.
Acknowledge ==
    /\ mail.at = "held"
    /\ mail' = Closed
    /\ UNCHANGED clock

Expire ==
    /\ mail.at \in {"waiting", "held"}
    /\ Deadline <= clock
    /\ mail' = Closed
    /\ UNCHANGED clock

Next == Tick \/ Accept \/ HandOut \/ TakeBack \/ Acknowledge \/ Expire

Spec == Init /\ [][Next]_<<clock, mail>>
=============================================================================
